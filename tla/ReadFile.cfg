CONSTANTS
  Lines <- SomeLines
  Texts <- AllTexts
  Blank = Blank
SPECIFICATION ReaderSpec
INVARIANT TracksBeforeBlank
