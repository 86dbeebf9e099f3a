----------------------------- MODULE MCReadFile -----------------------------
(* Every file of up to four lines, for TLC.                                *)
EXTENDS ReadFile, Naturals

SomeLines == {3, 7, Blank}

UpToFour == UNION {[1 .. n -> SomeLines] : n \in 0 .. 4}

AllTexts ==
  {t \in [lines : UpToFour, newline : BOOLEAN] :
     t.newline \/ t.lines = <<>> \/ Last(t.lines) # Blank}
=============================================================================
