----------------------------- MODULE WordIndex -----------------------------
(***************************************************************************)
(* The inverted index of read_file.cpp: the files named in a listing are   *)
(* read through a buffer, cut into words, and each word gets the list of   *)
(* the numbers of the files it occurs in; then the words are sorted with   *)
(* compare_str and printed.                                                *)
(*                                                                         *)
(* A character is a positive number, a letter, or 0, anything else; 0 also *)
(* ends a line.  A name of the listing is what one fgets delivers: one     *)
(* that does not fit the buffer is several.                                *)
(***************************************************************************)
EXTENDS Integers, Sequences, FiniteSets, SequencesExt

CONSTANTS
  BufSize,   (* sizeof(content)                                            *)
  Listings,  (* possible listings: file names, and a newline after the     *)
             (* last one or not                                            *)
  Texts,     (* the text of each file that can be opened, line by line     *)
  Garbage,   (* what the uninitialised content may hold                    *)
  Debris     (* what the uninitialised data may hold: a file name          *)

ASSUME IndexAssumption ==
  /\ BufSize \in Nat \ {0, 1}
  /\ \A l \in Listings : /\ l.names \in Seq(Range(l.names))
                         /\ l.newline \in BOOLEAN /\ (l.newline => l.names # <<>>)
  /\ \A name \in DOMAIN Texts : Texts[name] \in Seq(Seq(Nat))
  /\ Garbage \subseteq Seq(Nat)

VARIABLES
  listing,   (* the listing that is read                                   *)
  names,     (* the lines of it that are left                              *)
  pc,        (* "names", "text", "done", or "failed"                       *)
  data,      (* the name in the buffer                                     *)
  fileNum,   (* file_num                                                   *)
  text,      (* the lines of the open file that are left                   *)
  stale,     (* content was never written                                  *)
  atEnd,     (* feof of the listing                                        *)
  dict,      (* word_dict                                                  *)
  alpha      (* the words in the order in which they are printed           *)

vars == <<listing, names, pc, data, fileNum, text, stale, atEnd, dict, alpha>>

Init ==
  /\ listing \in Listings
  /\ names = listing.names
  /\ pc = "names"
  /\ data \in Debris
  /\ fileNum = -1
  /\ text = <<>>
  /\ stale = TRUE
  /\ atEnd = FALSE
  /\ dict = <<>>
  /\ alpha = <<>>

-----------------------------------------------------------------------------
(* The words of a piece of text: its longest runs of letters.              *)
IsWord(s, i, j) ==
  /\ i <= j
  /\ \A k \in i .. j : s[k] # 0
  /\ i = 1 \/ s[i - 1] = 0
  /\ j = Len(s) \/ s[j + 1] = 0

Words(s) ==
  {SubSeq(s, r[1], r[2]) :
     r \in {r \in (DOMAIN s) \X (DOMAIN s) : IsWord(s, r[1], r[2])}}

(* Mutant: the last file number of a word is not looked at.                *)
IndexedAgain(d, W, n) ==
  [w \in DOMAIN d \cup W |->
     IF w \notin DOMAIN d THEN <<n>>
     ELSE IF w \in W THEN Append(d[w], n) ELSE d[w]]

Indexed(d, W, n) ==
  [w \in DOMAIN d \cup W |->
     IF w \notin DOMAIN d THEN <<n>>
     ELSE IF w \in W /\ Last(d[w]) # n THEN Append(d[w], n) ELSE d[w]]

(* compare_str; list::sort takes any result but 0 for "goes first".        *)
CompareStr(a, b) ==
  LET differ == {i \in DOMAIN a \cap DOMAIN b : a[i] # b[i]}
      first  == CHOOSE i \in differ : \A j \in differ : i <= j
  IN IF differ # {} THEN IF a[first] > b[first] THEN 1 ELSE -1
     ELSE IF Len(a) = Len(b) THEN 0
     ELSE IF Len(a) < Len(b) THEN 1 ELSE -1

(* The order of the map's keys: by first difference, a prefix first.       *)
Before(a, b) ==
  \/ IsStrictPrefix(a, b)
  \/ \E i \in DOMAIN a \cap DOMAIN b :
       /\ a[i] < b[i]
       /\ \A j \in 1 .. i - 1 : a[j] = b[j]

(* The keys of the map, in its order.                                      *)
Keys ==
  LET rank(w) == Cardinality({v \in DOMAIN dict : Before(v, w)})
  IN [i \in 1 .. Cardinality(DOMAIN dict) |->
        CHOOSE w \in DOMAIN dict : rank(w) = i - 1]

(* Mutant: compare_str says which word goes first with 1 alone.            *)
GoesFirstIfOne(a, b) == CompareStr(a, b) = 1

GoesFirst(a, b) == CompareStr(a, b) # 0

(* merge() of two lists: the second one's element first if the predicate   *)
(* says so.                                                                *)
Merge(p, q) ==
  LET merge[r \in (0 .. Len(p)) \X (0 .. Len(q))] ==
        LET i == r[1]
            j == r[2]
        IN IF i = Len(p) THEN SubSeq(q, j + 1, Len(q))
           ELSE IF j = Len(q) THEN SubSeq(p, i + 1, Len(p))
           ELSE IF GoesFirst(q[j + 1], p[i + 1])
                THEN <<q[j + 1]>> \o merge[<<i, j + 1>>]
                ELSE <<p[i + 1]>> \o merge[<<i + 1, j>>]
  IN merge[<<0, 0>>]

(* list::sort merges ever longer runs of neighbours.                       *)
Sort(q) ==
  LET sort[r \in (1 .. Len(q) + 1) \X (0 .. Len(q))] ==
        LET i == r[1]
            j == r[2]
            m == (i + j) \div 2
        IN IF j < i THEN <<>>
           ELSE IF i = j THEN <<q[i]>>
           ELSE Merge(sort[<<i, m>>], sort[<<m + 1, j>>])
  IN sort[<<1, Len(q)>>]

-----------------------------------------------------------------------------
(* One round of the outer loop up to fopen: a line is read, unless the     *)
(* listing has none left, which leaves in the buffer the last name, or     *)
(* what was there before the first.                                        *)
NextName ==
  /\ pc = "names" /\ ~atEnd
  /\ data' = IF names = <<>> THEN data ELSE Head(names)
  /\ names' = IF names = <<>> THEN <<>> ELSE Tail(names)
  /\ atEnd' = (names = <<>> \/ (Len(names) = 1 /\ ~listing.newline))
  /\ IF data' \in DOMAIN Texts
     THEN /\ pc' = "text"
          /\ fileNum' = fileNum + 1
          /\ text' = Texts[data']
     ELSE /\ pc' = "failed"
          /\ UNCHANGED <<fileNum, text>>
  /\ UNCHANGED <<listing, stale, dict, alpha>>

(* fgets of a line, or of as much of it as the buffer takes.               *)
ReadText ==
  /\ pc = "text" /\ text # <<>>
  /\ LET line == Head(text)
     IN IF Len(line) < BufSize
        THEN /\ text' = Tail(text)
             /\ dict' = Indexed(dict, Words(line), fileNum)
        ELSE /\ text' = <<SubSeq(line, BufSize, Len(line))>> \o Tail(text)
             /\ dict' = Indexed(dict, Words(SubSeq(line, 1, BufSize - 1)), fileNum)
  /\ stale' = FALSE
  /\ UNCHANGED <<listing, names, pc, data, fileNum, atEnd, alpha>>

(* The last fgets finds nothing.  content is empty, because the round      *)
(* before cleared it, unless this is the first one.                        *)
EndOfText ==
  /\ pc = "text" /\ text = <<>>
  /\ \E piece \in (IF stale THEN Garbage ELSE {<<>>}) :
       dict' = Indexed(dict, Words(piece), fileNum)
  /\ stale' = FALSE
  /\ pc' = "names"
  /\ UNCHANGED <<listing, names, data, fileNum, text, atEnd, alpha>>

PrintIndex ==
  /\ pc = "names" /\ atEnd
  /\ alpha' = Sort(Keys)
  /\ pc' = "done"
  /\ UNCHANGED <<listing, names, data, fileNum, text, stale, atEnd, dict>>

Ended == pc \in {"done", "failed"} /\ UNCHANGED vars

Next == NextName \/ ReadText \/ EndOfText \/ PrintIndex \/ Ended

Spec == Init /\ [][Next]_vars
-----------------------------------------------------------------------------
(* The words of a file: those of its lines, where a line that does not    *)
(* fit the buffer is cut every BufSize - 1 characters.                     *)
Cut(line) ==
  LET n == BufSize - 1
  IN {SubSeq(line, k * n + 1, IF (k + 1) * n < Len(line) THEN (k + 1) * n ELSE Len(line)) :
        k \in {k \in 0 .. Len(line) : k * n < Len(line)}}

LineWords(line) == UNION {Words(piece) : piece \in Cut(line)}
TextWords(lines) == UNION {LineWords(lines[i]) : i \in DOMAIN lines}

(* The files that are read: the last one twice if the listing ends in a    *)
(* newline; for an empty listing the file whose name is in the buffer.     *)
FilesRead ==
  IF listing.names = <<>> THEN <<data>>
  ELSE listing.names \o (IF listing.newline THEN <<Last(listing.names)>> ELSE <<>>)

(* When the index is printed, the numbers of a word are those of files     *)
(* that were read, in order and once each, and every number is that of the *)
(* words of its file and of no other; but for number 0 if the first file   *)
(* is empty, since the buffer for its text is read before it is written.   *)
IndexIsExact ==
  pc = "done" =>
    /\ \A w \in DOMAIN dict :
         /\ dict[w] # <<>> /\ Range(dict[w]) \subseteq 0 .. Len(FilesRead) - 1
         /\ \A i \in 1 .. Len(dict[w]) - 1 : dict[w][i] < dict[w][i + 1]
    /\ \A n \in 0 .. Len(FilesRead) - 1 :
         n # 0 \/ Texts[FilesRead[1]] # <<>> =>
           {w \in DOMAIN dict : n \in Range(dict[w])} = TextWords(Texts[FilesRead[n + 1]])

(* compare_str is not an order for list::sort, since it says of any two    *)
(* words that each goes first; the words come out last to first.           *)
PrintedBackwards ==
  pc = "done" =>
    /\ Len(alpha) = Len(Keys)
    /\ \A i, j \in DOMAIN alpha : i < j => Before(alpha[j], alpha[i])
=============================================================================
