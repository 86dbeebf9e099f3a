------------------------------ MODULE ReadFile ------------------------------
(***************************************************************************)
(* ReadFile of readfile.h, once it has the opened file, and produceTask of *)
(* producer.h, which makes a task of every line until nextLine has none.   *)
(*                                                                         *)
(* A line is what one fgets delivers: a longer one than the buffer is      *)
(* several.  DiskSchedulerNew takes from here which tracks a producer      *)
(* requests (TracksBeforeBlank); the specification has names of its own,   *)
(* so that one module can extend both.                                     *)
(***************************************************************************)
EXTENDS Sequences, SequencesExt

CONSTANTS
  Lines,   (* what a line can be, without its newline                      *)
  Texts,   (* files: their lines, and whether the last one ends in newline *)
  Blank    (* an empty line                                                *)

ASSUME TextsAssumption ==
  /\ Texts \subseteq [lines : Seq(Lines), newline : BOOLEAN]
  /\ \A t \in Texts : t.newline \/ t.lines = <<>> \/ Last(t.lines) # Blank

VARIABLES
  text,    (* the file                                                     *)
  left,    (* its lines not yet read                                       *)
  atEnd,   (* feof                                                         *)
  line,    (* the buffer after nextLine                                    *)
  more,    (* what nextLine returned                                       *)
  isOpen,  (* close() was not called                                       *)
  tasks    (* the tracks of the tasks produced                             *)

readerVars == <<text, left, atEnd, line, more, isOpen, tasks>>

ReaderInit ==
  /\ text \in Texts
  /\ left = text.lines
  /\ atEnd = FALSE
  /\ line = Blank
  /\ more = TRUE
  /\ isOpen = TRUE
  /\ tasks = <<>>

(* Mutant: the buffer is not emptied before fgets.                         *)
NotEmptied == line

(* What the buffer holds when fgets reads nothing.                         *)
Emptied == Blank

(* The last line without a newline takes the file to its end, after one    *)
(* with a newline only the next fgets does, and leaves the buffer empty.   *)
NextLine ==
  \/ /\ atEnd
     /\ more' = FALSE
     /\ UNCHANGED <<left, atEnd, line>>
  \/ /\ ~atEnd /\ left # <<>>
     /\ more' = TRUE
     /\ line' = Head(left)
     /\ left' = Tail(left)
     /\ atEnd' = (Len(left) = 1 /\ ~text.newline)
  \/ /\ ~atEnd /\ left = <<>>
     /\ more' = TRUE
     /\ line' = Emptied
     /\ atEnd' = TRUE
     /\ UNCHANGED left

ProduceTask ==
  /\ isOpen
  /\ NextLine
  /\ isOpen' = (more' /\ line' # Blank)
  /\ tasks' = IF isOpen' THEN Append(tasks, line') ELSE tasks
  /\ UNCHANGED text

Closed == ~isOpen /\ UNCHANGED readerVars

ReaderNext == ProduceTask \/ Closed

ReaderSpec == ReaderInit /\ [][ReaderNext]_readerVars
-----------------------------------------------------------------------------
(* A producer makes a task of each line before the first blank one, in     *)
(* order and once, whether or not the file ends in a newline; what comes   *)
(* after a blank line is never requested.                                  *)
TracksBeforeBlank ==
  /\ IsPrefix(tasks, text.lines)
  /\ ~isOpen => \/ Len(tasks) = Len(text.lines)
                \/ text.lines[Len(tasks) + 1] = Blank
  /\ Blank \notin Range(tasks)
=============================================================================
