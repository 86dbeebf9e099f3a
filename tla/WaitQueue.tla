----------------------------- MODULE WaitQueue -----------------------------
(***************************************************************************)
(* The request list of waitqueue.h: a bounded append, and a pop that takes *)
(* the request nearest to the current track.  Track numbers are ints, from *)
(* -INT_MAX - 1 to INT_MAX; the difference of two of them and its abs()    *)
(* wrap, which is what the usual builds make of the signed overflow.       *)
(***************************************************************************)
EXTENDS Integers, Sequences, SequencesExt

CONSTANTS
  IntMax,     (* INT_MAX                                                   *)
  MaxSize     (* maxSize                                                   *)

ASSUME IntMaxAssumption == IntMax \in Nat
ASSUME MaxSizeAssumption == MaxSize \in Int

IntMin == - IntMax - 1
Ints   == IntMin .. IntMax

Wrap(x)  == ((x - IntMin) % (2 * IntMax + 2)) + IntMin
CAbs(x)  == IF x < 0 THEN Wrap(- x) ELSE x
Seek(a, b) == CAbs(Wrap(a - b))

(* Mutant: the list is full one request too late.                          *)
IsFullLate(q) == Len(q) > MaxSize

IsFull(q) == Len(q) >= MaxSize

(* append: refused, without an effect, when the list is full.              *)
Appended(q, node) == IF IsFull(q) THEN q ELSE Append(q, node)

(* Mutant: the difference is compared without abs().                       *)
ScanSigned(q, track) ==
  LET scan[i \in 0 .. Len(q)] ==
        IF i = 0 THEN [min |-> IntMax, best |-> 0]
        ELSE IF Wrap(q[i].track - track) < scan[i - 1].min
             THEN [min |-> Wrap(q[i].track - track), best |-> i]
             ELSE scan[i - 1]
  IN scan[Len(q)]

(* The loop of pop: the smallest difference so far, and the position of    *)
(* perfectNode, 0 while it is uninitialised.                               *)
Scan(q, track) ==
  LET scan[i \in 0 .. Len(q)] ==
        IF i = 0 THEN [min |-> IntMax, best |-> 0]
        ELSE IF Seek(q[i].track, track) < scan[i - 1].min
             THEN [min |-> Seek(q[i].track, track), best |-> i]
             ELSE scan[i - 1]
  IN scan[Len(q)]

(* Mutant: first come, first served.                                       *)
PopOldest(q, track) == {1}

(* The positions pop may take.  An uninitialised perfectNode can be the    *)
(* address of any request of the list; a wild address is position 0.       *)
PopChoices(q, track) ==
  LET best == Scan(q, track).best
  IN IF best = 0 THEN 0 .. Len(q) ELSE {best}

(* What pop is for: the true distance, and the oldest of the nearest.      *)
Distance(a, b) == IF a >= b THEN a - b ELSE b - a

IsNearest(q, track, i) ==
  /\ i \in DOMAIN q
  /\ \A j \in DOMAIN q :
       /\ Distance(q[i].track, track) <= Distance(q[j].track, track)
       /\ j < i => Distance(q[i].track, track) < Distance(q[j].track, track)
=============================================================================
