---------------------------- MODULE NearestFirst ----------------------------
(***************************************************************************)
(* What a disk scheduler promises, without threads, locks or wake-ups.     *)
(* Each requester asks for its tracks in order, one at a time, and leaves  *)
(* when it has asked for the last and was served.  Requests wait in a list *)
(* of MaxSize; one is served only when the list is full, or every          *)
(* requester that is still there has its request in it, and it is the one  *)
(* nearest to the head, the oldest of those if they are several.           *)
(***************************************************************************)
EXTENDS WaitQueue, FiniteSets

CONSTANTS
  Requesters,
  Unreadable   (* stands for the tracks of a requester that never asks     *)

VARIABLES
  todo,        (* the tracks each requester has still to ask for           *)
  present,     (* the requesters that have not left                        *)
  pending,     (* the list, oldest request first                           *)
  head         (* the track served last                                    *)

vars == <<todo, present, pending, head>>

Init ==
  /\ todo \in [Requesters -> Seq(Ints) \cup {Unreadable}]
  /\ present = Requesters
  /\ pending = <<>>
  /\ head = 0

HasRequest(p) == \E i \in DOMAIN pending : pending[i].requester = p

Ask(p) ==
  /\ p \in present /\ ~HasRequest(p)
  /\ todo[p] \notin {<<>>, Unreadable}
  /\ Len(pending) < MaxSize
  /\ pending' = Append(pending, [track |-> Head(todo[p]), requester |-> p])
  /\ todo' = [todo EXCEPT ![p] = Tail(@)]
  /\ UNCHANGED <<present, head>>

Serve ==
  /\ Len(pending) >= MaxSize \/ Len(pending) >= Cardinality(present)
  /\ \E i \in DOMAIN pending :
       /\ IsNearest(pending, head, i)
       /\ pending' = RemoveAt(pending, i)
       /\ head' = pending[i].track
  /\ UNCHANGED <<todo, present>>

Leave(p) ==
  /\ p \in present /\ ~HasRequest(p) /\ todo[p] = <<>>
  /\ present' = present \ {p}
  /\ UNCHANGED <<todo, pending, head>>

Next == (\E p \in Requesters : Ask(p) \/ Leave(p)) \/ Serve

Spec == Init /\ [][Next]_vars
=============================================================================
