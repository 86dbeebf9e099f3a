---------------------------- MODULE MCWaitQueue ----------------------------
(* Every list of requests that calls of append and pop can build, with     *)
(* every current track, for TLC.                                           *)
EXTENDS WaitQueue

VARIABLES
  list,      (* the private list                                           *)
  current    (* the track of the node pop is called with                   *)

vars == <<list, current>>

Init == list = <<>> /\ current \in Ints

AppendCall(track) ==
  /\ list' = Appended(list, [track |-> track])
  /\ UNCHANGED current

(* The popped node is the current node of the next pop.                    *)
PopCall ==
  \E i \in PopChoices(list, current) \ {0} :
    /\ list' = RemoveAt(list, i)
    /\ current' = list[i].track

Next == (\E track \in Ints : AppendCall(track)) \/ PopCall

Spec == Init /\ [][Next]_vars
-----------------------------------------------------------------------------
(* Whatever overflows, a request less than INT_MAX tracks away that pop    *)
(* takes is the oldest of the nearest: only a request whose own distance   *)
(* overflows can be preferred to a nearer one.  pop returns perfectNode    *)
(* uninitialised exactly when the list is empty or the distance of each    *)
(* request comes out as INT_MAX: it is that, or two more and wraps.        *)
PopTakesNearest ==
  /\ \A i \in PopChoices(list, current) \ {0} :
       Distance(list[i].track, current) < IntMax => IsNearest(list, current, i)
  /\ 0 \in PopChoices(list, current) <=>
       \A j \in DOMAIN list :
         Distance(list[j].track, current) \in {IntMax, IntMax + 2}
=============================================================================
