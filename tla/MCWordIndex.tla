---------------------------- MODULE MCWordIndex ----------------------------
(* Instances of WordIndex for TLC.                                         *)
EXTENDS WordIndex

Files ==
  [a |-> <<<<1, 0>>, <<2, 0, 1, 0>>>>,
   b |-> <<<<2, 1, 0>>, <<1>>>>,
   c |-> <<<<2, 2, 0, 1>>>>,
   d |-> <<<<1, 2, 1, 1, 2, 2, 0>>, <<2, 0>>>>,
   e |-> <<>>]

Names == {"a", "b", "c", "d", "e", "x"}

Leftovers == {<<>>, <<2, 0, 1, 1>>}

AllListings ==
  [names : UNION {[1 .. n -> Names] : n \in 1 .. 3}, newline : BOOLEAN]
    \cup {[names |-> <<>>, newline |-> FALSE]}
=============================================================================
