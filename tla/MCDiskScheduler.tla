-------------------------- MODULE MCDiskScheduler --------------------------
(* Instances of DiskScheduler for TLC.                                     *)
EXTENDS DiskScheduler

Two   == {<<<<3, 1>>, <<6, 2>>>>, <<<<>>, <<4>>>>, <<<<>>, <<>>>>}
Three == {<<<<1>>, <<6>>, <<3>>>>}

TwoWithFaults == Two \cup {<<<<3, 1>>, None>>, <<None, <<>>>>}
=============================================================================
