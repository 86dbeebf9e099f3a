------------------------- MODULE MCDiskSchedulerNew -------------------------
(* Instances of DiskSchedulerNew for TLC.                                  *)
EXTENDS DiskSchedulerNew

Three ==
  {<<<<1>>, <<6>>, <<3>>>>, <<<<1>>, <<>>, <<3>>>>, <<<<>>, <<>>, <<3, 4>>>>,
   <<<<>>, <<>>, <<>>>>, <<<<1>>, None, <<>>>>}
=============================================================================
