-------------------------- MODULE SchedulerThreads --------------------------
(***************************************************************************)
(* What the two disk schedulers, main.cpp and main_new.cpp, share: their   *)
(* threads on top of the thread library, the list of waitqueue.h, and the  *)
(* way the threads are created.                                            *)
(*                                                                         *)
(* An application step is the code from one library call to the next and   *)
(* the call: pc says where the thread continues when the call returns, and *)
(* the library's own steps (Lib) say when that is.  Between any two steps  *)
(* the running thread can be preempted, because start_preemptions is       *)
(* called with async and sync.                                             *)
(***************************************************************************)
EXTENDS WaitQueue, FiniteSets

CONSTANTS
  N,           (* argc - 2: the number of requesters                       *)
  Files,       (* what may be in the files: a sequence of tracks for each, *)
               (* or None for one that cannot be opened                    *)
  Boot,        (* the thread of first_thread_start_function                *)
  Service,     (* the thread that serves the requests                      *)
  MaxFailures, (* how many calls of thread_create, and whether             *)
               (* thread_libinit, may fail for want of memory              *)
  None

Requesters == 1 .. N
Threads    == Requesters \cup {Boot, Service}
Locks      == {1}
Conds      == {1} \cup -1 .. N

ASSUME SchedulerAssumption ==
  /\ N \in Nat /\ MaxFailures \in Nat
  /\ Files \subseteq [Requesters -> Seq(Ints) \cup {None}]
  /\ Boot # Service /\ {Boot, Service} \cap Requesters = {}
  /\ None \notin Threads \cup Locks \cup Conds \cup Seq(Ints)

VARIABLES
  inited, mode, masked, running, runnable, waiting, cv, locks, using, frame,
  leaked,
  pc,        (* where the code of each thread is                           *)
  file,      (* the tracks each requester has still to request             *)
  queue,     (* the list of requests                                       *)
  active     (* the requesters that have not yet said goodbye, counted     *)

libVars == <<inited, mode, masked, running, runnable, waiting, cv, locks,
             using, frame, leaked>>

Lib == INSTANCE ThreadLib

InitThreads ==
  /\ Lib!Init
  /\ pc = [t \in Threads |-> IF t \in Requesters THEN "open" ELSE "begin"]
  /\ file \in Files
  /\ queue = <<>>
  /\ active = N

-----------------------------------------------------------------------------
(* Library calls.  A call that finds no waiter changes nothing.            *)

Call(t) == Lib!Enter /\ running = t

Goto(t, to) == pc' = [pc EXCEPT ![t] = to]

Step(t, from, to) == Call(t) /\ pc[t] = from /\ Goto(t, to)

(* Mutant: nobody is told.                                                 *)
BroadcastNobody(c) == UNCHANGED libVars

BroadcastCall(c) ==
  IF Lib!CvWaiters(1, c) = {} THEN UNCHANGED libVars ELSE Lib!Broadcast(1, c)

(* Mutant: the requester is not signalled.                                 *)
SignalNobody(c) == UNCHANGED libVars

SignalCall(c) ==
  IF Lib!CvWaiters(1, c) = {} THEN UNCHANGED libVars ELSE Lib!Signal(1, c)

(* The thread takes the process with it: a null pointer is used, or exit() *)
(* is called.                                                              *)
Die(t) ==
  /\ Call(t) /\ Goto(t, "died")
  /\ mode' = "exited"
  /\ UNCHANGED <<inited, masked, running, runnable, waiting, cv, locks,
                 using, frame, leaked>>

-----------------------------------------------------------------------------
(* main.  It does not look at what thread_libinit returns either.          *)
Libinit      == Lib!Libinit(Boot) /\ UNCHANGED pc
LibinitFails == MaxFailures > 0 /\ Lib!LibinitFails /\ UNCHANGED pc
MainReturns  == inited /\ Lib!MainReturns /\ UNCHANGED pc

(* first_thread_start_function creates the requesters in the order of      *)
(* their files, then Service; what thread_create returns is not looked at. *)
Uncreated == {t \in Threads : Lib!At(t) = "none" /\ pc[t] # "failed"}

NextThread ==
  IF Uncreated \cap Requesters # {}
  THEN Lib!First(Uncreated \cap Requesters) ELSE Service

CreateNext ==
  /\ Call(Boot) /\ Uncreated # {}
  /\ Lib!Create(NextThread)
  /\ UNCHANGED pc

CreateFails ==
  /\ Call(Boot) /\ Uncreated # {}
  /\ Cardinality({t \in Threads : pc[t] = "failed"}) < MaxFailures
  /\ Goto(NextThread, "failed")
  /\ UNCHANGED libVars

BootReturns ==
  /\ Call(Boot) /\ Uncreated = {}
  /\ Lib!Exit
  /\ UNCHANGED pc

(* The function of any other thread returns.                               *)
Return(t) ==
  /\ Call(t) /\ pc[t] = "end"
  /\ Lib!Exit
  /\ UNCHANGED pc

Preempt == Lib!Yield  /\ UNCHANGED pc
Finish  == Lib!Resume /\ UNCHANGED pc

(* The steps in which no data of the application changes: those of main    *)
(* and first_thread_start_function, the end of a thread, preemption, and   *)
(* the library's, when it finishes a suspended call.                       *)
Main   == Libinit \/ LibinitFails \/ MainReturns
Create == CreateNext \/ CreateFails \/ BootReturns

ThreadStep ==
  Main \/ Create \/ Preempt \/ Finish \/ \E t \in Threads : Return(t)
=============================================================================
