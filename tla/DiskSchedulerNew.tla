-------------------------- MODULE DiskSchedulerNew --------------------------
(***************************************************************************)
(* The second disk scheduler, main_new.cpp with producer.h and consumer.h. *)
(* Producers have their numbers from main's loop; consumer and producers   *)
(* hold lock 1 from their first step to their last, but for the waits.     *)
(*                                                                         *)
(* ReadFile keeps the file it opens in a local variable; nextLine uses an  *)
(* uninitialised pointer (readfile.h:17).  Here that pointer is fatal, or  *)
(* designates the opened file: any other value is fatal too.               *)
(*                                                                         *)
(* The consumer calls pop with a null task first.  pop uses it if the list *)
(* holds a request, which is fatal; from an empty list it returns an       *)
(* uninitialised pointer, whose use is fatal or has no effect here.  No    *)
(* request is therefore ever marked as executed, and there is no step in   *)
(* which a producer sees one that is.  `file` holds the tracks up to the   *)
(* first blank line, which is what produceTask delivers.                   *)
(***************************************************************************)
EXTENDS SchedulerThreads

VARIABLE task   (* the consumer's: "null", or the result of an empty pop   *)

data == <<file, queue, active, task>>
vars == <<libVars, pc, data>>

Init == InitThreads /\ task = "null"

-----------------------------------------------------------------------------
(* producerThreadFunction.                                                 *)

(* The constructor of ReadFile calls exit(-1) for a file it cannot open.   *)
CannotOpen(p) ==
  /\ pc[p] = "open" /\ file[p] = None
  /\ Die(p)
  /\ UNCHANGED data

Open(p) ==
  /\ Step(p, "open", "produce") /\ file[p] # None
  /\ Lib!Lock(1)
  /\ UNCHANGED data

(* The first produceTask, through the uninitialised pointer.               *)
ReadWild(p) ==
  /\ pc[p] = "produce"
  /\ Die(p)
  /\ UNCHANGED data

HasTask(p) ==
  \/ pc[p] = "produce" /\ file[p] # <<>>
  \/ pc[p] = "room"

WaitForRoom(p) ==
  /\ Step(p, pc[p], "room") /\ HasTask(p) /\ IsFull(queue)
  /\ Lib!Wait(1, 1)
  /\ UNCHANGED data

Task(p) == [track |-> Head(file[p]), requester |-> p]

Ask(p) ==
  /\ Step(p, pc[p], "await") /\ HasTask(p) /\ ~IsFull(queue)
  /\ queue' = Appended(queue, Task(p))
  /\ file' = [file EXCEPT ![p] = Tail(@)]
  /\ BroadcastCall(1)
  /\ UNCHANGED <<active, task>>

(* Mutant: the producer waits without giving up the lock.                  *)
SpinUntilServed(p) == Call(p) /\ pc[p] = "await" /\ UNCHANGED vars

WaitUntilServed(p) ==
  /\ Step(p, "await", "await")
  /\ Lib!Wait(1, p - 1)
  /\ UNCHANGED data

(* produceTask delivers nothing.                                           *)
Leave(p) ==
  /\ Step(p, "produce", "last") /\ file[p] = <<>>
  /\ active' = active - 1
  /\ BroadcastCall(1)
  /\ UNCHANGED <<file, queue, task>>

LastUnlock(p) ==
  /\ Step(p, "last", "end")
  /\ Lib!Unlock(1)
  /\ UNCHANGED data

-----------------------------------------------------------------------------
(* consumerThreadFunction.                                                 *)

Begin ==
  /\ Step(Service, "begin", "loop")
  /\ Lib!Lock(1)
  /\ UNCHANGED data

InLoop ==
  \/ pc[Service] = "loop" /\ (active > 0 \/ queue # <<>>)
  \/ pc[Service] = "wait"

(* Mutant: with few producers, the list is compared with their number.     *)
TooFewRequests ==
  \/ active > MaxSize /\ ~IsFull(queue)
  \/ Len(queue) < active

TooFew ==
  \/ active > MaxSize /\ ~IsFull(queue)
  \/ active < MaxSize

WaitForRequests ==
  /\ Step(Service, pc[Service], "wait") /\ InLoop /\ TooFew
  /\ Lib!Wait(1, 1)
  /\ UNCHANGED data

PopWithNull ==
  /\ InLoop /\ ~TooFew /\ queue # <<>> /\ task = "null"
  /\ Die(Service)
  /\ UNCHANGED data

UseWild ==
  /\ InLoop /\ ~TooFew /\ queue = <<>>
  /\ Die(Service)
  /\ UNCHANGED data

PopNothing ==
  /\ Step(Service, pc[Service], "signal") /\ InLoop /\ ~TooFew
  /\ queue = <<>>
  /\ task' = "wild"
  /\ BroadcastCall(1)
  /\ UNCHANGED <<file, queue, active>>

(* Mutant: the consumer gives up the lock after each task.                 *)
SignalUnlocked ==
  /\ Step(Service, "signal", "begin")
  /\ Lib!Unlock(1)
  /\ UNCHANGED data

(* The number signalled is read from where the wild pointer leads.         *)
SignalAnyone ==
  /\ Step(Service, "signal", "loop")
  /\ \E c \in Conds : SignalCall(c)
  /\ UNCHANGED data

ConsumerLeaves ==
  /\ Step(Service, "loop", "end") /\ ~InLoop
  /\ Lib!Unlock(1)
  /\ UNCHANGED data

-----------------------------------------------------------------------------
RequesterStep(p) ==
  \/ CannotOpen(p) \/ Open(p) \/ ReadWild(p)
  \/ WaitForRoom(p) \/ Ask(p) \/ WaitUntilServed(p)
  \/ Leave(p) \/ LastUnlock(p)

ServiceStep ==
  \/ Begin \/ WaitForRequests \/ PopWithNull
  \/ UseWild \/ PopNothing \/ SignalAnyone \/ ConsumerLeaves

Exited == mode = "exited" /\ UNCHANGED vars

Next ==
  \/ ThreadStep /\ UNCHANGED data
  \/ \E p \in Requesters : RequesterStep(p)
  \/ ServiceStep
  \/ Exited

Spec == Init /\ [][Next]_vars

(* As for main.cpp: calls are finished, and a thread that is preempted     *)
(* again and again still gets somewhere.                                   *)
Fairness ==
  /\ WF_vars((Main \/ Finish) /\ UNCHANGED data)
  /\ WF_vars(Preempt /\ UNCHANGED data)
  /\ SF_vars(Create /\ UNCHANGED data)
  /\ SF_vars(ServiceStep \/ (Return(Service) /\ UNCHANGED data))
  /\ \A p \in Requesters :
       SF_vars(RequesterStep(p) \/ (Return(p) /\ UNCHANGED data))

FairSpec == Spec /\ Fairness
-----------------------------------------------------------------------------
(* Properties.                                                             *)

(* From its first produceTask, and the consumer from its first look at the *)
(* list, a thread in application code has lock 1, through every wait.      *)
LockHeldThroughout ==
  mode = "threads" /\ Lib!At(running) = "user" =>
    (1 \in locks[running] <=>
      pc[running] \in {"produce", "room", "await", "last", "loop", "wait",
                       "signal"})

(* The consumer never calls pop with the wild task and a request in the    *)
(* list: once it has popped from the empty list it keeps the lock, and     *)
(* nobody can append.  So no request is ever served.                       *)
NeverServes == task = "wild" => queue = <<>> /\ 1 \in locks[Service]

(* Unless something failed or crashed, the process ends only when nobody   *)
(* asked for anything, or with the consumer asleep for good, because fewer *)
(* producers than maxSize are active and it looks at nothing else then.    *)
EndsWellOnlyIfUnused ==
  mode = "exited" =>
    \/ running = None \/ \E t \in Threads : pc[t] \in {"failed", "died"}
    \/ queue = <<>> /\ \A t \in Threads : Lib!At(t) = "done"
    \/ pc[Service] = "wait" /\ active < MaxSize

(* Once fewer producers than maxSize are active, the consumer that waits  *)
(* never leaves its inner loop, whatever is in the list.                   *)
ShortOfProducersForGood ==
  [][pc[Service] = "wait" /\ active < MaxSize =>
       pc'[Service] = "wait" /\ active' < MaxSize]_vars

(* What the list does, seen without threads: at most maxSize requests, in *)
(* the order of the files, one of each producer.                           *)
Scheduler == INSTANCE NearestFirst WITH
  Unreadable <- None,
  todo       <- file,
  present    <- {p \in Requesters : pc[p] \notin {"last", "end"}},
  pending    <- queue,
  head       <- 0

ImplementsNearestFirst == Scheduler!Spec

(* The process ends, or the consumer goes round its loop for ever and      *)
(* keeps lock 1: there is no third way.                                    *)
EndsOrSpins ==
  <>(mode = "exited") \/ <>[](task = "wild" /\ 1 \in locks[Service])
=============================================================================
