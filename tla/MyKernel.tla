------------------------------ MODULE MyKernel ------------------------------
(***************************************************************************)
(* The second thread library, mykernel.cpp, as far as the assertions of    *)
(* the interrupt library let it run.                                       *)
(*                                                                         *)
(* interrupt_disable() aborts when interrupts are already disabled.        *)
(* thread_wait calls thread_unlock with interrupts disabled, and a thread  *)
(* whose function returns disables interrupts before it enters             *)
(* thread_delete; both callees disable them again.  What comes after in    *)
(* those two functions is never executed: waitCvQueue stays empty and no   *)
(* context is ever freed.                                                  *)
(*                                                                         *)
(* makecontext() is given memory that getcontext() never filled: a switch  *)
(* to a new context works or crashes, depending on what the memory held.   *)
(***************************************************************************)
EXTENDS Naturals, Sequences, SequencesExt

CONSTANTS Threads, Locks, Conds, None

ASSUME KernelAssumption == None \notin Threads \cup Locks \cup Conds

VARIABLES
  inited,      (* isThreadInital                                           *)
  mode,        (* whose code executes, or how the process ended            *)
  masked,      (* interrupts_are_disabled                                  *)
  running,     (* running_tcb, and the owner of the set of running_locks   *)
  readyQueue,
  waitQueue,   (* blocked in thread_lock                                   *)
  locks,       (* the lock set of each context                             *)
  using,       (* locks_using                                              *)
  frame,       (* where each context continues, and in a call for which    *)
               (* lock                                                     *)
  refused      (* history: threads whose last thread_lock returned -1      *)
               (* because nothing could run                                *)

vars == <<inited, mode, masked, running, readyQueue, waitQueue, locks, using,
          frame, refused>>

(* "unlock", "delete": at the head of thread_unlock called by thread_wait, *)
(* of thread_delete called by thread_start.                                *)
Points == {"none", "start", "user", "yield", "lock", "unlock", "delete"}
Ends   == {"exited", "crashed", "aborted"}

Frame(at, l) == [at |-> at, lock |-> l]
At(t)        == frame[t].at

WaitEntry == [ct : Threads, lock : Locks]

Init ==
  /\ inited = FALSE
  /\ mode = "main"
  /\ masked = FALSE
  /\ running = None
  /\ readyQueue = <<>>
  /\ waitQueue = <<>>
  /\ locks = [t \in Threads |-> {}]
  /\ using = {}
  /\ frame = [t \in Threads |-> Frame("none", None)]
  /\ refused = {}

-----------------------------------------------------------------------------
Enter      == mode = "threads" /\ ~masked /\ At(running) = "user"
Inside(at) == mode = "threads" /\ masked /\ At(running) = at

(* The running context is saved in frame f and the front of q continues.   *)
SwitchTo(q, f) ==
  /\ frame' = [frame EXCEPT ![running] = f]
  /\ running' = Head(q)
  /\ readyQueue' = Tail(q)
  /\ masked' = TRUE

Die(end) ==
  /\ mode' = end
  /\ UNCHANGED <<inited, masked, running, readyQueue, waitQueue, locks, using,
                 frame, refused>>

-----------------------------------------------------------------------------
(* Mutant: the new context is not made the running one.                    *)
LibinitUnassigned(t) ==
  /\ mode = "main" /\ ~inited
  /\ inited' = TRUE
  /\ mode' = "threads"
  /\ masked' = TRUE
  /\ frame' = [frame EXCEPT ![t] = Frame("start", None)]
  /\ UNCHANGED <<running, readyQueue, waitQueue, locks, using, refused>>

Libinit(t) ==
  /\ mode = "main" /\ ~inited
  /\ inited' = TRUE
  /\ mode' = "threads"
  /\ masked' = TRUE
  /\ running' = t
  /\ frame' = [frame EXCEPT ![t] = Frame("start", None)]
  /\ UNCHANGED <<readyQueue, waitQueue, locks, using, refused>>

(* An allocation fails: -1, but isThreadInital stays true.                 *)
LibinitFails ==
  /\ mode = "main" /\ ~inited
  /\ inited' = TRUE
  /\ UNCHANGED <<mode, masked, running, readyQueue, waitQueue, locks, using,
                 frame, refused>>

MainReturns == mode = "main" /\ Die("exited")

Create(t) ==
  /\ Enter
  /\ At(t) = "none"
  /\ frame' = [frame EXCEPT ![t] = Frame("start", None)]
  /\ readyQueue' = Append(readyQueue, t)
  /\ UNCHANGED <<inited, mode, masked, running, waitQueue, locks, using,
                 refused>>

Start ==
  /\ Inside("start")
  /\ masked' = FALSE
  /\ frame' = [frame EXCEPT ![running] = Frame("user", None)]
  /\ UNCHANGED <<inited, mode, running, readyQueue, waitQueue, locks, using,
                 refused>>

StartCrashes == Inside("start") /\ Die("crashed")

(* The running thread goes on, with interrupts disabled, to the head of a  *)
(* function that disables them.                                            *)
CallMasked(at) ==
  /\ Enter
  /\ masked' = TRUE
  /\ frame' = [frame EXCEPT ![running] = Frame(at, None)]
  /\ UNCHANGED <<inited, mode, running, readyQueue, waitQueue, locks, using,
                 refused>>

FunctionReturns == CallMasked("delete")
Wait            == CallMasked("unlock")

(* ct_safe, to which thread_start switches, was never filled by getcontext *)
(* either.                                                                 *)
DeleteCrashes == Inside("delete") /\ Die("crashed")

(* The assertion of interrupt_disable fails.                               *)
DisableAborts == (Inside("delete") \/ Inside("unlock")) /\ Die("aborted")

(* With no other thread the running one is pushed, popped, and continues   *)
(* with nothing changed; that call is a stuttering step.                   *)
Yield ==
  /\ Enter
  /\ readyQueue # <<>>
  /\ SwitchTo(Append(readyQueue, running), Frame("yield", None))
  /\ UNCHANGED <<inited, mode, waitQueue, locks, using, refused>>

-----------------------------------------------------------------------------
LockFree(l) ==
  /\ Enter
  /\ l \notin using
  /\ locks' = [locks EXCEPT ![running] = @ \cup {l}]
  /\ using' = using \cup {l}
  /\ refused' = refused \ {running}
  /\ UNCHANGED <<inited, mode, masked, running, readyQueue, waitQueue, frame>>

LockBlocks(l) ==
  /\ Enter
  /\ l \in using \ locks[running]
  /\ readyQueue # <<>>
  /\ waitQueue' = Append(waitQueue, [ct |-> running, lock |-> l])
  /\ SwitchTo(readyQueue, Frame("lock", l))
  /\ refused' = refused \ {running}
  /\ UNCHANGED <<inited, mode, locks, using>>

(* Mutant: the run queue is not looked at.                                 *)
Whatever == TRUE

NoOtherThread == readyQueue = <<>>

(* No thread to switch to: -1, and the caller goes on without the lock.    *)
LockRefused(l) ==
  /\ Enter
  /\ l \in using \ locks[running]
  /\ NoOtherThread
  /\ refused' = refused \cup {running}
  /\ UNCHANGED <<inited, mode, masked, running, readyQueue, waitQueue, locks,
                 using, frame>>

(* After the swapcontext of thread_lock or thread_yield: no second test of *)
(* the lock, thread_unlock has put it in the set of this thread.           *)
Resume ==
  /\ Inside("yield") \/ Inside("lock")
  /\ masked' = FALSE
  /\ frame' = [frame EXCEPT ![running] = Frame("user", None)]
  /\ UNCHANGED <<inited, mode, running, readyQueue, waitQueue, locks, using,
                 refused>>

(* The position of the first waiter for l, 0 if there is none.             *)
FirstWaiter(l) ==
  IF \E i \in DOMAIN waitQueue : waitQueue[i].lock = l
  THEN CHOOSE i \in DOMAIN waitQueue :
         /\ waitQueue[i].lock = l
         /\ \A j \in 1 .. i - 1 : waitQueue[j].lock # l
  ELSE 0

(* Mutant: the hand-off does not put the lock back in locks_using.         *)
Unrecorded(l) == using \ {l}

StillUsed(l) == IF FirstWaiter(l) = 0 THEN using \ {l} ELSE using

Unlock(l) ==
  /\ Enter
  /\ l \in locks[running]
  /\ LET i     == FirstWaiter(l)
         freed == [locks EXCEPT ![running] = @ \ {l}]
     IN IF i = 0
        THEN locks' = freed /\ UNCHANGED <<readyQueue, waitQueue>>
        ELSE /\ locks' = [freed EXCEPT ![waitQueue[i].ct] = @ \cup {l}]
             /\ readyQueue' = Append(readyQueue, waitQueue[i].ct)
             /\ waitQueue' = RemoveAt(waitQueue, i)
  /\ using' = StillUsed(l)
  /\ UNCHANGED <<inited, mode, masked, running, frame, refused>>

(* thread_signal and thread_broadcast find waitCvQueue empty.              *)
WakeNobody == Enter /\ UNCHANGED vars

-----------------------------------------------------------------------------
Ended == mode \in Ends /\ UNCHANGED vars

Next ==
  \/ \E t \in Threads : Libinit(t) \/ Create(t)
  \/ LibinitFails \/ MainReturns
  \/ Start \/ StartCrashes \/ FunctionReturns \/ DeleteCrashes
  \/ Yield \/ Resume \/ Wait \/ WakeNobody \/ DisableAborts
  \/ \E l \in Locks : \/ LockFree(l) \/ LockBlocks(l) \/ LockRefused(l)
                      \/ Unlock(l)
  \/ Ended

Spec == Init /\ [][Next]_vars
-----------------------------------------------------------------------------
TypeOK ==
  /\ inited \in BOOLEAN /\ masked \in BOOLEAN
  /\ mode \in {"main", "threads"} \cup Ends
  /\ running \in Threads \cup {None}
  /\ mode = "threads" => running \in Threads
  /\ readyQueue \in Seq(Threads)
  /\ waitQueue \in Seq(WaitEntry)
  /\ locks \in [Threads -> SUBSET Locks]
  /\ using \in SUBSET Locks
  /\ frame \in [Threads -> [at : Points, lock : Locks \cup {None}]]
  /\ refused \in SUBSET Threads

(* A thread_lock that returns -1 for want of a thread to switch to happens *)
(* only in a deadlock: every other thread is blocked in thread_lock, the   *)
(* one that has the lock included.                                         *)
RefusedOnlyInDeadlock ==
  [][\A t \in refused' \ refused :
       \A u \in Threads \ {t} :
         At(u) # "none" => \E i \in DOMAIN waitQueue : waitQueue[i].ct = u]_vars

(* The states of mykernel.cpp as states of thread.cc: a call that kills    *)
(* the process is there one that has not begun.                            *)
Doomed == running # None /\ (mode \in Ends \/ At(running) \in {"unlock", "delete"})

ThreadCC == INSTANCE ThreadLib WITH
  mode     <- IF Doomed THEN "threads" ELSE mode,
  masked   <- masked /\ ~(Doomed /\ At(running) # "start"),
  runnable <- readyQueue,
  waiting  <- waitQueue,
  cv       <- <<>>,
  frame    <- [t \in Threads |->
                 [at   |-> IF At(t) \in {"unlock", "delete"} THEN "user" ELSE At(t),
                  lock |-> frame[t].lock,
                  cond |-> None]],
  leaked   <- {}

(* As long as the process lives, mykernel.cpp does what thread.cc may do:  *)
(* the same locks, hand-offs and run queue.                                *)
ImplementsThreadLib == ThreadCC!Spec

(* No call aborts the process: cv_test.cc goes on after thread_wait, and   *)
(* lock_test.cc after a thread whose function has returned.                *)
NeverAborts == mode # "aborted"
=============================================================================
