----------------------------- MODULE ThreadLib -----------------------------
(***************************************************************************)
(* The user-level thread library of thread.cc: thread creation, the FIFO   *)
(* run queue, locks with direct hand-off, and Mesa condition variables.    *)
(*                                                                         *)
(* The whole process is one operating-system thread, so exactly one saved  *)
(* context executes at any time.  A library call runs between              *)
(* interrupt_disable() and either interrupt_enable() or swapcontext();     *)
(* the timer preempts only while interrupts are enabled, so that stretch   *)
(* is one atomic step here.  A thread that swapcontext() resumes continues *)
(* inside the call it was suspended in, with interrupts still disabled;    *)
(* the remaining stretch up to interrupt_enable() is a second step, and    *)
(* the frame of the thread records where it continues.                     *)
(*                                                                         *)
(* A call that the code refuses with -1, and a call that finds nothing to  *)
(* do (a yield with an empty run queue, a signal without a waiter), change *)
(* no state: they are stuttering steps.                                    *)
(***************************************************************************)
EXTENDS Naturals, Sequences, SequencesExt

CONSTANTS
  Threads,   (* identities of the contexts the process can ever allocate   *)
  Locks,     (* lock numbers the program uses                              *)
  Conds,     (* condition variable numbers the program uses                *)
  None       (* no thread, no lock, no condition: a null pointer           *)

ASSUME NoneAssumption == None \notin Threads \cup Locks \cup Conds

VARIABLES
  inited,    (* thread_libinited                                           *)
  mode,      (* whose code executes: main()'s, the threads', or nobody's   *)
  masked,    (* interrupts_are_disabled, kept by the interrupt library     *)
  running,   (* ct_running                                                 *)
  runnable,  (* ct_queue_runnable                                          *)
  waiting,   (* ct_queue_waiting: blocked in thread_lock, oldest first     *)
  cv,        (* ct_queue_cv: blocked in thread_wait, oldest first          *)
  locks,     (* the set each context's `locks` pointer designates          *)
  using,     (* locks_using                                                *)
  frame,     (* what the stack of each context says: where it continues    *)
  leaked     (* history: locks that an ended thread still had in its set   *)

vars == <<inited, mode, masked, running, runnable, waiting, cv, locks,
          using, frame, leaked>>

-----------------------------------------------------------------------------
(* Where a context continues.  "none": not allocated.  "start": made, has  *)
(* not run.  "user": in application code.  "yield", "lock", "wait": after  *)
(* the swapcontext of that call.  "relock": after the swapcontext of       *)
(* thread_lock_unatomic, called by thread_wait.  "broadcast": inside the   *)
(* loop of thread_broadcast.  "done": freed.                               *)
Points == {"none", "start", "user", "yield", "lock", "wait", "relock",
           "broadcast", "done"}

(* The points at which a thread that can be switched to may stand.         *)
Suspended == {"start", "yield", "lock", "wait", "relock"}

(* Mutant: lock and condition swapped.                                     *)
FrameSwapped(at, l, c) == [at |-> at, lock |-> c, cond |-> l]

Frame(at, l, c) == [at |-> at, lock |-> l, cond |-> c]
UserFrame       == Frame("user", None, None)

Frames == [at : Points, lock : Locks \cup {None}, cond : Conds \cup {None}]
LockEntry == [ct : Threads, lock : Locks]
CvEntry   == [ct : Threads, lock : Locks, cond : Conds]

At(t) == frame[t].at

Init ==
  /\ inited = FALSE
  /\ mode = "main"
  /\ masked = FALSE
  /\ running = None
  /\ runnable = <<>>
  /\ waiting = <<>>
  /\ cv = <<>>
  /\ locks = [t \in Threads |-> {}]
  /\ using = {}
  /\ frame = [t \in Threads |-> Frame("none", None, None)]
  /\ leaked = {}

-----------------------------------------------------------------------------
(* Pieces shared by the calls.                                             *)

(* The running thread calls into the library: interrupt_disable() asserts  *)
(* that interrupts are enabled.                                            *)
Enter == mode = "threads" /\ ~masked /\ At(running) = "user"

(* The running thread continues inside a call: interrupts are disabled.    *)
Inside(at) == mode = "threads" /\ masked /\ At(running) = at

(* interrupt_enable() and back to the application.                         *)
Return ==
  /\ masked' = FALSE
  /\ frame' = [frame EXCEPT ![running] = UserFrame]

(* Mutant: the run queue is a stack.                                       *)
DispatchNewest(q) ==
  /\ q # <<>>
  /\ running' = Last(q)
  /\ runnable' = Front(q)
  /\ masked' = TRUE

(* The front of the run queue q becomes the running context.               *)
Dispatch(q) ==
  /\ q # <<>>
  /\ running' = Head(q)
  /\ runnable' = Tail(q)
  /\ masked' = TRUE

(* "Thread library exiting.": deadlock_end, or thread_delete_switch with   *)
(* an empty run queue.  The context returns with no successor and the      *)
(* process ends.                                                           *)
EndProcess ==
  /\ mode' = "exited"
  /\ masked' = FALSE

Waiters(l)      == {i \in DOMAIN waiting : waiting[i].lock = l}
CvWaiters(l, c) == {i \in DOMAIN cv : cv[i].lock = l /\ cv[i].cond = c}

First(S) == CHOOSE i \in S : \A j \in S : i <= j

(* Mutant: the newest waiter gets the lock.                                *)
NewestWaiter(l) == CHOOSE i \in Waiters(l) : \A j \in Waiters(l) : j <= i

LongestWaiter(l) == First(Waiters(l))

(* Mutant: the waiter that gets the lock is not pushed on the run queue.   *)
HeirForgotten(l) == <<>>

(* The thread that gets l when it is released: its longest waiter, if any. *)
Heir(l) == IF Waiters(l) = {} THEN <<>> ELSE <<waiting[LongestWaiter(l)].ct>>

(* Mutant: the releasing thread keeps the lock in its own set.             *)
NotErased(l) == locks

Erased(l) == [locks EXCEPT ![running] = @ \ {l}]

(* Mutant: the waiter is woken, the lock is not put in its set.            *)
Undelivered(l) == Erased(l)

Delivered(l) ==
  IF Waiters(l) = {} THEN Erased(l)
  ELSE [Erased(l) EXCEPT ![waiting[LongestWaiter(l)].ct] = @ \cup {l}]

(* Mutant: the waiter gets the lock, locks_using loses it.                 *)
Unrecorded(l) == using \ {l}

StillUsed(l) == IF Waiters(l) = {} THEN using \ {l} ELSE using

NotWaiting(l) ==
  IF Waiters(l) = {} THEN waiting ELSE RemoveAt(waiting, LongestWaiter(l))

(* thread_unlock and thread_unlock_unatomic after their check: the lock is *)
(* freed, or handed to its heir, who still has to be pushed on the run     *)
(* queue.                                                                  *)
Release(l) ==
  /\ locks' = Delivered(l)
  /\ using' = StillUsed(l)
  /\ waiting' = NotWaiting(l)

(* One evaluation of the while loop of thread_lock and of                  *)
(* thread_lock_unatomic by the running thread: it gets the lock, or blocks *)
(* to continue at `at`, or, with no thread to switch to, ends the process. *)
LockLoop(l, at) ==
  \/ /\ l \notin using \/ l \in locks[running]
     /\ locks' = [locks EXCEPT ![running] = @ \cup {l}]
     /\ using' = using \cup {l}
     /\ Return
     /\ UNCHANGED <<mode, running, runnable, waiting>>
  \/ /\ l \in using \ locks[running]
     /\ waiting' = Append(waiting, [ct |-> running, lock |-> l])
     /\ frame' = [frame EXCEPT ![running] = Frame(at, l, None)]
     /\ Dispatch(runnable)
     /\ UNCHANGED <<mode, locks, using>>
  \/ /\ l \in using \ locks[running]
     /\ runnable = <<>>
     /\ EndProcess
     /\ UNCHANGED <<running, runnable, waiting, locks, using, frame>>

-----------------------------------------------------------------------------
(* main() and thread_libinit.                                              *)

Libinit(t) ==
  /\ mode = "main" /\ ~inited
  /\ inited' = TRUE
  /\ mode' = "threads"
  /\ masked' = TRUE
  /\ running' = t
  /\ frame' = [frame EXCEPT ![t] = Frame("start", None, None)]
  /\ UNCHANGED <<runnable, waiting, cv, locks, using, leaked>>

(* An allocation fails: -1, but the library counts as initialised.         *)
LibinitFails ==
  /\ mode = "main" /\ ~inited
  /\ inited' = TRUE
  /\ UNCHANGED <<mode, masked, running, runnable, waiting, cv, locks, using,
                 frame, leaked>>

MainReturns ==
  /\ mode = "main"
  /\ mode' = "exited"
  /\ UNCHANGED <<inited, masked, running, runnable, waiting, cv, locks,
                 using, frame, leaked>>

-----------------------------------------------------------------------------
(* The life of a thread.                                                   *)

Create(t) ==
  /\ Enter
  /\ At(t) = "none"
  /\ frame' = [frame EXCEPT ![t] = Frame("start", None, None)]
  /\ runnable' = Append(runnable, t)
  /\ UNCHANGED <<inited, mode, masked, running, waiting, cv, locks, using,
                 leaked>>

(* Mutant: thread_start calls the function with interrupts disabled.       *)
StartMasked ==
  /\ Inside("start")
  /\ frame' = [frame EXCEPT ![running] = UserFrame]
  /\ UNCHANGED <<inited, mode, masked, running, runnable, waiting, cv, locks,
                 using, leaked>>

(* thread_start enables interrupts and calls the thread's function.        *)
Start ==
  /\ Inside("start")
  /\ Return
  /\ UNCHANGED <<inited, mode, running, runnable, waiting, cv, locks, using,
                 leaked>>

(* The thread's function returns: thread_delete_switch frees the context   *)
(* and the lock set, and nothing removes those locks from locks_using.     *)
Exit ==
  /\ Enter
  /\ locks' = [locks EXCEPT ![running] = {}]
  /\ leaked' = leaked \cup locks[running]
  /\ frame' = [frame EXCEPT ![running] = Frame("done", None, None)]
  /\ \/ Dispatch(runnable) /\ UNCHANGED mode
     \/ runnable = <<>> /\ EndProcess /\ UNCHANGED <<running, runnable>>
  /\ UNCHANGED <<inited, waiting, cv, using>>

(* thread_yield; also every preemption, which calls it from the handler.   *)
Yield ==
  /\ Enter
  /\ runnable # <<>>
  /\ frame' = [frame EXCEPT ![running] = Frame("yield", None, None)]
  /\ Dispatch(Append(runnable, running))
  /\ UNCHANGED <<inited, mode, waiting, cv, locks, using, leaked>>

ResumeYield ==
  /\ Inside("yield")
  /\ Return
  /\ UNCHANGED <<inited, mode, running, runnable, waiting, cv, locks, using,
                 leaked>>

-----------------------------------------------------------------------------
(* Locks.                                                                  *)

Lock(l) ==
  /\ Enter
  /\ l \notin locks[running]
  /\ LockLoop(l, "lock")
  /\ UNCHANGED <<inited, cv, leaked>>

ResumeLock ==
  /\ Inside("lock")
  /\ LockLoop(frame[running].lock, "lock")
  /\ UNCHANGED <<inited, cv, leaked>>

Unlock(l) ==
  /\ Enter
  /\ l \in locks[running]
  /\ Release(l)
  /\ runnable' = runnable \o Heir(l)
  /\ UNCHANGED <<inited, mode, masked, running, cv, frame, leaked>>

-----------------------------------------------------------------------------
(* Condition variables.                                                    *)

(* Mutant: the run queue is tested before the lock is released.            *)
WaitTestsFirst(l, c) ==
  /\ Enter
  /\ l \in locks[running]
  /\ Release(l)
  /\ LET q == runnable \o Heir(l)
     IN \/ /\ runnable # <<>>
           /\ cv' = Append(cv, [ct |-> running, lock |-> l, cond |-> c])
           /\ frame' = [frame EXCEPT ![running] = Frame("wait", l, None)]
           /\ Dispatch(q)
           /\ UNCHANGED mode
        \/ /\ runnable = <<>>
           /\ EndProcess
           /\ runnable' = q
           /\ UNCHANGED <<running, cv, frame>>
  /\ UNCHANGED <<inited, leaked>>

Wait(l, c) ==
  /\ Enter
  /\ l \in locks[running]
  /\ Release(l)
  /\ LET q == runnable \o Heir(l)
     IN \/ /\ cv' = Append(cv, [ct |-> running, lock |-> l, cond |-> c])
           /\ frame' = [frame EXCEPT ![running] = Frame("wait", l, None)]
           /\ Dispatch(q)
           /\ UNCHANGED mode
        \/ /\ q = <<>>
           /\ EndProcess
           /\ UNCHANGED <<running, runnable, cv, frame>>
  /\ UNCHANGED <<inited, leaked>>

(* Mutant: a signalled thread returns without its lock.                    *)
ResumeWaitUnlocked ==
  /\ Inside("wait")
  /\ Return
  /\ UNCHANGED <<inited, mode, running, runnable, waiting, cv, locks, using,
                 leaked>>

(* A signalled thread takes its lock back through thread_lock_unatomic.    *)
(* If it found the lock already in its set it would return -1 at once:     *)
(* the same change of state as the first disjunct of LockLoop.             *)
ResumeWait ==
  /\ Inside("wait")
  /\ LockLoop(frame[running].lock, "relock")
  /\ UNCHANGED <<inited, cv, leaked>>

ResumeRelock ==
  /\ Inside("relock")
  /\ LockLoop(frame[running].lock, "relock")
  /\ UNCHANGED <<inited, cv, leaked>>

(* Mutant: the waiter stays in ct_queue_cv.                                *)
WakeOneKept(l, c) ==
  /\ runnable' = Append(runnable, cv[First(CvWaiters(l, c))].ct)
  /\ UNCHANGED cv

(* Mutant: the newest waiter is woken.                                     *)
WakeOneNewest(l, c) ==
  LET i == CHOOSE i \in CvWaiters(l, c) : \A j \in CvWaiters(l, c) : j <= i
  IN /\ runnable' = Append(runnable, cv[i].ct)
     /\ cv' = RemoveAt(cv, i)

(* The oldest waiter on (l, c) becomes runnable.                           *)
WakeOne(l, c) ==
  LET i == First(CvWaiters(l, c))
  IN /\ runnable' = Append(runnable, cv[i].ct)
     /\ cv' = RemoveAt(cv, i)

Signal(l, c) ==
  /\ Enter
  /\ CvWaiters(l, c) # {}
  /\ WakeOne(l, c)
  /\ UNCHANGED <<inited, mode, masked, running, waiting, locks, using, frame,
                 leaked>>

(* thread_broadcast, one step per iteration that finds a waiter.           *)
Broadcast(l, c) ==
  /\ Enter
  /\ CvWaiters(l, c) # {}
  /\ masked' = TRUE
  /\ frame' = [frame EXCEPT ![running] = Frame("broadcast", l, c)]
  /\ UNCHANGED <<inited, mode, running, runnable, waiting, cv, locks, using,
                 leaked>>

BroadcastWake ==
  /\ Inside("broadcast")
  /\ LET f == frame[running]
     IN CvWaiters(f.lock, f.cond) # {} /\ WakeOne(f.lock, f.cond)
  /\ UNCHANGED <<inited, mode, masked, running, waiting, locks, using, frame,
                 leaked>>

(* Mutant: the loop ends with waiters left.                                *)
BroadcastReturnEarly ==
  /\ Inside("broadcast")
  /\ Return
  /\ UNCHANGED <<inited, mode, running, runnable, waiting, cv, locks, using,
                 leaked>>

BroadcastReturn ==
  /\ Inside("broadcast")
  /\ CvWaiters(frame[running].lock, frame[running].cond) = {}
  /\ Return
  /\ UNCHANGED <<inited, mode, running, runnable, waiting, cv, locks, using,
                 leaked>>

-----------------------------------------------------------------------------
Exited == mode = "exited" /\ UNCHANGED vars

(* A thread that was switched to finishes the call it was suspended in.    *)
Resume ==
  \/ Start \/ ResumeYield \/ ResumeLock \/ ResumeWait \/ ResumeRelock
  \/ BroadcastWake \/ BroadcastReturn

Next ==
  \/ \E t \in Threads : Libinit(t) \/ Create(t)
  \/ LibinitFails \/ MainReturns
  \/ Exit \/ Yield \/ Resume
  \/ \E l \in Locks : Lock(l) \/ Unlock(l)
  \/ \E l \in Locks, c \in Conds : Wait(l, c) \/ Signal(l, c) \/ Broadcast(l, c)
  \/ Exited

Spec == Init /\ [][Next]_vars

(* A suspended call is finished by the processor, and the timer armed by   *)
(* start_preemptions(async) preempts a thread that stays in its own code.  *)
Fairness == WF_vars(Resume) /\ WF_vars(Yield)

FairSpec == Spec /\ Fairness
-----------------------------------------------------------------------------
(* Properties.                                                             *)

Runnable(t)    == \E i \in DOMAIN runnable : runnable[i] = t
LockBlocked(t) == \E i \in DOMAIN waiting : waiting[i].ct = t
CvBlocked(t)   == \E i \in DOMAIN cv : cv[i].ct = t

TypeOK ==
  /\ inited \in BOOLEAN
  /\ mode \in {"main", "threads", "exited"}
  /\ masked \in BOOLEAN
  /\ running \in Threads \cup {None}
  /\ mode = "threads" => running \in Threads
  /\ runnable \in Seq(Threads)
  /\ waiting \in Seq(LockEntry)
  /\ cv \in Seq(CvEntry)
  /\ locks \in [Threads -> SUBSET Locks]
  /\ using \in SUBSET Locks
  /\ frame \in [Threads -> Frames]
  /\ leaked \in SUBSET Locks

(* A lock is in the set of at most one thread, through every hand-off by   *)
(* thread_unlock and thread_wait.                                          *)
MutualExclusion ==
  \A t, u \in Threads : t # u => locks[t] \cap locks[u] = {}

(* locks_using and the per-thread sets never disagree: a lock is in use    *)
(* exactly when some thread has it or a thread ended without unlocking it, *)
(* and what an ended thread kept is never granted again.                   *)
LockAccounting ==
  /\ using = (UNION {locks[t] : t \in Threads}) \cup leaked
  /\ \A t \in Threads : locks[t] \cap leaked = {}

(* No thread is in two places, or twice in one: a context that two queues  *)
(* could resume would run twice on one stack.                              *)
OnePlace ==
  /\ \A i, j \in DOMAIN runnable : runnable[i] = runnable[j] => i = j
  /\ \A i, j \in DOMAIN waiting : waiting[i].ct = waiting[j].ct => i = j
  /\ \A i, j \in DOMAIN cv : cv[i].ct = cv[j].ct => i = j
  /\ \A t \in Threads :
       /\ Runnable(t)    => t # running /\ ~LockBlocked(t) /\ ~CvBlocked(t)
       /\ LockBlocked(t) => t # running /\ ~CvBlocked(t)
       /\ CvBlocked(t)   => t # running

(* A thread that was created and has not ended runs, or some queue holds   *)
(* it: no call drops the context it switches away from.                    *)
NoThreadLost ==
  \A t \in Threads :
    At(t) \notin {"none", "done"} =>
      t = running \/ Runnable(t) \/ LockBlocked(t) \/ CvBlocked(t)

(* Nobody sleeps on a lock that is free or that it already has: the entry  *)
(* of ct_queue_waiting for a lock outlives no release of that lock.        *)
WaitsForUsedLock ==
  \A i \in DOMAIN waiting :
    waiting[i].lock \in using \ locks[waiting[i].ct]

(* A thread that has left ct_queue_waiting already has the lock it asked   *)
(* for, however long it then waits in the run queue: the while loop of     *)
(* thread_lock never blocks it a second time.                              *)
HandoffDelivered ==
  \A t \in Threads :
    At(t) \in {"lock", "relock"} /\ ~LockBlocked(t) =>
      frame[t].lock \in locks[t]

(* What a queue holds about a thread and what its stack holds agree: a     *)
(* runnable thread is suspended inside a call it can finish, a blocked one *)
(* in the call, and for the lock, that its queue entry names.              *)
QueuesMatchFrames ==
  /\ \A i \in DOMAIN runnable : At(runnable[i]) \in Suspended
  /\ \A i \in DOMAIN waiting :
       /\ At(waiting[i].ct) \in {"lock", "relock"}
       /\ frame[waiting[i].ct].lock = waiting[i].lock
  /\ \A i \in DOMAIN cv :
       /\ At(cv[i].ct) = "wait"
       /\ frame[cv[i].ct].lock = cv[i].lock
  /\ \A t \in Threads :
       At(t) \in {"lock", "relock", "wait", "broadcast"} =>
         frame[t].lock \in Locks

(* Interrupts are disabled exactly while the running thread is inside the  *)
(* library, whichever thread disabled them, and no suspended thread        *)
(* believes it is in application code: the assertions of                   *)
(* interrupt_disable and interrupt_enable hold across every switch.        *)
MaskDiscipline ==
  /\ masked <=> (mode = "threads" /\ At(running) # "user")
  /\ \A t \in Threads : At(t) \in {"user", "broadcast"} => t = running

(* "Thread library exiting." never abandons a thread that could run.       *)
ExitsOnlyWhenStuck == mode = "exited" => runnable = <<>>

(* No barging: a lock that threads wait for goes to the longest waiter     *)
(* only, at the moment its holder releases it.                             *)
NoBarging ==
  [][\A t \in Threads : \A l \in locks'[t] \ locks[t] :
       Waiters(l) # {} =>
         /\ waiting[First(Waiters(l))].ct = t
         /\ l \in locks[running]]_vars

(* A thread leaves a condition variable before no thread that began to     *)
(* wait on the same lock and condition earlier, and leaves it runnable.    *)
CvIsFifo ==
  [][\A i \in DOMAIN cv :
       cv[i] \notin Range(cv') =>
         /\ \A j \in 1 .. i - 1 :
              <<cv[j].lock, cv[j].cond>> # <<cv[i].lock, cv[i].cond>>
         /\ cv[i].ct \in Range(runnable')]_vars

(* thread_wait returns to the application with the lock it released, even  *)
(* if other threads took it in between.                                    *)
WaitReturnsWithLock ==
  [][\A t \in Threads :
       At(t) \in {"wait", "relock"} /\ At(t)' = "user" =>
         frame[t].lock \in locks'[t]]_vars

(* Every thread in the run queue eventually runs, whatever the others do.  *)
NoStarvation == \A t \in Threads : Runnable(t) ~> running = t

(* If no thread keeps a lock for ever, or ends with one, every thread that *)
(* blocks in thread_lock, or in the thread_lock_unatomic of thread_wait,   *)
(* gets its lock in the end, however the others compete for it.            *)
LocksAreGranted ==
  (\A t \in Threads : []<>(locks[t] = {})) /\ [](leaked = {}) =>
    \A t \in Threads : LockBlocked(t) ~> ~LockBlocked(t)
=============================================================================
