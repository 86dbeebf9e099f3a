----------------------- MODULE SchedulerThreadsProofs -----------------------
(***************************************************************************)
(* What the proofs about the two disk schedulers share: the invariant of   *)
(* the thread library, which is proved in ThreadLibProofs, holds in a      *)
(* scheduler until one of its threads takes the process down, and a thread *)
(* whose code is in a critical section has the lock or is about to get it. *)
(***************************************************************************)
EXTENDS SchedulerThreads, SequenceFacts

LibP == INSTANCE ThreadLibProofs

(* The inductive invariant of the thread library.                          *)
LibInv == LibP!Inv

-----------------------------------------------------------------------------
(* The library of the schedulers is the one the theorems are about.        *)

LEMMA NoneIsNobody == None \notin Threads \cup Locks \cup Conds
BY SchedulerAssumption

LEMMA SameStep == Lib!Next <=> LibP!Next
<1>. USE DEF Lib!At, LibP!At, Lib!Frame, LibP!Frame, Lib!UserFrame, LibP!UserFrame,
             Lib!Enter, LibP!Enter, Lib!Inside, LibP!Inside, Lib!Return, LibP!Return,
             Lib!Dispatch, LibP!Dispatch, Lib!EndProcess, LibP!EndProcess,
             Lib!RemoveAt, LibP!RemoveAt
<1>1. \A l : Lib!LongestWaiter(l) = LibP!LongestWaiter(l) /\ Lib!Waiters(l) = LibP!Waiters(l)
  BY DEF Lib!LongestWaiter, LibP!LongestWaiter, Lib!Waiters, LibP!Waiters, Lib!First, LibP!First
<1>2. \A l : (Lib!Release(l) <=> LibP!Release(l)) /\ Lib!Heir(l) = LibP!Heir(l)
  BY <1>1 DEF Lib!Release, LibP!Release, Lib!Delivered, LibP!Delivered, Lib!Erased, LibP!Erased,
              Lib!StillUsed, LibP!StillUsed, Lib!NotWaiting, LibP!NotWaiting, Lib!Heir, LibP!Heir
<1>3. \A l, at : Lib!LockLoop(l, at) <=> LibP!LockLoop(l, at)
  BY DEF Lib!LockLoop, LibP!LockLoop
<1>4. /\ \A l, c : Lib!WakeOne(l, c) <=> LibP!WakeOne(l, c)
      /\ \A l, c : Lib!CvWaiters(l, c) = LibP!CvWaiters(l, c)
  BY DEF Lib!WakeOne, LibP!WakeOne, Lib!CvWaiters, LibP!CvWaiters, Lib!First, LibP!First
<1>5. Lib!Resume <=> LibP!Resume
  <2>1. (Lib!Start <=> LibP!Start) /\ (Lib!ResumeYield <=> LibP!ResumeYield)
    BY DEF Lib!Start, LibP!Start, Lib!ResumeYield, LibP!ResumeYield
  <2>2. /\ Lib!ResumeLock <=> LibP!ResumeLock
        /\ Lib!ResumeWait <=> LibP!ResumeWait
        /\ Lib!ResumeRelock <=> LibP!ResumeRelock
    BY <1>3 DEF Lib!ResumeLock, LibP!ResumeLock, Lib!ResumeWait, LibP!ResumeWait,
                Lib!ResumeRelock, LibP!ResumeRelock
  <2>3. /\ Lib!BroadcastWake <=> LibP!BroadcastWake
        /\ Lib!BroadcastReturn <=> LibP!BroadcastReturn
    BY <1>4 DEF Lib!BroadcastWake, LibP!BroadcastWake, Lib!BroadcastReturn, LibP!BroadcastReturn
  <2>. QED BY <2>1, <2>2, <2>3 DEF Lib!Resume, LibP!Resume
<1>6. (Lib!Exit <=> LibP!Exit) /\ (Lib!Yield <=> LibP!Yield)
  BY DEF Lib!Exit, LibP!Exit, Lib!Yield, LibP!Yield
<1>7. \A l : (Lib!Lock(l) <=> LibP!Lock(l)) /\ (Lib!Unlock(l) <=> LibP!Unlock(l))
  BY <1>2, <1>3 DEF Lib!Lock, LibP!Lock, Lib!Unlock, LibP!Unlock
<1>8. \A l, c : Lib!Wait(l, c) <=> LibP!Wait(l, c)
  BY <1>2 DEF Lib!Wait, LibP!Wait
<1>9. \A l, c : /\ Lib!Signal(l, c) <=> LibP!Signal(l, c)
                /\ Lib!Broadcast(l, c) <=> LibP!Broadcast(l, c)
  BY <1>4 DEF Lib!Signal, LibP!Signal, Lib!Broadcast, LibP!Broadcast
<1>10. \A t : (Lib!Libinit(t) <=> LibP!Libinit(t)) /\ (Lib!Create(t) <=> LibP!Create(t))
  BY DEF Lib!Libinit, LibP!Libinit, Lib!Create, LibP!Create
<1>11. /\ Lib!LibinitFails <=> LibP!LibinitFails
       /\ Lib!MainReturns <=> LibP!MainReturns
       /\ Lib!Exited <=> LibP!Exited
  BY DEF Lib!LibinitFails, LibP!LibinitFails, Lib!MainReturns, LibP!MainReturns,
         Lib!Exited, LibP!Exited, Lib!vars, LibP!vars
<1>. QED BY <1>5, <1>6, <1>7, <1>8, <1>9, <1>10, <1>11 DEF Lib!Next, LibP!Next

LEMMA LibInitInv == Lib!Init => LibInv
<1>1. Lib!Init => LibP!Init
  BY DEF Lib!Init, LibP!Init, Lib!Frame, LibP!Frame
<1>. QED BY <1>1, LibP!InitInv, NoneIsNobody DEF LibInv

LEMMA LibStepInv == LibInv /\ (Lib!Next \/ UNCHANGED libVars) => LibInv'
<1>1. UNCHANGED libVars => UNCHANGED LibP!vars
  BY DEF libVars, LibP!vars
<1>. QED BY <1>1, SameStep, LibP!NextInv, NoneIsNobody DEF LibInv

(* What the proofs about the schedulers use of it.                         *)
LEMMA LibFacts ==
  ASSUME LibInv
  PROVE  /\ Lib!TypeOK /\ Lib!MutualExclusion /\ Lib!LockAccounting
         /\ Lib!OnePlace /\ Lib!NoThreadLost /\ Lib!WaitsForUsedLock
         /\ Lib!HandoffDelivered /\ Lib!QueuesMatchFrames /\ Lib!MaskDiscipline
         /\ mode = "main" =>
              /\ runnable = <<>> /\ waiting = <<>> /\ cv = <<>>
              /\ \A t \in Threads : Lib!At(t) = "none"
<1>. USE DEF LibInv, LibP!Inv, Lib!At, LibP!At, Lib!Runnable, LibP!Runnable,
             Lib!LockBlocked, LibP!LockBlocked, Lib!CvBlocked, LibP!CvBlocked
<1>1. Lib!TypeOK
  BY DEF Lib!TypeOK, LibP!TypeOK, Lib!LockEntry, LibP!LockEntry, Lib!CvEntry, LibP!CvEntry,
         Lib!Frames, LibP!Frames, Lib!Points, LibP!Points
<1>2. Lib!MutualExclusion /\ Lib!LockAccounting
  BY DEF Lib!MutualExclusion, LibP!MutualExclusion, Lib!LockAccounting, LibP!LockAccounting
<1>3. Lib!OnePlace /\ Lib!NoThreadLost
  BY DEF Lib!OnePlace, LibP!OnePlace, Lib!NoThreadLost, LibP!NoThreadLost
<1>4. Lib!WaitsForUsedLock /\ Lib!HandoffDelivered
  BY DEF Lib!WaitsForUsedLock, LibP!WaitsForUsedLock, Lib!HandoffDelivered, LibP!HandoffDelivered
<1>5. Lib!QueuesMatchFrames /\ Lib!MaskDiscipline
  BY DEF Lib!QueuesMatchFrames, LibP!QueuesMatchFrames, Lib!Suspended, LibP!Suspended,
         Lib!MaskDiscipline, LibP!MaskDiscipline
<1>6. mode = "main" =>
        /\ runnable = <<>> /\ waiting = <<>> /\ cv = <<>>
        /\ \A t \in Threads : Lib!At(t) = "none"
  BY DEF LibP!BeforeThreads
<1>. QED BY <1>1, <1>2, <1>3, <1>4, <1>5, <1>6

LEMMA LibKept == LibInv /\ (Lib!Next \/ UNCHANGED libVars) => LibInv' /\ Lib!TypeOK'
<1>1. LibInv => Lib!TypeOK
  BY LibFacts
<1>2. LibInv' => Lib!TypeOK'
  BY <1>1, PTL
<1>. QED BY <1>2, LibStepInv

-----------------------------------------------------------------------------
(* What one call of the library does to the threads.                       *)

(* The lock is handed over only to a thread that blocks in thread_lock, or *)
(* in the thread_lock_unatomic of thread_wait.                             *)
LEMMA ReleaseFacts ==
  ASSUME LibInv, Lib!Enter, 1 \in locks[running], Lib!Release(1)
  PROVE  /\ 1 \notin locks'[running]
         /\ \A t \in Threads \ {running} :
              /\ locks[t] \subseteq locks'[t]
              /\ 1 \in locks'[t] /\ 1 \notin locks[t] => Lib!At(t) \in {"lock", "relock"}
         /\ \A i \in DOMAIN waiting' : \E j \in DOMAIN waiting : waiting'[i] = waiting[j]
         /\ runnable \o Lib!Heir(1) = <<>> => runnable = <<>> /\ waiting = <<>>
<1>1. /\ Lib!TypeOK /\ Lib!QueuesMatchFrames /\ Lib!OnePlace /\ Lib!WaitsForUsedLock
      /\ running \in Threads /\ locks \in [Threads -> SUBSET Locks]
      /\ waiting \in Seq(Lib!LockEntry)
  BY LibFacts DEF Lib!TypeOK, Lib!Enter
<1>2. /\ LibP!Release(1) /\ LibP!Heir(1) = Lib!Heir(1) /\ LibP!Waiters(1) = Lib!Waiters(1)
  <2>. USE DEF Lib!RemoveAt, LibP!RemoveAt
  <2>1. Lib!LongestWaiter(1) = LibP!LongestWaiter(1) /\ Lib!Waiters(1) = LibP!Waiters(1)
    BY DEF Lib!LongestWaiter, LibP!LongestWaiter, Lib!Waiters, LibP!Waiters, Lib!First, LibP!First
  <2>. QED
    BY <2>1 DEF Lib!Release, LibP!Release, Lib!Delivered, LibP!Delivered, Lib!Erased, LibP!Erased,
                Lib!StillUsed, LibP!StillUsed, Lib!NotWaiting, LibP!NotWaiting, Lib!Heir, LibP!Heir
<1>3. mode = "threads" /\ LibP!At(running) = "user"
  BY DEF Lib!Enter, Lib!At, LibP!At
<1>4. \/ /\ LibP!Waiters(1) = {}
         /\ waiting' = waiting /\ runnable \o LibP!Heir(1) = runnable
         /\ locks' = [locks EXCEPT ![running] = @ \ {1}]
         /\ using' = using \ {1}
      \/ \E i \in DOMAIN waiting :
           /\ i = LibP!First(LibP!Waiters(1)) /\ waiting[i].lock = 1
           /\ LibP!Without(waiting', waiting, i)
           /\ LibP!With(runnable \o LibP!Heir(1), runnable, waiting[i].ct)
           /\ waiting[i].ct \in Threads
           /\ locks' = [[locks EXCEPT ![running] = @ \ {1}]
                          EXCEPT ![waiting[i].ct] = @ \cup {1}]
           /\ using' = using
  BY <1>2, <1>3, LibP!ReleaseFacts, NoneIsNobody DEF LibInv, Locks
<1>5. CASE /\ LibP!Waiters(1) = {}
           /\ waiting' = waiting /\ runnable \o LibP!Heir(1) = runnable
           /\ locks' = [locks EXCEPT ![running] = @ \ {1}]
  <2>1. waiting = <<>>
    <3>1. \A i \in DOMAIN waiting : waiting[i] \in Lib!LockEntry
      BY <1>1, LenProperties, ElementOfSeq
    <3>2. DOMAIN waiting = {}
      BY <1>2, <1>5, <3>1 DEF Lib!Waiters, Lib!LockEntry, Locks
    <3>. QED BY <1>1, <3>2, LenProperties, EmptySeq
  <2>. QED BY <1>1, <1>2, <1>5, <2>1
<1>6. ASSUME NEW i \in DOMAIN waiting,
             LibP!Without(waiting', waiting, i),
             LibP!With(runnable \o LibP!Heir(1), runnable, waiting[i].ct),
             waiting[i].ct \in Threads,
             locks' = [[locks EXCEPT ![running] = @ \ {1}]
                          EXCEPT ![waiting[i].ct] = @ \cup {1}]
      PROVE  /\ 1 \notin locks'[running]
             /\ \A t \in Threads \ {running} :
                  /\ locks[t] \subseteq locks'[t]
                  /\ 1 \in locks'[t] /\ 1 \notin locks[t] => Lib!At(t) \in {"lock", "relock"}
             /\ \A k \in DOMAIN waiting' : \E j \in DOMAIN waiting : waiting'[k] = waiting[j]
             /\ runnable \o Lib!Heir(1) # <<>>
  <2>. DEFINE u == waiting[i].ct
  <2>1. u # running /\ Lib!At(u) \in {"lock", "relock"}
    BY <1>1, <1>6 DEF Lib!OnePlace, Lib!QueuesMatchFrames, Lib!LockBlocked
  <2>2. runnable \o Lib!Heir(1) # <<>>
    BY <1>2, <1>6 DEF LibP!With
  <2>3. \A k \in DOMAIN waiting' : \E j \in DOMAIN waiting : waiting'[k] = waiting[j]
    BY <1>6 DEF LibP!Without
  <2>. QED BY <1>1, <1>6, <2>1, <2>2, <2>3
<1>. QED BY <1>2, <1>4, <1>5, <1>6

-----------------------------------------------------------------------------
(* Critical sections: CS is where the code of a thread is when it has the  *)
(* lock, Blocks is where it is when a library call may have made it wait   *)
(* for the lock or for a condition.  A thread that has not run is where    *)
(* its function begins.                                                    *)
Sections(CS, Blocks) ==
  mode # "exited" =>
    \A t \in Threads :
      /\ Lib!At(t) \in {"none", "start", "user", "yield", "broadcast"} =>
           (1 \in locks[t] <=> pc[t] \in CS)
      /\ Lib!At(t) \in {"lock", "wait", "relock"} => pc[t] \in Blocks
      /\ Lib!At(t) \in {"none", "start", "wait", "done"} => 1 \notin locks[t]
      /\ Lib!At(t) \in {"none", "start"} => pc[t] \in {"open", "begin", "failed"}

(* What the steps of a scheduler have in common before they are taken.     *)
Calling(t, P) == LibInv /\ Call(t) /\ pc \in [Threads -> P]

LEMMA CallFacts ==
  ASSUME NEW t, NEW P, Calling(t, P)
  PROVE  /\ Lib!TypeOK /\ Lib!QueuesMatchFrames /\ Lib!OnePlace /\ Lib!MutualExclusion
         /\ mode = "threads" /\ t = running /\ t \in Threads /\ Lib!At(t) = "user"
         /\ locks \in [Threads -> SUBSET Locks] /\ frame \in [Threads -> Lib!Frames]
         /\ pc \in [Threads -> P]
         /\ \A u \in Threads : Lib!At(u) = "user" => u = t
BY LibFacts DEF Calling, Call, Lib!Enter, Lib!TypeOK, Lib!MaskDiscipline

LEMMA SectionsLock ==
  ASSUME NEW CS, NEW Blocks, NEW P, NEW t, NEW to \in P,
         Calling(t, P), Sections(CS, Blocks),
         Lib!Lock(1), Goto(t, to), to \in CS \cap Blocks
  PROVE  Sections(CS, Blocks)'
<1>1. /\ mode = "threads" /\ t = running /\ t \in Threads /\ Lib!At(t) = "user"
      /\ locks \in [Threads -> SUBSET Locks] /\ frame \in [Threads -> Lib!Frames]
      /\ pc \in [Threads -> P]
  BY CallFacts
<1>. QED
  BY <1>1 DEF Sections, Lib!Lock, Lib!LockLoop, Lib!Return, Lib!UserFrame, Lib!Frame, Lib!At,
              Lib!EndProcess, Goto, Lib!Dispatch

LEMMA SectionsUnlock ==
  ASSUME NEW CS, NEW Blocks, NEW P, NEW t, NEW to \in P,
         Calling(t, P), Sections(CS, Blocks),
         Lib!Unlock(1), Goto(t, to), to \notin CS
  PROVE  Sections(CS, Blocks)'
<1>1. /\ mode = "threads" /\ t = running /\ t \in Threads /\ Lib!At(t) = "user"
      /\ locks \in [Threads -> SUBSET Locks] /\ frame \in [Threads -> Lib!Frames]
      /\ pc \in [Threads -> P]
  BY CallFacts
<1>2. /\ 1 \notin locks'[t]
      /\ \A u \in Threads \ {t} :
           /\ locks[u] \subseteq locks'[u]
           /\ 1 \in locks'[u] /\ 1 \notin locks[u] => Lib!At(u) \in {"lock", "relock"}
  BY <1>1, ReleaseFacts DEF Calling, Lib!Unlock
<1>. QED
  BY <1>1, <1>2 DEF Sections, Lib!Unlock, Lib!At, Goto

LEMMA SectionsWait ==
  ASSUME NEW CS, NEW Blocks, NEW P, NEW t, NEW to \in P, NEW c,
         Calling(t, P), Sections(CS, Blocks),
         Lib!Wait(1, c), Goto(t, to), to \in CS \cap Blocks
  PROVE  Sections(CS, Blocks)'
<1>1. /\ mode = "threads" /\ t = running /\ t \in Threads /\ Lib!At(t) = "user"
      /\ locks \in [Threads -> SUBSET Locks] /\ frame \in [Threads -> Lib!Frames]
      /\ pc \in [Threads -> P]
  BY CallFacts
<1>2. /\ 1 \notin locks'[t]
      /\ \A u \in Threads \ {t} :
           /\ locks[u] \subseteq locks'[u]
           /\ 1 \in locks'[u] /\ 1 \notin locks[u] => Lib!At(u) \in {"lock", "relock"}
  BY <1>1, ReleaseFacts DEF Calling, Lib!Wait
<1>3. CASE frame' = [frame EXCEPT ![running] = Lib!Frame("wait", 1, None)] /\ UNCHANGED mode
  BY <1>1, <1>2, <1>3 DEF Sections, Lib!At, Lib!Frame, Goto
<1>4. CASE mode' = "exited"
  BY <1>4 DEF Sections
<1>. QED BY <1>3, <1>4 DEF Lib!Wait, Lib!EndProcess

(* A call that wakes threads, or finds none to wake, moves no lock.        *)
Wakes(c) == BroadcastCall(c) \/ SignalCall(c) \/ UNCHANGED libVars

LEMMA SectionsWake ==
  ASSUME NEW CS, NEW Blocks, NEW P, NEW t, NEW to \in P, NEW c,
         Calling(t, P), Sections(CS, Blocks),
         Wakes(c), Goto(t, to), to \in CS <=> pc[t] \in CS
  PROVE  Sections(CS, Blocks)'
<1>1. /\ mode = "threads" /\ t = running /\ t \in Threads /\ Lib!At(t) = "user"
      /\ locks \in [Threads -> SUBSET Locks] /\ frame \in [Threads -> Lib!Frames]
      /\ pc \in [Threads -> P]
  BY CallFacts
<1>2. CASE UNCHANGED libVars \/ Lib!Signal(1, c)
  BY <1>1, <1>2 DEF libVars, Lib!Signal, Sections, Lib!At, Goto
<1>3. CASE Lib!Broadcast(1, c)
  BY <1>1, <1>3 DEF Lib!Broadcast, Sections, Lib!At, Lib!Frame, Goto
<1>. QED BY <1>2, <1>3 DEF Wakes, BroadcastCall, SignalCall

LEMMA NextThreadIsUncreated ==
  ASSUME Lib!TypeOK, Lib!At(Boot) # "none", Uncreated # {}
  PROVE  NextThread \in Uncreated /\ NextThread \in Threads
<1>1. CASE Uncreated \cap Requesters # {}
  <2>1. Uncreated \cap Requesters \subseteq Nat
    BY SchedulerAssumption DEF Requesters
  <2>2. Lib!First(Uncreated \cap Requesters) \in Uncreated \cap Requesters
    BY <1>1, <2>1, LeastElement DEF Lib!First
  <2>. QED BY <1>1, <2>2 DEF NextThread, Uncreated
<1>2. CASE Uncreated \cap Requesters = {}
  BY <1>2 DEF NextThread, Uncreated, Threads
<1>. QED BY <1>1, <1>2

(* A thread that is resumed returns to its code, with the lock if the call *)
(* was one of those that take it, or blocks again.                         *)
LEMMA ResumeFacts ==
  ASSUME LibInv, Lib!Resume
  PROVE  /\ mode = "threads" /\ running \in Threads /\ leaked' = leaked
         /\ Lib!At(running) \in {"start", "yield", "lock", "wait", "relock", "broadcast"}
         /\ \A t \in Threads \ {running} : frame'[t] = frame[t] /\ locks'[t] = locks[t]
         /\ \/ /\ Lib!At(running) \in {"start", "yield", "broadcast"} /\ locks' = locks
               /\ mode' = mode /\ running' = running /\ waiting' = waiting
               /\ frame'[running].at \in {"user", Lib!At(running)} \ {"start"}
            \/ /\ Lib!At(running) \in {"lock", "wait", "relock"} /\ 1 \in locks'[running]
               /\ mode' = mode /\ running' = running /\ waiting' = waiting
               /\ frame'[running].at = "user"
            \/ /\ Lib!At(running) \in {"lock", "wait", "relock"} /\ locks' = locks
               /\ mode' = mode
               /\ frame'[running].at \in {"lock", "relock"}
            \/ /\ Lib!At(running) \in {"lock", "wait", "relock"}
               /\ mode' = "exited" /\ UNCHANGED <<running, waiting, cv, frame>>
               /\ runnable = <<>> /\ 1 \in using \ locks[running]
<1>1. /\ running \in Threads \/ mode # "threads"
      /\ locks \in [Threads -> SUBSET Locks] /\ frame \in [Threads -> Lib!Frames]
      /\ Lib!QueuesMatchFrames
  BY LibFacts DEF Lib!TypeOK
<1>. USE DEF Lib!Inside, Lib!Return, Lib!UserFrame, Lib!Frame, Lib!At
<1>2. CASE Lib!Start \/ Lib!ResumeYield \/ Lib!BroadcastReturn
  BY <1>1, <1>2 DEF Lib!Start, Lib!ResumeYield, Lib!BroadcastReturn
<1>3. CASE Lib!BroadcastWake
  BY <1>1, <1>3 DEF Lib!BroadcastWake
<1>4. CASE Lib!ResumeLock \/ Lib!ResumeWait \/ Lib!ResumeRelock
  <2>1. PICK at \in {"lock", "relock"} :
          /\ Lib!LockLoop(frame[running].lock, at) /\ mode = "threads" /\ UNCHANGED <<cv, leaked>>
          /\ Lib!At(running) \in {"lock", "wait", "relock"}
    BY <1>4 DEF Lib!ResumeLock, Lib!ResumeWait, Lib!ResumeRelock
  <2>2. frame[running].lock = 1
    BY <1>1, <2>1 DEF Lib!QueuesMatchFrames, Locks
  <2>. QED BY <1>1, <2>1, <2>2 DEF Lib!LockLoop, Lib!EndProcess
<1>. QED BY <1>2, <1>3, <1>4 DEF Lib!Resume

LEMMA SectionsThreads ==
  ASSUME NEW CS, NEW Blocks, NEW P, LibInv, pc \in [Threads -> P],
         Sections(CS, Blocks), {"begin", "open", "failed", "end"} \cap CS = {},
         Blocks \subseteq CS, ThreadStep
  PROVE  Sections(CS, Blocks)'
<1>. USE DEF Lib!At, Lib!Frame
<1>1. /\ Lib!TypeOK
      /\ mode = "threads" => running \in Threads
      /\ mode = "main" => \A t \in Threads : Lib!At(t) = "none"
      /\ locks \in [Threads -> SUBSET Locks] /\ frame \in [Threads -> Lib!Frames]
      /\ \A t \in Threads : Lib!At(t) \in Lib!Points
  BY LibFacts DEF Lib!TypeOK, Lib!Frames
<1>2. CASE Main
  BY <1>1, <1>2 DEF Threads, Main, Libinit, LibinitFails, MainReturns, Lib!Libinit, Lib!LibinitFails,
                    Lib!MainReturns, Sections, Lib!Points
<1>3. CASE CreateNext
  <2>1. NextThread \in Threads /\ Lib!Create(NextThread) /\ pc' = pc
    BY <1>1, <1>3, NextThreadIsUncreated DEF CreateNext, Call, Lib!Enter
  <2>. QED BY <1>1, <2>1 DEF Sections, Lib!Create, Lib!Enter
<1>4. CASE CreateFails
  <2>1. /\ NextThread \in Threads /\ Lib!At(NextThread) = "none"
        /\ pc' = [pc EXCEPT ![NextThread] = "failed"]
        /\ mode = "threads" /\ UNCHANGED libVars
    BY <1>1, <1>4, NextThreadIsUncreated DEF CreateFails, Call, Lib!Enter, Goto, Uncreated
  <2>. QED BY <1>1, <2>1 DEF Sections, libVars
<1>5. CASE Lib!Exit /\ pc' = pc
  BY <1>1, <1>5 DEF Sections, Lib!Exit, Lib!Enter, Lib!EndProcess
<1>6. CASE Preempt
  BY <1>1, <1>6 DEF Sections, Preempt, Lib!Yield, Lib!Enter
<1>7. CASE Finish
  <2>1. pc' = pc /\ Lib!Resume
    BY <1>7 DEF Finish
  <2>. QED BY <1>1, <2>1, ResumeFacts DEF Sections
<1>. QED
  BY <1>2, <1>3, <1>4, <1>5, <1>6, <1>7 DEF ThreadStep, Create, BootReturns, Return
-----------------------------------------------------------------------------
(* What a call does to the threads that wait on condition variables, and   *)
(* to those inside thread_broadcast.                                       *)
Nobody(c) == \A i \in DOMAIN cv : cv[i].cond # c

Joins(t, c) ==
  \A j \in DOMAIN cv' :
    cv'[j] = [ct |-> t, lock |-> 1, cond |-> c] \/ \E i \in DOMAIN cv : cv'[j] = cv[i]

Leaves(c) ==
  \E i \in DOMAIN cv :
    /\ cv[i].cond = c
    /\ \A j \in DOMAIN cv' : \E k \in DOMAIN cv : cv'[j] = cv[k] /\ cv[k].ct # cv[i].ct

LEMMA Sleepers ==
  ASSUME LibInv
  PROVE  \A i \in DOMAIN cv :
           /\ cv[i].ct \in Threads /\ cv[i].lock = 1 /\ cv[i].cond \in Conds
           /\ cv[i].ct # running /\ Lib!At(cv[i].ct) = "wait"
<1>1. Lib!TypeOK /\ Lib!QueuesMatchFrames /\ Lib!OnePlace
  BY LibFacts
<1>2. \A i \in DOMAIN cv : cv[i] \in Lib!CvEntry
  BY <1>1, LenProperties, ElementOfSeq DEF Lib!TypeOK
<1>. QED
  BY <1>1, <1>2 DEF Lib!CvEntry, Locks, Lib!QueuesMatchFrames, Lib!OnePlace, Lib!CvBlocked

LEMMA WaitersFacts ==
  ASSUME LibInv, NEW c
  PROVE  /\ Lib!CvWaiters(1, c) = {} <=> Nobody(c)
         /\ Lib!CvWaiters(1, c) # {} /\ Lib!WakeOne(1, c) => Leaves(c)
<1>1. /\ Lib!OnePlace /\ cv \in Seq(Lib!CvEntry)
      /\ \A i \in DOMAIN cv : cv[i].lock = 1
  BY LibFacts, Sleepers DEF Lib!TypeOK
<1>2. Lib!CvWaiters(1, c) = {} <=> Nobody(c)
  BY <1>1 DEF Lib!CvWaiters, Nobody
<1>3. ASSUME Lib!CvWaiters(1, c) # {}, Lib!WakeOne(1, c) PROVE Leaves(c)
  <2>. DEFINE i == Lib!First(Lib!CvWaiters(1, c))
  <2>1. i \in Lib!CvWaiters(1, c)
    <3>1. Lib!CvWaiters(1, c) \subseteq Nat
      BY <1>1, LenProperties DEF Lib!CvWaiters
    <3>. QED BY <1>3, <3>1, LeastElement DEF Lib!First
  <2>2. cv' = RemoveAt(cv, i) /\ i \in DOMAIN cv /\ cv[i].cond = c
    BY <1>3, <2>1 DEF Lib!WakeOne, Lib!CvWaiters, RemoveAt, Lib!RemoveAt
  <2>3. Without(cv', cv, i)
    BY <1>1, <2>2, RemoveAtIsWithout
  <2>. HIDE DEF i
  <2>4. \A j \in DOMAIN cv' : \E k \in DOMAIN cv : cv'[j] = cv[k] /\ k # i
    BY <2>3 DEF Without
  <2>. QED BY <1>1, <2>2, <2>4 DEF Leaves, Lib!OnePlace
<1>. QED BY <1>2, <1>3

LEMMA CallEffects ==
  ASSUME NEW t, NEW P, Calling(t, P), NEW c
  PROVE  /\ Lib!Lock(1) \/ Lib!Unlock(1) =>
              /\ UNCHANGED <<cv, leaked>>
              /\ \A u \in Threads \ {t} : frame'[u] = frame[u]
              /\ frame'[t].at \in {"user", "lock"}
         /\ Lib!Wait(1, c) =>
              /\ leaked' = leaked
              /\ \/ /\ mode' = "exited" /\ UNCHANGED <<cv, frame, running>>
                    /\ runnable = <<>> /\ waiting = <<>>
                 \/ /\ mode' = mode /\ Joins(t, c)
                    /\ frame' = [frame EXCEPT ![t] = Lib!Frame("wait", 1, None)]
         /\ SignalCall(c) =>
              /\ UNCHANGED <<mode, frame, leaked, waiting>>
              /\ \/ cv' = cv /\ Nobody(c)
                 \/ Leaves(c)
         /\ BroadcastCall(c) =>
              /\ UNCHANGED <<mode, cv, leaked, waiting>>
              /\ \/ frame' = frame /\ Nobody(c)
                 \/ frame' = [frame EXCEPT ![t] = Lib!Frame("broadcast", 1, c)]
<1>1. /\ LibInv /\ Lib!TypeOK /\ t = running /\ t \in Threads /\ Lib!At(t) = "user"
      /\ frame \in [Threads -> Lib!Frames] /\ Lib!Enter
  BY CallFacts DEF Calling, Call
<1>2. ASSUME Lib!Lock(1) \/ Lib!Unlock(1)
      PROVE  /\ UNCHANGED <<cv, leaked>>
             /\ \A u \in Threads \ {t} : frame'[u] = frame[u]
             /\ frame'[t].at \in {"user", "lock"}
  BY <1>1, <1>2 DEF Lib!Lock, Lib!Unlock, Lib!LockLoop, Lib!Return, Lib!UserFrame, Lib!Frame, Lib!At
<1>3. ASSUME Lib!Wait(1, c)
      PROVE  /\ leaked' = leaked
             /\ \/ /\ mode' = "exited" /\ UNCHANGED <<cv, frame, running>>
                   /\ runnable = <<>> /\ waiting = <<>>
                \/ /\ mode' = mode /\ Joins(t, c)
                   /\ frame' = [frame EXCEPT ![t] = Lib!Frame("wait", 1, None)]
  <2>. DEFINE e == [ct |-> running, lock |-> 1, cond |-> c]
  <2>1. /\ leaked' = leaked /\ 1 \in locks[running] /\ Lib!Release(1)
        /\ \/ /\ cv' = Append(cv, e) /\ mode' = mode
              /\ frame' = [frame EXCEPT ![running] = Lib!Frame("wait", 1, None)]
           \/ /\ runnable \o Lib!Heir(1) = <<>>
              /\ mode' = "exited" /\ UNCHANGED <<cv, frame, running>>
    BY <1>3 DEF Lib!Wait, Lib!EndProcess
  <2>2. CASE cv' = Append(cv, e)
    <3>1. cv \in Seq(Lib!CvEntry \cup {e}) /\ e \in Lib!CvEntry \cup {e}
      BY <1>1, LenProperties, ElementOfSeq DEF Lib!TypeOK
    <3>2. With(cv', cv, e)
      BY <2>2, <3>1, AppendIsWith
    <3>3. Joins(t, c)
      BY <1>1, <3>2 DEF With, Joins
    <3>. QED BY <1>1, <2>1, <3>3, ReleaseFacts
  <2>. QED BY <1>1, <2>1, <2>2, ReleaseFacts
<1>4. ASSUME SignalCall(c)
      PROVE  /\ UNCHANGED <<mode, frame, leaked, waiting>>
             /\ (cv' = cv /\ Nobody(c)) \/ Leaves(c)
  BY <1>1, <1>4, WaitersFacts DEF SignalCall, Lib!Signal, libVars
<1>5. ASSUME BroadcastCall(c)
      PROVE  /\ UNCHANGED <<mode, cv, leaked, waiting>>
             /\ \/ frame' = frame /\ Nobody(c)
                \/ frame' = [frame EXCEPT ![t] = Lib!Frame("broadcast", 1, c)]
  BY <1>1, <1>5, WaitersFacts DEF BroadcastCall, Lib!Broadcast, libVars
<1>. QED BY <1>2, <1>3, <1>4, <1>5

LEMMA ResumeEffects ==
  ASSUME LibInv, Lib!Resume
  PROVE  \/ /\ cv' = cv /\ Lib!At(running) # "broadcast"
            /\ frame'[running].at # "broadcast"
         \/ /\ frame' = frame /\ Lib!At(running) = "broadcast"
            /\ Leaves(frame[running].cond)
         \/ /\ cv' = cv /\ Nobody(frame[running].cond) /\ Lib!At(running) = "broadcast"
            /\ frame'[running].at = "user"
<1>1. /\ mode = "threads" => running \in Threads
      /\ frame \in [Threads -> Lib!Frames] /\ Lib!QueuesMatchFrames
  BY LibFacts DEF Lib!TypeOK
<1>. USE DEF Lib!Inside, Lib!Return, Lib!UserFrame, Lib!Frame, Lib!At
<1>2. CASE Lib!Start \/ Lib!ResumeYield
  BY <1>1, <1>2 DEF Lib!Start, Lib!ResumeYield
<1>3. CASE Lib!ResumeLock \/ Lib!ResumeWait \/ Lib!ResumeRelock
  BY <1>1, <1>3 DEF Lib!ResumeLock, Lib!ResumeWait, Lib!ResumeRelock, Lib!LockLoop
<1>4. CASE Lib!BroadcastWake \/ Lib!BroadcastReturn
  <2>1. frame[running].lock = 1 /\ running \in Threads
    BY <1>1, <1>4 DEF Lib!BroadcastWake, Lib!BroadcastReturn, Lib!QueuesMatchFrames, Locks
  <2>. QED
    BY <1>1, <1>4, <2>1, WaitersFacts DEF Lib!BroadcastWake, Lib!BroadcastReturn
<1>. QED BY <1>2, <1>3, <1>4 DEF Lib!Resume

(* Nobody moves a thread that was created, but the thread itself; it ends  *)
(* where its function returns.                                             *)
LEMMA FrameFacts ==
  ASSUME LibInv, Lib!Next \/ UNCHANGED libVars
  PROVE  \A u \in Threads :
           /\ u # running /\ Lib!At(u) # "none" => frame'[u] = frame[u]
           /\ frame'[u].at = "none" => Lib!At(u) = "none"
           /\ frame'[u].at = "done" => Lib!At(u) = "done" \/ (u = running /\ Lib!Exit)
<1>1. /\ mode = "threads" => running \in Threads
      /\ frame \in [Threads -> Lib!Frames] /\ Lib!QueuesMatchFrames
      /\ mode = "main" => \A t \in Threads : Lib!At(t) = "none"
  BY LibFacts DEF Lib!TypeOK
<1>. USE DEF Lib!Frame, Lib!At, Lib!Enter, Lib!Inside, Lib!Return, Lib!UserFrame
<1>2. CASE UNCHANGED frame
  BY <1>2
<1>3. CASE Lib!Yield \/ Lib!Exit \/ Lib!Resume
  <2>1. CASE Lib!Resume
    BY <1>1, <2>1, ResumeFacts DEF Lib!Points
  <2>. QED BY <1>1, <1>3, <2>1 DEF Lib!Yield, Lib!Exit
<1>4. ASSUME NEW t \in Threads, Lib!Libinit(t) \/ Lib!Create(t)
      PROVE  \A u \in Threads :
               /\ u # running /\ Lib!At(u) # "none" => frame'[u] = frame[u]
               /\ frame'[u].at = "none" => Lib!At(u) = "none"
               /\ frame'[u].at = "done" => Lib!At(u) = "done"
  BY <1>1, <1>4 DEF Lib!Libinit, Lib!Create
<1>5. ASSUME NEW l \in Locks, Lib!Lock(l) \/ Lib!Unlock(l)
      PROVE  \A u \in Threads :
               /\ u # running => frame'[u] = frame[u]
               /\ frame'[u] = frame[u] \/ frame'[u].at \in {"user", "lock"}
  BY <1>1, <1>5 DEF Lib!Lock, Lib!Unlock, Lib!LockLoop
<1>6. ASSUME NEW l \in Locks, NEW c \in Conds, Lib!Wait(l, c) \/ Lib!Signal(l, c) \/ Lib!Broadcast(l, c)
      PROVE  \A u \in Threads :
               /\ u # running => frame'[u] = frame[u]
               /\ frame'[u] = frame[u] \/ frame'[u].at \in {"wait", "broadcast"}
  BY <1>1, <1>6 DEF Lib!Wait, Lib!Signal, Lib!Broadcast
<1>. QED
  BY <1>2, <1>3, <1>4, <1>5, <1>6 DEF Lib!Next, Lib!LibinitFails, Lib!MainReturns, Lib!Exited,
     Lib!vars, libVars

LEMMA ModeFacts ==
  ASSUME LibInv, Lib!Next \/ UNCHANGED libVars
  PROVE  /\ mode' = "main" => mode = "main" /\ running' = running
         /\ mode = "threads" => mode' \in {"threads", "exited"}
<1>1. Lib!TypeOK
  BY LibFacts
<1>. USE <1>1 DEF Lib!TypeOK, Lib!Enter, Lib!Inside, Lib!Return, Lib!EndProcess
<1>2. CASE Lib!Resume
  BY <1>2, ResumeFacts
<1>3. CASE Lib!Yield \/ Lib!Exit \/ Lib!LibinitFails \/ Lib!MainReturns \/ Lib!Exited
  BY <1>3 DEF Lib!Yield, Lib!Exit, Lib!LibinitFails, Lib!MainReturns, Lib!Exited, Lib!vars
<1>4. CASE \E t \in Threads : Lib!Libinit(t) \/ Lib!Create(t)
  BY <1>4 DEF Lib!Libinit, Lib!Create
<1>5. CASE \E l \in Locks : Lib!Lock(l) \/ Lib!Unlock(l)
  BY <1>5 DEF Lib!Lock, Lib!Unlock, Lib!LockLoop
<1>6. CASE \E l \in Locks, c \in Conds : Lib!Wait(l, c) \/ Lib!Signal(l, c) \/ Lib!Broadcast(l, c)
  BY <1>6 DEF Lib!Wait, Lib!Signal, Lib!Broadcast
<1>. QED BY <1>2, <1>3, <1>4, <1>5, <1>6 DEF Lib!Next, libVars

(* Only the end of a thread leaks a lock.                                  *)
LEMMA LeakFacts ==
  ASSUME LibInv, Lib!Next \/ UNCHANGED libVars
  PROVE  leaked' = leaked \/ (Lib!Exit /\ leaked' = leaked \cup locks[running])
<1>1. CASE Lib!Resume
  BY <1>1, ResumeFacts
<1>2. CASE \/ Lib!Exit \/ Lib!Yield \/ Lib!LibinitFails \/ Lib!MainReturns \/ Lib!Exited
           \/ UNCHANGED libVars
  BY <1>2 DEF Lib!Yield, Lib!Exit, Lib!LibinitFails, Lib!MainReturns, Lib!Exited, Lib!vars, libVars
<1>3. CASE \E t \in Threads : Lib!Libinit(t) \/ Lib!Create(t)
  BY <1>3 DEF Lib!Libinit, Lib!Create
<1>4. CASE \E l \in Locks : Lib!Lock(l) \/ Lib!Unlock(l)
  BY <1>4 DEF Lib!Lock, Lib!Unlock
<1>5. CASE \E l \in Locks, c \in Conds : Lib!Wait(l, c) \/ Lib!Signal(l, c) \/ Lib!Broadcast(l, c)
  BY <1>5 DEF Lib!Wait, Lib!Signal, Lib!Broadcast
<1>. QED BY <1>1, <1>2, <1>3, <1>4, <1>5 DEF Lib!Next

(* How the library ends the process: a thread that ends, waits or asks for *)
(* a lock that another has finds nobody to switch to.                      *)
LEMMA EndFacts ==
  ASSUME LibInv, Lib!Next \/ UNCHANGED libVars, mode # "exited", mode' = "exited"
  PROVE  \/ Lib!MainReturns
         \/ /\ mode = "threads" /\ running \in Threads
            /\ runnable = <<>> /\ cv' = cv /\ running' = running
            /\ \/ Lib!Exit
               \/ /\ waiting = <<>> /\ frame' = frame
                  /\ Lib!Enter /\ \E c \in Conds : Lib!Wait(1, c)
               \/ /\ 1 \in using \ locks[running] /\ frame' = frame
                  /\ Lib!Lock(1) \/ Lib!Resume
<1>. DEFINE Stuck == /\ mode = "threads" /\ running \in Threads
                     /\ runnable = <<>> /\ cv' = cv /\ running' = running
<1>1. Lib!TypeOK /\ (Lib!Enter => mode = "threads" /\ running \in Threads)
  BY LibFacts DEF Lib!TypeOK, Lib!Enter
<1>2. CASE Lib!Resume
  BY <1>2, ResumeFacts
<1>3. ASSUME Lib!Exit PROVE Stuck
  BY <1>1, <1>3 DEF Lib!Exit, Lib!Dispatch
<1>4. ASSUME Lib!Yield \/ Lib!LibinitFails \/ Lib!Exited \/ UNCHANGED libVars PROVE FALSE
  BY <1>1, <1>4 DEF Lib!Yield, Lib!LibinitFails, Lib!Exited, Lib!vars, libVars
<1>5. ASSUME \E t \in Threads : Lib!Libinit(t) \/ Lib!Create(t) PROVE FALSE
  BY <1>5 DEF Lib!Libinit, Lib!Create
<1>6. ASSUME NEW l \in Locks, Lib!Lock(l) \/ Lib!Unlock(l)
      PROVE  Stuck /\ 1 \in using \ locks[running] /\ frame' = frame /\ Lib!Lock(1)
  BY <1>1, <1>6 DEF Lib!Lock, Lib!Unlock, Lib!LockLoop, Locks
<1>7. ASSUME NEW l \in Locks, NEW c \in Conds, Lib!Signal(l, c) \/ Lib!Broadcast(l, c) PROVE FALSE
  BY <1>7 DEF Lib!Signal, Lib!Broadcast
<1>8. ASSUME NEW l \in Locks, NEW c \in Conds, Lib!Wait(l, c)
      PROVE  /\ Stuck /\ waiting = <<>> /\ frame' = frame /\ Lib!Enter
             /\ \E d \in Conds : Lib!Wait(1, d)
  <2>1. /\ Lib!Enter /\ l = 1 /\ 1 \in locks[running] /\ Lib!Release(1)
        /\ runnable \o Lib!Heir(1) = <<>> /\ UNCHANGED <<running, cv, frame>>
    BY <1>8 DEF Lib!Wait, Locks
  <2>. QED BY <1>1, <1>8, <2>1, ReleaseFacts
<1>. QED BY <1>2, <1>3, <1>4, <1>5, <1>6, <1>7, <1>8 DEF Lib!Next
=============================================================================
