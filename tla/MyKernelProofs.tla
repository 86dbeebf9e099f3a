--------------------------- MODULE MyKernelProofs ---------------------------
(***************************************************************************)
(* Theorems about MyKernel, for any sets of threads and locks: as long as  *)
(* the process lives, mykernel.cpp does what thread.cc may do, so that the *)
(* invariants proved of thread.cc are invariants of mykernel.cpp.          *)
(***************************************************************************)
EXTENDS MyKernel, SequenceFacts

(* What thread.cc sees of mykernel.cpp, as in the mapping of MyKernel.     *)
SeenMode   == IF Doomed THEN "threads" ELSE mode
SeenMasked == masked /\ ~(Doomed /\ At(running) # "start")
SeenFrame  == [t \in Threads |->
                 [at   |-> IF At(t) \in {"unlock", "delete"} THEN "user" ELSE At(t),
                  lock |-> frame[t].lock,
                  cond |-> None]]

LibP == INSTANCE ThreadLibProofs WITH
  mode     <- SeenMode,
  masked   <- SeenMasked,
  runnable <- readyQueue,
  waiting  <- waitQueue,
  cv       <- <<>>,
  frame    <- SeenFrame,
  leaked   <- {}

-----------------------------------------------------------------------------
(* The theorems about thread.cc are about the library of the mapping.      *)
LEMMA NoneIsNobody == None \notin Threads \cup Locks \cup Conds
BY KernelAssumption

LEMMA SameLibrary ==
  /\ ThreadCC!Init <=> LibP!Init
  /\ ThreadCC!Next <=> LibP!Next
  /\ ThreadCC!vars = LibP!vars
<1>. USE DEF SeenMode, SeenMasked, SeenFrame,
             ThreadCC!At, LibP!At, ThreadCC!Frame, LibP!Frame, ThreadCC!UserFrame, LibP!UserFrame,
             ThreadCC!Enter, LibP!Enter, ThreadCC!Inside, LibP!Inside, ThreadCC!Return, LibP!Return,
             ThreadCC!Dispatch, LibP!Dispatch, ThreadCC!EndProcess, LibP!EndProcess,
             ThreadCC!RemoveAt, LibP!RemoveAt
<1>1. \A l : /\ ThreadCC!LongestWaiter(l) = LibP!LongestWaiter(l)
             /\ ThreadCC!Waiters(l) = LibP!Waiters(l)
  BY DEF ThreadCC!LongestWaiter, LibP!LongestWaiter, ThreadCC!Waiters, LibP!Waiters,
         ThreadCC!First, LibP!First
<1>2. \A l : (ThreadCC!Release(l) <=> LibP!Release(l)) /\ ThreadCC!Heir(l) = LibP!Heir(l)
  BY <1>1 DEF ThreadCC!Release, LibP!Release, ThreadCC!Delivered, LibP!Delivered,
              ThreadCC!Erased, LibP!Erased, ThreadCC!StillUsed, LibP!StillUsed,
              ThreadCC!NotWaiting, LibP!NotWaiting, ThreadCC!Heir, LibP!Heir
<1>3. \A l, at : ThreadCC!LockLoop(l, at) <=> LibP!LockLoop(l, at)
  BY DEF ThreadCC!LockLoop, LibP!LockLoop
<1>4. /\ \A l, c : ThreadCC!WakeOne(l, c) <=> LibP!WakeOne(l, c)
      /\ \A l, c : ThreadCC!CvWaiters(l, c) = LibP!CvWaiters(l, c)
  BY DEF ThreadCC!WakeOne, LibP!WakeOne, ThreadCC!CvWaiters, LibP!CvWaiters,
         ThreadCC!First, LibP!First
<1>5. ThreadCC!Resume <=> LibP!Resume
  <2>1. /\ ThreadCC!Start <=> LibP!Start
        /\ ThreadCC!ResumeYield <=> LibP!ResumeYield
    BY DEF ThreadCC!Start, LibP!Start, ThreadCC!ResumeYield, LibP!ResumeYield
  <2>2. /\ ThreadCC!ResumeLock <=> LibP!ResumeLock
        /\ ThreadCC!ResumeWait <=> LibP!ResumeWait
        /\ ThreadCC!ResumeRelock <=> LibP!ResumeRelock
    BY <1>3 DEF ThreadCC!ResumeLock, LibP!ResumeLock, ThreadCC!ResumeWait, LibP!ResumeWait,
                ThreadCC!ResumeRelock, LibP!ResumeRelock
  <2>3. /\ ThreadCC!BroadcastWake <=> LibP!BroadcastWake
        /\ ThreadCC!BroadcastReturn <=> LibP!BroadcastReturn
    BY <1>4 DEF ThreadCC!BroadcastWake, LibP!BroadcastWake,
                ThreadCC!BroadcastReturn, LibP!BroadcastReturn
  <2>. QED BY <2>1, <2>2, <2>3 DEF ThreadCC!Resume, LibP!Resume
<1>6. (ThreadCC!Exit <=> LibP!Exit) /\ (ThreadCC!Yield <=> LibP!Yield)
  BY DEF ThreadCC!Exit, LibP!Exit, ThreadCC!Yield, LibP!Yield
<1>7. \A l : (ThreadCC!Lock(l) <=> LibP!Lock(l)) /\ (ThreadCC!Unlock(l) <=> LibP!Unlock(l))
  BY <1>2, <1>3 DEF ThreadCC!Lock, LibP!Lock, ThreadCC!Unlock, LibP!Unlock
<1>8. \A l, c : ThreadCC!Wait(l, c) <=> LibP!Wait(l, c)
  BY <1>2 DEF ThreadCC!Wait, LibP!Wait
<1>9. \A l, c : /\ ThreadCC!Signal(l, c) <=> LibP!Signal(l, c)
                /\ ThreadCC!Broadcast(l, c) <=> LibP!Broadcast(l, c)
  BY <1>4 DEF ThreadCC!Signal, LibP!Signal, ThreadCC!Broadcast, LibP!Broadcast
<1>10. \A t : /\ ThreadCC!Libinit(t) <=> LibP!Libinit(t)
              /\ ThreadCC!Create(t) <=> LibP!Create(t)
  BY DEF ThreadCC!Libinit, LibP!Libinit, ThreadCC!Create, LibP!Create
<1>11. ThreadCC!vars = LibP!vars
  BY DEF ThreadCC!vars, LibP!vars
<1>12. /\ ThreadCC!LibinitFails <=> LibP!LibinitFails
       /\ ThreadCC!MainReturns <=> LibP!MainReturns
       /\ ThreadCC!Exited <=> LibP!Exited
  BY DEF ThreadCC!LibinitFails, LibP!LibinitFails, ThreadCC!MainReturns, LibP!MainReturns,
         ThreadCC!Exited, LibP!Exited, ThreadCC!vars, LibP!vars
<1>13. ThreadCC!Next <=> LibP!Next
  BY <1>5, <1>6, <1>7, <1>8, <1>9, <1>10, <1>12 DEF ThreadCC!Next, LibP!Next
<1>14. ThreadCC!Init <=> LibP!Init
  BY DEF ThreadCC!Init, LibP!Init
<1>. QED BY <1>11, <1>13, <1>14

-----------------------------------------------------------------------------
(* The invariant: that of thread.cc, and how a dying process is seen.      *)
Own ==
  /\ mode = "main" => running = None
  /\ mode \in {"crashed", "aborted"} => running \in Threads
  /\ \A t \in Threads : At(t) \in {"unlock", "delete"} => t = running
  /\ \A t \in Threads : At(t) # "lock" => frame[t].lock = None

KInv == TypeOK /\ Own /\ LibP!Inv

LEMMA Entries ==
  ASSUME TypeOK, NEW i \in DOMAIN waitQueue
  PROVE  i \in 1 .. Len(waitQueue) /\ waitQueue[i].ct \in Threads
<1>1. i \in 1 .. Len(waitQueue) /\ waitQueue[i] \in WaitEntry
  BY LenProperties, ElementOfSeq DEF TypeOK
<1>. QED BY <1>1 DEF WaitEntry

(* What the proofs use of the invariant of thread.cc.                      *)
LEMMA KernelFacts ==
  ASSUME KInv
  PROVE  /\ UNION {locks[t] : t \in Threads} \subseteq using
         /\ \A t \in Threads :
              /\ At(t) = "lock" => frame[t].lock \in Locks
              /\ At(t) = "lock" =>
                   \/ \E i \in DOMAIN waitQueue : waitQueue[i].ct = t
                   \/ frame[t].lock \in locks[t]
              /\ At(t) # "none" =>
                   \/ t = running
                   \/ \E i \in DOMAIN readyQueue : readyQueue[i] = t
                   \/ \E i \in DOMAIN waitQueue : waitQueue[i].ct = t
         /\ \A i \in DOMAIN waitQueue : waitQueue[i].ct # running
<1>. USE DEF KInv, LibP!Inv
<1>1. UNION {locks[t] : t \in Threads} \subseteq using
  BY DEF LibP!LockAccounting
<1>2. ASSUME NEW t \in Threads
      PROVE  At(t) # "none" =>
               \/ t = running
               \/ \E i \in DOMAIN readyQueue : readyQueue[i] = t
               \/ \E i \in DOMAIN waitQueue : waitQueue[i].ct = t
  <2>2. At(t) # "none" => LibP!At(t) \notin {"none", "done"}
    BY DEF TypeOK, At, LibP!At, SeenFrame, Points
  <2>3. ~ LibP!CvBlocked(t)
    BY DEF LibP!CvBlocked
  <2>4. LibP!At(t) \notin {"none", "done"} => t = running \/ LibP!Runnable(t) \/ LibP!LockBlocked(t)
    BY <2>3 DEF LibP!NoThreadLost
  <2>. QED BY <2>2, <2>4 DEF LibP!LockBlocked, LibP!Runnable
<1>3. ASSUME NEW t \in Threads, At(t) = "lock"
      PROVE  /\ frame[t].lock \in Locks
             /\ \/ \E i \in DOMAIN waitQueue : waitQueue[i].ct = t
                \/ frame[t].lock \in locks[t]
  <2>1. LibP!At(t) = "lock" /\ SeenFrame[t].lock = frame[t].lock
    BY <1>3 DEF At, LibP!At, SeenFrame
  <2>. QED BY <2>1 DEF LibP!QueuesMatchFrames, LibP!HandoffDelivered, LibP!LockBlocked
<1>4. \A i \in DOMAIN waitQueue : waitQueue[i].ct # running
  <2>1. \A i \in DOMAIN waitQueue : waitQueue[i].ct \in Threads
    BY Entries
  <2>2. \A t \in Threads : LibP!LockBlocked(t) => t # running
    BY DEF LibP!OnePlace
  <2>. QED BY <2>1, <2>2 DEF LibP!LockBlocked
<1>. QED BY <1>1, <1>2, <1>3, <1>4

LEMMA InitKInv == Init => KInv /\ ThreadCC!Init
<1>. SUFFICES ASSUME Init PROVE KInv /\ ThreadCC!Init
  OBVIOUS
<1>1. TypeOK /\ Own
  BY EmptySeq, NoneIsNobody DEF Init, TypeOK, Own, At, Frame, Points, Ends
<1>2. ~ Doomed
  BY DEF Init, Doomed
<1>3. SeenMode = mode /\ SeenMasked = masked
  BY <1>1, <1>2 DEF SeenMode, SeenMasked, TypeOK
<1>4. SeenFrame = [t \in Threads |-> [at |-> "none", lock |-> None, cond |-> None]]
  BY DEF Init, SeenFrame, At, Frame
<1>5. LibP!Init
  BY <1>3, <1>4 DEF Init, LibP!Init, LibP!Frame
<1>. QED BY <1>1, <1>5, LibP!InitInv, SameLibrary, NoneIsNobody DEF KInv

-----------------------------------------------------------------------------
(* What of mykernel.cpp thread.cc is shown.                                *)
Alive ==
  \/ mode = "main"
  \/ mode = "threads" /\ At(running) \notin {"unlock", "delete"}

AsItIs == SeenMode = mode /\ SeenMasked = masked

LEMMA AliveIsSeen == TypeOK /\ Own /\ Alive => AsItIs
<1>. SUFFICES ASSUME TypeOK, Own, Alive PROVE AsItIs
  OBVIOUS
<1>1. ~ Doomed
  BY DEF Alive, Own, Doomed, Ends
<1>. QED BY <1>1 DEF AsItIs, SeenMode, SeenMasked, TypeOK

LEMMA AliveIsSeenNext == TypeOK' /\ Own' /\ Alive' => AsItIs'
BY AliveIsSeen, PTL

LEMMA FrameIsSeen ==
  ASSUME TypeOK, Own, NEW t \in Threads
  PROVE  /\ At(t) \notin {"unlock", "delete"} => LibP!At(t) = At(t)
         /\ At(t) \in {"unlock", "delete", "user"} =>
              SeenFrame[t] = [at |-> "user", lock |-> None, cond |-> None]
         /\ SeenFrame[t].lock = frame[t].lock
BY DEF LibP!At, SeenFrame, At, Own

LEMMA FrameSetIsSeen ==
  ASSUME TypeOK, NEW t \in Threads, NEW at \in Points, NEW l,
         frame' = [frame EXCEPT ![t] = Frame(at, l)]
  PROVE  SeenFrame' =
           [SeenFrame EXCEPT ![t] =
              LibP!Frame(IF at \in {"unlock", "delete"} THEN "user" ELSE at, l, None)]
<1>1. \A u \in Threads : frame'[u] = IF u = t THEN Frame(at, l) ELSE frame[u]
  BY DEF TypeOK
<1>. DEFINE f == [at |-> IF at \in {"unlock", "delete"} THEN "user" ELSE at, lock |-> l, cond |-> None]
<1>2. SeenFrame' = [u \in Threads |-> [at   |-> IF frame'[u].at \in {"unlock", "delete"} THEN "user" ELSE frame'[u].at,
                                       lock |-> frame'[u].lock,
                                       cond |-> None]]
  BY DEF SeenFrame, At
<1>3. SeenFrame' = [u \in Threads |-> IF u = t THEN f ELSE SeenFrame[u]]
  BY <1>1, <1>2 DEF SeenFrame, At, Frame
<1>4. SeenFrame \in [Threads -> {SeenFrame[u] : u \in Threads}]
  BY DEF SeenFrame
<1>. QED BY <1>3, <1>4 DEF LibP!Frame

-----------------------------------------------------------------------------
(* The first waiter is the one thread.cc finds.                            *)
LEMMA FirstWaiterIsLongest ==
  ASSUME TypeOK, NEW l
  PROVE  /\ FirstWaiter(l) = 0 <=> LibP!Waiters(l) = {}
         /\ LibP!Waiters(l) # {} =>
              /\ FirstWaiter(l) = LibP!LongestWaiter(l)
              /\ FirstWaiter(l) \in DOMAIN waitQueue
<1>1. Len(waitQueue) \in Nat /\ DOMAIN waitQueue = 1 .. Len(waitQueue)
  BY LenProperties DEF TypeOK
<1>. DEFINE W == LibP!Waiters(l)
<1>2. W = {i \in DOMAIN waitQueue : waitQueue[i].lock = l}
  BY DEF LibP!Waiters
<1>3. W = {} => FirstWaiter(l) = 0
  BY <1>2 DEF FirstWaiter
<1>4. ASSUME W # {}
      PROVE  FirstWaiter(l) = LibP!LongestWaiter(l) /\ FirstWaiter(l) \in DOMAIN waitQueue
  <2>1. W \subseteq Nat
    BY <1>1, <1>2
  <2>2. PICK g \in W : \A j \in W : g <= j
    BY <1>4, <2>1, LeastElement
  <2>3. LibP!LongestWaiter(l) \in W /\ \A j \in W : LibP!LongestWaiter(l) <= j
    BY <2>2 DEF LibP!LongestWaiter, LibP!First
  <2>4. \A j \in 1 .. g - 1 : waitQueue[j].lock # l
    BY <1>1, <1>2, <2>1, <2>2
  <2>5. /\ FirstWaiter(l) \in DOMAIN waitQueue
        /\ waitQueue[FirstWaiter(l)].lock = l
        /\ \A j \in 1 .. FirstWaiter(l) - 1 : waitQueue[j].lock # l
    BY <1>2, <2>2, <2>4 DEF FirstWaiter
  <2>6. FirstWaiter(l) \in W
    BY <1>2, <2>5
  <2>7. \A j \in W : FirstWaiter(l) <= j
    BY <1>1, <1>2, <2>1, <2>5, <2>6
  <2>. QED BY <2>1, <2>3, <2>5, <2>6, <2>7
<1>. QED BY <1>1, <1>3, <1>4

-----------------------------------------------------------------------------
(* The steps keep the types and what is said of a dying process.           *)
LEMMA StepOwn == TypeOK /\ Own /\ Next => TypeOK' /\ Own'
<1>. SUFFICES ASSUME TypeOK, Own, Next PROVE TypeOK' /\ Own'
  OBVIOUS
<1>. USE NoneIsNobody DEF Own, At
<1>1. ASSUME NEW t \in Threads, Libinit(t) PROVE TypeOK' /\ Own'
  BY <1>1 DEF Libinit, TypeOK, Frame, Points
<1>2. ASSUME NEW t \in Threads, Create(t) PROVE TypeOK' /\ Own'
  <2>1. readyQueue' \in Seq(Threads)
    BY <1>2, AppendProperties DEF TypeOK, Create
  <2>. QED BY <1>2, <2>1 DEF Create, Enter, TypeOK, Frame, Points
<1>3. CASE LibinitFails \/ MainReturns
  BY <1>3 DEF LibinitFails, MainReturns, Die, TypeOK, Ends
<1>4. CASE Start \/ Resume
  <2>1. /\ mode = "threads" /\ running \in Threads /\ masked' = FALSE
        /\ frame' = [frame EXCEPT ![running] = Frame("user", None)]
        /\ UNCHANGED <<inited, mode, running, readyQueue, waitQueue, locks, using, refused>>
    BY <1>4 DEF Start, Resume, Inside, TypeOK
  <2>. QED BY <2>1 DEF TypeOK, Frame, Points
<1>5. CASE StartCrashes \/ DeleteCrashes \/ DisableAborts
  <2>1. PICK end \in {"crashed", "aborted"} : mode = "threads" /\ Die(end)
    BY <1>5 DEF StartCrashes, DeleteCrashes, DisableAborts, Inside
  <2>. QED BY <2>1 DEF Die, TypeOK, Ends
<1>6. CASE FunctionReturns \/ Wait
  <2>1. PICK at \in {"delete", "unlock"} : CallMasked(at)
    BY <1>6 DEF FunctionReturns, Wait
  <2>. QED BY <2>1 DEF CallMasked, Enter, TypeOK, Frame, Points
<1>7. CASE Yield
  <2>1. /\ running \in Threads /\ mode = "threads" /\ masked' = TRUE
        /\ frame' = [frame EXCEPT ![running] = Frame("yield", None)]
        /\ At(running) = "user"
        /\ UNCHANGED <<inited, mode, waitQueue, locks, using, refused>>
    BY <1>7 DEF Yield, Enter, SwitchTo, TypeOK
  <2>2. running' \in Threads /\ readyQueue' \in Seq(Threads)
    <3>. DEFINE q == Append(readyQueue, running)
    <3>1. q \in Seq(Threads) /\ q # <<>>
      BY <2>1, AppendProperties DEF TypeOK
    <3>2. Head(q) \in Threads /\ Tail(q) \in Seq(Threads)
      BY <3>1, HeadTailProperties
    <3>. QED BY <1>7, <3>2 DEF Yield, SwitchTo
  <2>. QED BY <2>1, <2>2 DEF TypeOK, Frame, Points
<1>8. ASSUME NEW l \in Locks, LockFree(l) \/ LockRefused(l) PROVE TypeOK' /\ Own'
  <2>1. running \in Threads
    BY <1>8 DEF LockFree, LockRefused, Enter, TypeOK
  <2>. QED BY <1>8, <2>1 DEF LockFree, LockRefused, TypeOK
<1>9. ASSUME NEW l \in Locks, LockBlocks(l) PROVE TypeOK' /\ Own'
  <2>1. /\ running \in Threads /\ mode = "threads" /\ masked' = TRUE
        /\ frame' = [frame EXCEPT ![running] = Frame("lock", l)]
        /\ At(running) = "user"
        /\ UNCHANGED <<inited, mode, locks, using>>
        /\ refused' = refused \ {running}
    BY <1>9 DEF LockBlocks, Enter, SwitchTo, TypeOK
  <2>2. running' \in Threads /\ readyQueue' \in Seq(Threads)
    BY <1>9, HeadTailProperties DEF LockBlocks, SwitchTo, TypeOK
  <2>3. waitQueue' \in Seq(WaitEntry)
    <3>. DEFINE e == [ct |-> running, lock |-> l]
    <3>1. e \in WaitEntry /\ waitQueue' = Append(waitQueue, e)
      BY <1>9, <2>1 DEF WaitEntry, LockBlocks
    <3>. QED BY <3>1, AppendProperties DEF TypeOK
  <2>. QED BY <2>1, <2>2, <2>3 DEF TypeOK, Frame, Points
<1>10. ASSUME NEW l \in Locks, Unlock(l) PROVE TypeOK' /\ Own'
  <2>. DEFINE i == FirstWaiter(l)
  <2>1. /\ UNCHANGED <<inited, mode, masked, running, frame, refused>>
        /\ using' \in SUBSET Locks /\ running \in Threads
    BY <1>10 DEF Unlock, StillUsed, Enter, TypeOK
  <2>2. CASE i = 0
    <3>1. /\ locks' = [locks EXCEPT ![running] = @ \ {l}]
          /\ UNCHANGED <<readyQueue, waitQueue>>
      BY <1>10, <2>2 DEF Unlock
    <3>. QED BY <2>1, <3>1 DEF TypeOK
  <2>3. CASE i # 0
    <3>1. i \in DOMAIN waitQueue
      BY <2>3, FirstWaiterIsLongest
    <3>2. i \in 1 .. Len(waitQueue) /\ waitQueue[i].ct \in Threads
      BY <3>1, Entries
    <3>3. /\ locks' = [[locks EXCEPT ![running] = @ \ {l}] EXCEPT ![waitQueue[i].ct] = @ \cup {l}]
          /\ readyQueue' = Append(readyQueue, waitQueue[i].ct)
          /\ waitQueue' = RemoveAt(waitQueue, i)
      BY <1>10, <2>3 DEF Unlock
    <3>4. readyQueue' \in Seq(Threads) /\ waitQueue' \in Seq(WaitEntry)
      BY <3>2, <3>3, AppendProperties, RemoveAtProperties DEF TypeOK
    <3>5. locks' \in [Threads -> SUBSET Locks]
      BY <2>1, <3>2, <3>3 DEF TypeOK
    <3>. QED BY <2>1, <3>4, <3>5 DEF TypeOK
  <2>. QED BY <2>2, <2>3
<1>11. CASE UNCHANGED vars
  BY <1>11 DEF vars, TypeOK
<1>. QED
  BY <1>1, <1>2, <1>3, <1>4, <1>5, <1>6, <1>7, <1>8, <1>9, <1>10, <1>11
     DEF Next, WakeNobody, Ended

-----------------------------------------------------------------------------
(* Every step is a step of thread.cc, or none.                             *)
Seen == LibP!Next \/ UNCHANGED LibP!vars

(* A call that returns to the application without a switch.                *)
LEMMA AliveSteps ==
  ASSUME KInv, TypeOK', Own', Alive, Alive'
  PROVE  /\ SeenMode = mode /\ SeenMasked = masked
         /\ SeenMode' = mode' /\ SeenMasked' = masked'
BY AliveIsSeen, AliveIsSeenNext DEF KInv, AsItIs

LEMMA UserIsSeen ==
  ASSUME KInv, Enter
  PROVE  /\ running \in Threads /\ Alive /\ At(running) = "user" /\ mode = "threads"
         /\ LibP!Enter
         /\ SeenFrame[running] = [at |-> "user", lock |-> None, cond |-> None]
<1>1. running \in Threads /\ Alive /\ At(running) = "user" /\ mode = "threads" /\ ~masked
  BY DEF KInv, TypeOK, Enter, Alive
<1>2. SeenMode = "threads" /\ SeenMasked = masked
  BY <1>1, AliveIsSeen DEF AsItIs, KInv
<1>3. SeenFrame[running] = [at |-> "user", lock |-> None, cond |-> None]
  BY <1>1, FrameIsSeen DEF KInv
<1>. QED BY <1>1, <1>2, <1>3 DEF LibP!Enter, LibP!At

LEMMA SameFrameIsSeen == UNCHANGED frame => UNCHANGED SeenFrame
BY DEF SeenFrame, At

LEMMA BeginIsSeen ==
  ASSUME KInv, TypeOK', Own',
         \/ \E t \in Threads : Libinit(t) \/ Create(t)
         \/ LibinitFails \/ MainReturns
  PROVE  Seen
<1>1. ASSUME NEW t \in Threads, Libinit(t) PROVE LibP!Libinit(t)
  <2>1. Alive /\ Alive'
    BY <1>1 DEF Libinit, Alive, At, Frame, KInv, TypeOK
  <2>2. SeenFrame' = [SeenFrame EXCEPT ![t] = LibP!Frame("start", None, None)]
    BY <1>1, FrameSetIsSeen DEF Libinit, KInv, Points
  <2>. QED BY <1>1, <2>1, <2>2, AliveSteps DEF Libinit, LibP!Libinit
<1>2. ASSUME NEW t \in Threads, Create(t) PROVE LibP!Create(t)
  <2>1. Enter /\ At(t) = "none"
    BY <1>2 DEF Create
  <2>2. Alive /\ LibP!Enter /\ running # t
    BY <2>1, UserIsSeen
  <2>3. Alive'
    BY <1>2, <2>1, <2>2, UserIsSeen DEF Create, Alive, At, Frame, KInv, TypeOK
  <2>4. SeenFrame' = [SeenFrame EXCEPT ![t] = LibP!Frame("start", None, None)]
    BY <1>2, FrameSetIsSeen DEF Create, KInv, Points
  <2>5. LibP!At(t) = "none"
    BY <2>1, FrameIsSeen DEF KInv
  <2>. QED BY <1>2, <2>2, <2>3, <2>4, <2>5, AliveSteps DEF Create, LibP!Create
<1>3. ASSUME LibinitFails PROVE LibP!LibinitFails
  <2>1. Alive /\ Alive'
    BY <1>3 DEF LibinitFails, Alive
  <2>. QED BY <1>3, <2>1, AliveSteps, SameFrameIsSeen DEF LibinitFails, LibP!LibinitFails
<1>4. ASSUME MainReturns PROVE LibP!MainReturns
  <2>1. Alive /\ ~ Doomed'
    BY <1>4 DEF MainReturns, Die, Alive, KInv, Own, Doomed
  <2>2. SeenMode = "main" /\ SeenMasked = masked /\ SeenMode' = "exited" /\ SeenMasked' = masked'
    BY <1>4, <2>1, AliveIsSeen DEF AsItIs, MainReturns, Die, SeenMode, SeenMasked, KInv, TypeOK
  <2>. QED BY <1>4, <2>2, SameFrameIsSeen DEF MainReturns, Die, LibP!MainReturns
<1>. QED BY <1>1, <1>2, <1>3, <1>4 DEF Seen, LibP!Next

LEMMA DeathIsSeen ==
  ASSUME KInv, TypeOK', Own',
         \/ StartCrashes \/ DeleteCrashes \/ DisableAborts
         \/ FunctionReturns \/ Wait \/ WakeNobody \/ Ended
  PROVE  Seen
<1>1. ASSUME StartCrashes \/ DeleteCrashes \/ DisableAborts PROVE UNCHANGED LibP!vars
  <2>1. PICK end \in {"crashed", "aborted"} : Die(end)
    BY <1>1 DEF StartCrashes, DeleteCrashes, DisableAborts
  <2>2. /\ mode = "threads" /\ masked /\ running \in Threads
        /\ At(running) \in {"start", "delete", "unlock"}
    BY <1>1 DEF StartCrashes, DeleteCrashes, DisableAborts, Inside, KInv, TypeOK
  <2>3. UNCHANGED <<inited, masked, running, readyQueue, waitQueue, locks, using, frame>>
    BY <2>1 DEF Die
  <2>4. mode' \in Ends /\ Doomed'
    BY <2>1, <2>2, <2>3, NoneIsNobody DEF Die, Doomed, Ends
  <2>5. SeenMode = "threads" /\ SeenMode' = "threads" /\ SeenMasked' = SeenMasked
    BY <2>2, <2>3, <2>4, NoneIsNobody DEF SeenMode, SeenMasked, Doomed, Ends, At, KInv, TypeOK
  <2>. QED BY <2>3, <2>5, SameFrameIsSeen DEF LibP!vars
<1>2. ASSUME FunctionReturns \/ Wait PROVE UNCHANGED LibP!vars
  <2>1. PICK at \in {"delete", "unlock"} : CallMasked(at)
    BY <1>2 DEF FunctionReturns, Wait
  <2>2. /\ Enter /\ masked'
        /\ frame' = [frame EXCEPT ![running] = Frame(at, None)]
        /\ UNCHANGED <<inited, mode, running, readyQueue, waitQueue, locks, using>>
    BY <2>1 DEF CallMasked
  <2>3. /\ running \in Threads /\ Alive /\ mode = "threads"
        /\ SeenFrame[running] = [at |-> "user", lock |-> None, cond |-> None]
    BY <2>2, UserIsSeen
  <2>4. SeenFrame' = SeenFrame
    <3>1. SeenFrame' = [SeenFrame EXCEPT ![running] = LibP!Frame("user", None, None)]
      BY <2>2, <2>3, FrameSetIsSeen DEF KInv, Points
    <3>. QED BY <2>3, <3>1 DEF LibP!Frame, SeenFrame
  <2>5. SeenMode = "threads" /\ SeenMasked = FALSE
    BY <2>2, <2>3, AliveIsSeen DEF AsItIs, KInv, Enter, TypeOK
  <2>6. At(running)' = at
    BY <2>2, <2>3 DEF At, Frame, KInv, TypeOK
  <2>7. SeenMode' = "threads" /\ SeenMasked' = FALSE
    BY <2>2, <2>3, <2>6, NoneIsNobody DEF SeenMode, SeenMasked, Doomed, At
  <2>. QED BY <2>2, <2>4, <2>5, <2>7 DEF LibP!vars
<1>3. ASSUME WakeNobody \/ Ended PROVE UNCHANGED LibP!vars
  BY <1>3 DEF WakeNobody, Ended, vars, LibP!vars, SeenMode, SeenMasked, SeenFrame, Doomed, At
<1>. QED BY <1>1, <1>2, <1>3 DEF Seen

LEMMA RunIsSeen ==
  ASSUME KInv, TypeOK', Own', Start \/ Yield \/ Resume
  PROVE  Seen
<1>. USE DEF At, LibP!Inside, LibP!Return, LibP!UserFrame, LibP!Dispatch
<1>1. ASSUME NEW at \in {"start", "yield", "lock"}, Inside(at),
             masked' = FALSE, frame' = [frame EXCEPT ![running] = Frame("user", None)],
             UNCHANGED <<inited, mode, running, readyQueue, waitQueue, locks, using, refused>>
      PROVE  /\ LibP!Inside(at) /\ LibP!Return
             /\ UNCHANGED <<SeenMode, inited, running, readyQueue, waitQueue, locks, using>>
             /\ running \in Threads
  <2>1. running \in Threads /\ mode = "threads" /\ masked /\ At(running) = at
    BY <1>1 DEF Inside, KInv, TypeOK
  <2>2. Alive /\ Alive'
    BY <1>1, <2>1 DEF Alive, Frame, KInv, TypeOK
  <2>3. LibP!At(running) = at
    BY <2>1, FrameIsSeen DEF KInv
  <2>4. SeenFrame' = [SeenFrame EXCEPT ![running] = LibP!Frame("user", None, None)]
    BY <1>1, <2>1, FrameSetIsSeen DEF KInv, Points
  <2>. QED BY <1>1, <2>1, <2>2, <2>3, <2>4, AliveSteps
<1>2. ASSUME Start PROVE LibP!Start
  <2>1. /\ LibP!Inside("start") /\ LibP!Return
        /\ UNCHANGED <<SeenMode, inited, running, readyQueue, waitQueue, locks, using>>
    BY <1>1, <1>2 DEF Start
  <2>. QED BY <2>1 DEF LibP!Start
<1>3. ASSUME Resume, Inside("yield") PROVE LibP!ResumeYield
  <2>1. /\ LibP!Inside("yield") /\ LibP!Return
        /\ UNCHANGED <<SeenMode, inited, running, readyQueue, waitQueue, locks, using>>
    BY <1>1, <1>3 DEF Resume
  <2>. QED BY <2>1 DEF LibP!ResumeYield
<1>4. ASSUME Resume, Inside("lock") PROVE LibP!ResumeLock
  <2>1. /\ LibP!Inside("lock") /\ LibP!Return /\ running \in Threads
        /\ UNCHANGED <<SeenMode, inited, running, readyQueue, waitQueue, locks, using>>
    BY <1>1, <1>4 DEF Resume
  <2>. DEFINE l == frame[running].lock
  <2>2. SeenFrame[running].lock = l
    BY <2>1, FrameIsSeen DEF KInv
  <2>3. l \in locks[running] /\ l \in using /\ locks \in [Threads -> SUBSET Locks]
    BY <1>4, <2>1, KernelFacts DEF Inside, KInv, TypeOK
  <2>4. locks' = [locks EXCEPT ![running] = @ \cup {l}] /\ using' = using \cup {l}
    BY <2>1, <2>3
  <2>. QED BY <2>1, <2>2, <2>3, <2>4 DEF LibP!ResumeLock, LibP!LockLoop
<1>5. ASSUME Yield PROVE LibP!Yield
  <2>1. /\ Enter /\ readyQueue # <<>> /\ mode' = mode /\ masked'
        /\ frame' = [frame EXCEPT ![running] = Frame("yield", None)]
        /\ running' = Head(Append(readyQueue, running))
        /\ readyQueue' = Tail(Append(readyQueue, running))
        /\ UNCHANGED <<inited, mode, waitQueue, locks, using, refused>>
    BY <1>5 DEF Yield, SwitchTo, KInv, TypeOK
  <2>2. running \in Threads /\ Alive /\ mode = "threads" /\ LibP!Enter
    BY <2>1, UserIsSeen
  <2>3. At(running)' \notin {"unlock", "delete"}
    <3>1. running' \in Threads
      BY <2>1, <2>2 DEF TypeOK
    <3>2. \A u \in Threads : frame'[u] = IF u = running THEN Frame("yield", None) ELSE frame[u]
      BY <2>1 DEF KInv, TypeOK
    <3>. QED BY <2>1, <2>2, <3>1, <3>2, UserIsSeen DEF Frame, KInv, Own
  <2>4. Alive'
    BY <2>1, <2>2, <2>3 DEF Alive
  <2>5. SeenFrame' = [SeenFrame EXCEPT ![running] = LibP!Frame("yield", None, None)]
    BY <2>1, <2>2, FrameSetIsSeen DEF KInv, Points
  <2>6. Append(readyQueue, running) # <<>>
    BY <2>2, AppendProperties DEF KInv, TypeOK
  <2>7. SeenMode' = SeenMode /\ SeenMasked' = TRUE
    BY <2>1, <2>2, <2>4, AliveSteps DEF TypeOK
  <2>. QED BY <2>1, <2>2, <2>5, <2>6, <2>7 DEF LibP!Yield
<1>. QED BY <1>2, <1>3, <1>4, <1>5 DEF Seen, LibP!Next, LibP!Resume, Resume

LEMMA LockIsSeen ==
  ASSUME KInv, TypeOK', Own', NEW l \in Locks, LockFree(l) \/ LockBlocks(l) \/ LockRefused(l)
  PROVE  LibP!Lock(l) \/ UNCHANGED LibP!vars
<1>1. /\ Enter /\ running \in Threads /\ Alive /\ mode = "threads" /\ LibP!Enter
      /\ At(running) = "user"
      /\ SeenFrame[running] = [at |-> "user", lock |-> None, cond |-> None]
  <2>1. Enter
    BY DEF LockFree, LockBlocks, LockRefused
  <2>. QED BY <2>1, UserIsSeen
<1>2. UNION {locks[t] : t \in Threads} \subseteq using
  BY KernelFacts
<1>3. ASSUME LockFree(l) PROVE LibP!Lock(l)
  <2>1. l \notin using /\ UNCHANGED <<inited, mode, masked, running, readyQueue, waitQueue, frame>>
    BY <1>3 DEF LockFree
  <2>2. Alive'
    BY <1>1, <2>1 DEF Alive, At
  <2>3. l \notin locks[running]
    BY <1>1, <1>2, <2>1
  <2>4. SeenFrame' = [SeenFrame EXCEPT ![running] = LibP!UserFrame]
    BY <1>1, <2>1, SameFrameIsSeen DEF LibP!UserFrame, LibP!Frame, SeenFrame
  <2>5. SeenMode' = SeenMode /\ SeenMasked' = FALSE
    BY <1>1, <2>1, <2>2, AliveSteps DEF Enter, KInv, TypeOK
  <2>. QED BY <1>1, <1>3, <2>1, <2>3, <2>4, <2>5 DEF LockFree, LibP!Lock, LibP!LockLoop, LibP!Return
<1>4. ASSUME LockBlocks(l) PROVE LibP!Lock(l)
  <2>1. /\ l \in using \ locks[running] /\ readyQueue # <<>>
        /\ waitQueue' = Append(waitQueue, [ct |-> running, lock |-> l])
        /\ frame' = [frame EXCEPT ![running] = Frame("lock", l)]
        /\ running' = Head(readyQueue) /\ readyQueue' = Tail(readyQueue) /\ masked' = TRUE
        /\ UNCHANGED <<inited, mode, locks, using>>
    BY <1>4 DEF LockBlocks, SwitchTo
  <2>2. At(running)' \notin {"unlock", "delete"}
    <3>1. running' \in Threads
      BY <1>1, <2>1 DEF TypeOK
    <3>2. \A u \in Threads : frame'[u] = IF u = running THEN Frame("lock", l) ELSE frame[u]
      BY <2>1 DEF KInv, TypeOK
    <3>. QED BY <1>1, <3>1, <3>2 DEF At, Frame, KInv, Own
  <2>3. Alive'
    BY <1>1, <2>1, <2>2 DEF Alive
  <2>4. SeenFrame' = [SeenFrame EXCEPT ![running] = LibP!Frame("lock", l, None)]
    BY <1>1, <2>1, FrameSetIsSeen DEF KInv, Points
  <2>5. SeenMode' = SeenMode /\ SeenMasked' = TRUE
    BY <1>1, <2>1, <2>3, AliveSteps
  <2>. QED BY <1>1, <2>1, <2>4, <2>5 DEF LibP!Lock, LibP!LockLoop, LibP!Dispatch
<1>5. ASSUME LockRefused(l) PROVE UNCHANGED LibP!vars
  <2>1. UNCHANGED <<inited, mode, masked, running, readyQueue, waitQueue, locks, using, frame>>
    BY <1>5 DEF LockRefused
  <2>. QED BY <2>1 DEF LibP!vars, SeenMode, SeenMasked, SeenFrame, Doomed, At
<1>. QED BY <1>3, <1>4, <1>5

LEMMA UnlockIsSeen ==
  ASSUME KInv, TypeOK', Own', NEW l \in Locks, Unlock(l)
  PROVE  LibP!Unlock(l)
<1>1. /\ Enter /\ running \in Threads /\ Alive /\ mode = "threads" /\ LibP!Enter
      /\ l \in locks[running] /\ using' = StillUsed(l)
      /\ UNCHANGED <<inited, mode, masked, running, frame>>
  <2>1. Enter
    BY DEF Unlock
  <2>. QED BY <2>1, UserIsSeen DEF Unlock
<1>2. Alive'
  BY <1>1 DEF Alive, At
<1>3. UNCHANGED <<SeenMode, SeenMasked, SeenFrame>>
  BY <1>1, <1>2, AliveSteps, SameFrameIsSeen
<1>. DEFINE i == FirstWaiter(l)
<1>4. TypeOK
  BY DEF KInv
<1>5. CASE i = 0
  <2>1. LibP!Waiters(l) = {}
    BY <1>4, <1>5, FirstWaiterIsLongest
  <2>2. /\ locks' = [locks EXCEPT ![running] = @ \ {l}]
        /\ UNCHANGED <<readyQueue, waitQueue>> /\ using' = using \ {l}
    BY <1>1, <1>5 DEF Unlock, StillUsed
  <2>3. readyQueue \o <<>> = readyQueue
    BY <1>4, ConcatEmptySeq DEF TypeOK
  <2>. QED BY <1>1, <1>3, <2>1, <2>2, <2>3
           DEF LibP!Unlock, LibP!Release, LibP!Delivered, LibP!Erased, LibP!StillUsed, LibP!NotWaiting, LibP!Heir
<1>6. CASE i # 0
  <2>1. LibP!Waiters(l) # {} /\ i = LibP!LongestWaiter(l) /\ i \in DOMAIN waitQueue
    BY <1>4, <1>6, FirstWaiterIsLongest
  <2>2. /\ locks' = [[locks EXCEPT ![running] = @ \ {l}] EXCEPT ![waitQueue[i].ct] = @ \cup {l}]
        /\ readyQueue' = Append(readyQueue, waitQueue[i].ct)
        /\ waitQueue' = RemoveAt(waitQueue, i) /\ using' = using
    BY <1>1, <1>6 DEF Unlock, StillUsed
  <2>3. Append(readyQueue, waitQueue[i].ct) = readyQueue \o <<waitQueue[i].ct>>
    BY <1>4, <2>1, Entries, AppendIsConcat DEF TypeOK
  <2>4. RemoveAt(waitQueue, i) = LibP!RemoveAt(waitQueue, i)
    BY DEF RemoveAt, LibP!RemoveAt
  <2>. HIDE DEF i
  <2>. QED BY <1>1, <1>3, <2>1, <2>2, <2>3, <2>4
           DEF LibP!Unlock, LibP!Release, LibP!Delivered, LibP!Erased, LibP!StillUsed, LibP!NotWaiting, LibP!Heir
<1>. QED BY <1>5, <1>6

LEMMA NextIsSeen == KInv /\ [Next]_vars => KInv' /\ Seen
<1>. SUFFICES ASSUME KInv, [Next]_vars PROVE KInv' /\ Seen
  OBVIOUS
<1>1. CASE UNCHANGED vars
  <2>1. UNCHANGED LibP!vars
    BY <1>1 DEF vars, LibP!vars, SeenMode, SeenMasked, SeenFrame, Doomed, At
  <2>2. TypeOK' /\ Own'
    BY <1>1 DEF vars, KInv, TypeOK, Own, At
  <2>. QED BY <2>1, <2>2, LibP!NextInv, NoneIsNobody DEF KInv, Seen
<1>2. CASE Next
  <2>1. TypeOK' /\ Own'
    BY <1>2, StepOwn DEF KInv
  <2>2. ASSUME NEW l \in Locks, LockFree(l) \/ LockBlocks(l) \/ LockRefused(l) \/ Unlock(l) PROVE Seen
    BY <2>1, <2>2, LockIsSeen, UnlockIsSeen DEF Seen, LibP!Next
  <2>3. Seen
    BY <1>2, <2>1, <2>2, BeginIsSeen, DeathIsSeen, RunIsSeen DEF Next
  <2>. QED BY <2>1, <2>3, LibP!NextInv, NoneIsNobody DEF KInv, Seen
<1>. QED BY <1>1, <1>2

-----------------------------------------------------------------------------
(* The theorems.                                                           *)

(* The invariant is inductive: it holds in every reachable state.          *)
THEOREM KernelInvariance == Spec => []KInv
BY InitKInv, NextIsSeen, PTL DEF Spec

(* Every variable of mykernel.cpp keeps its type, and a thread runs        *)
(* whenever the threads' code executes.                                    *)
THEOREM KernelTypes == Spec => []TypeOK
<1>1. KInv => TypeOK
  BY DEF KInv
<1>. QED BY <1>1, KernelInvariance, PTL

(* Whatever an unfilled context does, and whether or not the process dies  *)
(* of an assertion, mykernel.cpp does nothing that thread.cc may not do.   *)
THEOREM KernelIsALibrary == Spec => ImplementsThreadLib
<1>1. KInv /\ [Next]_vars => [ThreadCC!Next]_ThreadCC!vars
  <2>1. UNCHANGED LibP!vars => UNCHANGED ThreadCC!vars
    BY DEF LibP!vars, ThreadCC!vars, SeenMode, SeenMasked, SeenFrame
  <2>. QED BY <2>1, NextIsSeen, SameLibrary DEF Seen
<1>. QED BY <1>1, InitKInv, KernelInvariance, PTL DEF Spec, ImplementsThreadLib, ThreadCC!Spec

(* No two threads of mykernel.cpp ever have the same lock, because no two  *)
(* threads of thread.cc do.                                                *)
THEOREM KernelLocksAreSafe == Spec => [](\A t, u \in Threads : t # u => locks[t] \cap locks[u] = {})
<1>1. KInv => \A t, u \in Threads : t # u => locks[t] \cap locks[u] = {}
  BY DEF KInv, LibP!Inv, LibP!MutualExclusion
<1>. QED BY <1>1, KernelInvariance, PTL

(* thread_lock returns -1 for want of another thread only when every other *)
(* thread is blocked in thread_lock.                                       *)
THEOREM RefusalIsDeadlock == Spec => RefusedOnlyInDeadlock
<1>. DEFINE Stuck(t) == \A u \in Threads \ {t} :
                          At(u) # "none" => \E i \in DOMAIN waitQueue : waitQueue[i].ct = u
            Step == \A t \in refused' \ refused : Stuck(t)
<1>1. ASSUME KInv, [Next]_vars PROVE Step
  <2>. SUFFICES ASSUME NEW t \in refused' \ refused, NEW u \in Threads \ {t}, At(u) # "none"
                PROVE  \E i \in DOMAIN waitQueue : waitQueue[i].ct = u
    OBVIOUS
  <2>1. PICK l \in Locks : LockRefused(l)
    BY <1>1 DEF Next, Libinit, LibinitFails, MainReturns, Create, Start, StartCrashes,
                FunctionReturns, Wait, CallMasked, DeleteCrashes, DisableAborts, Yield, LockFree,
                LockBlocks, Resume, Unlock, WakeNobody, Ended, Die, vars
  <2>2. t = running /\ readyQueue = <<>>
    BY <2>1 DEF LockRefused, NoOtherThread
  <2>. QED BY <1>1, <2>2, KernelFacts
<1>2. KInv /\ [Next]_vars => [Step]_vars
  BY <1>1
<1>. QED BY <1>2, KernelInvariance, PTL DEF Spec, RefusedOnlyInDeadlock
=============================================================================
