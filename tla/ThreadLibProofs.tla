-------------------------- MODULE ThreadLibProofs --------------------------
(***************************************************************************)
(* Theorems about ThreadLib for any sets of threads, locks and conditions: *)
(* first its inductive invariant and what follows from it, then that the   *)
(* library implements LockMonitor under the mapping of ThreadLibRefinement.*)
(***************************************************************************)
EXTENDS ThreadLibRefinement, SequenceFacts

-----------------------------------------------------------------------------
(* The search from the front of a queue finds an entry, the oldest one.    *)
LEMMA FirstIsLeast ==
  ASSUME NEW S, S \subseteq Nat, S # {}
  PROVE  /\ First(S) \in S
         /\ \A j \in S : First(S) <= j
BY LeastElement DEF First

-----------------------------------------------------------------------------
(* The inductive invariant: the invariants of the runs, and that nothing   *)
(* has happened before thread_libinit.                                     *)
BeforeThreads ==
  mode = "main" =>
    /\ ~masked
    /\ runnable = <<>> /\ waiting = <<>> /\ cv = <<>>
    /\ \A t \in Threads : At(t) = "none"

Inv ==
  /\ TypeOK
  /\ BeforeThreads
  /\ MutualExclusion
  /\ LockAccounting
  /\ OnePlace
  /\ NoThreadLost
  /\ WaitsForUsedLock
  /\ HandoffDelivered
  /\ QueuesMatchFrames
  /\ MaskDiscipline
  /\ ExitsOnlyWhenStuck

LEMMA InitInv == Init => Inv
<1>. SUFFICES ASSUME Init PROVE Inv
  OBVIOUS
<1>. USE DEF Init, At, Frame
<1>1. TypeOK
  BY EmptySeq DEF TypeOK, Frames, Points
<1>2. BeforeThreads /\ MutualExclusion /\ LockAccounting
  BY DEF BeforeThreads, MutualExclusion, LockAccounting
<1>3. OnePlace /\ NoThreadLost
  BY DEF OnePlace, NoThreadLost, Runnable, LockBlocked, CvBlocked
<1>4. WaitsForUsedLock /\ HandoffDelivered /\ QueuesMatchFrames
  BY DEF WaitsForUsedLock, HandoffDelivered, QueuesMatchFrames, LockBlocked
<1>5. MaskDiscipline /\ ExitsOnlyWhenStuck
  BY DEF MaskDiscipline, ExitsOnlyWhenStuck
<1>. QED
  BY <1>1, <1>2, <1>3, <1>4, <1>5 DEF Inv

-----------------------------------------------------------------------------
(* What the shared pieces of the calls do.                                 *)

LEMMA EntryTypes ==
  ASSUME TypeOK
  PROVE  /\ \A i \in DOMAIN runnable : runnable[i] \in Threads
         /\ \A i \in DOMAIN waiting : waiting[i].ct \in Threads /\ waiting[i].lock \in Locks
         /\ \A i \in DOMAIN cv : /\ cv[i].ct \in Threads
                                 /\ cv[i].lock \in Locks /\ cv[i].cond \in Conds
<1>1. \A i \in DOMAIN waiting : waiting[i] \in LockEntry
  BY LenProperties, ElementOfSeq DEF TypeOK
<1>2. \A i \in DOMAIN cv : cv[i] \in CvEntry
  BY LenProperties, ElementOfSeq DEF TypeOK
<1>3. \A i \in DOMAIN runnable : runnable[i] \in Threads
  BY LenProperties, ElementOfSeq DEF TypeOK
<1>. QED
  BY <1>1, <1>2, <1>3 DEF LockEntry, CvEntry

LEMMA DispatchFacts ==
  ASSUME NEW q \in Seq(Threads), Dispatch(q)
  PROVE  /\ 1 \in DOMAIN q /\ running' = q[1] /\ running' \in Threads
         /\ runnable' \in Seq(Threads) /\ Without(runnable', q, 1)
         /\ masked'
BY TailIsWithout DEF Dispatch

LEMMA YieldInv == ASSUME Inv, Yield PROVE Inv'
<1>. USE DEF At, Frame
<1>. DEFINE q == Append(runnable, running)
<1>1. /\ TypeOK /\ OnePlace /\ mode = "threads" /\ running \in Threads
      /\ At(running) = "user"
      /\ frame' = [frame EXCEPT ![running] = Frame("yield", None, None)]
      /\ UNCHANGED <<inited, mode, waiting, cv, locks, using, leaked>>
  BY DEF Inv, TypeOK, Yield, Enter
<1>2. /\ q \in Seq(Threads) /\ With(q, runnable, running)
      /\ 1 \in DOMAIN q /\ running' = q[1] /\ running' \in Threads
      /\ runnable' \in Seq(Threads) /\ Without(runnable', q, 1)
      /\ masked'
  BY <1>1, AppendIsWith, DispatchFacts DEF TypeOK, Yield
<1>. HIDE DEF q
<1>3. TypeOK'
  BY <1>1, <1>2 DEF TypeOK, Frames, Points
<1>4. (BeforeThreads /\ MutualExclusion /\ LockAccounting)'
  BY <1>1 DEF Inv, BeforeThreads, MutualExclusion, LockAccounting
<1>5. OnePlace'
  BY <1>1, <1>2 DEF With, Without, OnePlace, Runnable, LockBlocked, CvBlocked
<1>6. NoThreadLost'
  BY <1>1, <1>2 DEF With, Without, Inv, NoThreadLost, Runnable, LockBlocked, CvBlocked
<1>7. (WaitsForUsedLock /\ HandoffDelivered)'
  BY <1>1 DEF Inv, TypeOK, WaitsForUsedLock, HandoffDelivered, LockBlocked
<1>8. QueuesMatchFrames'
  BY <1>1, <1>2 DEF With, Without, Inv, TypeOK, QueuesMatchFrames, Suspended, OnePlace, LockBlocked, CvBlocked
<1>9. MaskDiscipline'
  BY <1>1, <1>2 DEF With, Inv, TypeOK, MaskDiscipline, QueuesMatchFrames, Suspended
<1>10. ExitsOnlyWhenStuck'
  BY <1>1 DEF ExitsOnlyWhenStuck
<1>. QED
  BY <1>3, <1>4, <1>5, <1>6, <1>7, <1>8, <1>9, <1>10 DEF Inv

(* A call returns and nothing else changes: thread_start, the resumed      *)
(* thread_yield, the end of thread_broadcast.                              *)
LEMMA ReturnInv ==
  ASSUME Inv, mode = "threads", Return,
         UNCHANGED <<inited, mode, running, runnable, waiting, cv, locks,
                     using, leaked>>
  PROVE  Inv'
<1>. USE DEF At, Frame, Return, UserFrame
<1>1. TypeOK /\ OnePlace /\ running \in Threads
  BY DEF Inv, TypeOK
<1>2. TypeOK'
  BY <1>1 DEF TypeOK, Frames, Points
<1>3. (BeforeThreads /\ MutualExclusion /\ LockAccounting)'
  BY DEF Inv, BeforeThreads, MutualExclusion, LockAccounting
<1>4. (OnePlace /\ NoThreadLost)'
  BY <1>1 DEF Inv, TypeOK, OnePlace, NoThreadLost, Runnable, LockBlocked, CvBlocked
<1>5. (WaitsForUsedLock /\ HandoffDelivered)'
  BY <1>1 DEF Inv, TypeOK, WaitsForUsedLock, HandoffDelivered, LockBlocked
<1>6. QueuesMatchFrames'
  BY <1>1 DEF Inv, TypeOK, QueuesMatchFrames, OnePlace, Runnable, LockBlocked, CvBlocked
<1>7. (MaskDiscipline /\ ExitsOnlyWhenStuck)'
  BY <1>1 DEF Inv, TypeOK, MaskDiscipline, ExitsOnlyWhenStuck
<1>. QED
  BY <1>2, <1>3, <1>4, <1>5, <1>6, <1>7 DEF Inv

(* Any pass through the loop of thread_lock or thread_lock_unatomic.       *)
LEMMA LockLoopInv ==
  ASSUME Inv, mode = "threads",
         NEW l \in Locks, NEW at \in {"lock", "relock"},
         LockLoop(l, at), UNCHANGED <<inited, cv, leaked>>
  PROVE  Inv'
<1>. USE DEF At, Frame
<1>1. TypeOK /\ OnePlace /\ running \in Threads
  BY DEF Inv, TypeOK
<1>2. CASE /\ l \notin using \/ l \in locks[running]
           /\ locks' = [locks EXCEPT ![running] = @ \cup {l}]
           /\ using' = using \cup {l}
           /\ Return
           /\ UNCHANGED <<mode, running, runnable, waiting>>
  <2>1. TypeOK'
    BY <1>1, <1>2 DEF TypeOK, Frames, Points, Return, UserFrame
  <2>2. (BeforeThreads /\ MutualExclusion)'
    BY <1>1, <1>2 DEF Inv, TypeOK, BeforeThreads, MutualExclusion, LockAccounting, Return, UserFrame
  <2>3. LockAccounting'
    BY <1>1, <1>2 DEF Inv, TypeOK, LockAccounting
  <2>4. (OnePlace /\ NoThreadLost)'
    BY <1>1, <1>2 DEF Inv, TypeOK, OnePlace, NoThreadLost, Runnable, LockBlocked, CvBlocked, Return, UserFrame
  <2>5. (WaitsForUsedLock /\ HandoffDelivered)'
    BY <1>1, <1>2 DEF Inv, TypeOK, WaitsForUsedLock, HandoffDelivered, OnePlace, LockBlocked, Return, UserFrame
  <2>6. QueuesMatchFrames'
    BY <1>1, <1>2 DEF Inv, TypeOK, QueuesMatchFrames, OnePlace, Runnable, LockBlocked, CvBlocked, Return, UserFrame
  <2>7. (MaskDiscipline /\ ExitsOnlyWhenStuck)'
    BY <1>1, <1>2 DEF Inv, TypeOK, MaskDiscipline, ExitsOnlyWhenStuck, Return, UserFrame
  <2>. QED
    BY <2>1, <2>2, <2>3, <2>4, <2>5, <2>6, <2>7 DEF Inv
<1>3. CASE /\ l \in using \ locks[running]
           /\ waiting' = Append(waiting, [ct |-> running, lock |-> l])
           /\ frame' = [frame EXCEPT ![running] = Frame(at, l, None)]
           /\ Dispatch(runnable)
           /\ UNCHANGED <<mode, locks, using>>
  <2>. DEFINE e == [ct |-> running, lock |-> l]
  <2>1. /\ e.ct = running /\ e.lock = l
        /\ waiting' \in Seq(LockEntry) /\ With(waiting', waiting, e)
    BY <1>1, <1>3, AppendIsWith DEF TypeOK, LockEntry
  <2>2. /\ 1 \in DOMAIN runnable /\ running' = runnable[1] /\ running' \in Threads
        /\ runnable' \in Seq(Threads) /\ Without(runnable', runnable, 1)
        /\ masked'
    BY <1>1, <1>3, DispatchFacts DEF TypeOK
  <2>. HIDE DEF e
  <2>3. TypeOK'
    BY <1>1, <1>3, <2>1, <2>2 DEF TypeOK, Frames, Points
  <2>4. (BeforeThreads /\ MutualExclusion /\ LockAccounting)'
    BY <1>1, <1>3 DEF Inv, BeforeThreads, MutualExclusion, LockAccounting
  <2>5. OnePlace'
    BY <1>1, <1>3, <2>1, <2>2 DEF With, Without, OnePlace, Runnable, LockBlocked, CvBlocked
  <2>6. NoThreadLost'
    <3>1. \E i \in DOMAIN waiting' : waiting'[i].ct = running
      BY <2>1 DEF With
    <3>2. \A u \in Threads :
            /\ Runnable(u) => u = running' \/ Runnable(u)'
            /\ LockBlocked(u) => LockBlocked(u)'
            /\ CvBlocked(u) => CvBlocked(u)'
      BY <2>1, <2>2 DEF With, Without, Runnable, LockBlocked, CvBlocked
    <3>3. \A u \in Threads : u # running => At(u)' = At(u)
      BY <1>1, <1>3 DEF TypeOK
    <3>. QED
      BY <1>1, <3>1, <3>2, <3>3 DEF Inv, NoThreadLost, LockBlocked
  <2>7. WaitsForUsedLock'
    BY <1>1, <1>3, <2>1, <2>2 DEF With, Inv, TypeOK, WaitsForUsedLock
  <2>8. HandoffDelivered'
    BY <1>1, <1>3, <2>1, <2>2 DEF With, Inv, TypeOK, HandoffDelivered, LockBlocked
  <2>9. QueuesMatchFrames'
    BY <1>1, <1>3, <2>1, <2>2 DEF With, Without, Inv, TypeOK, QueuesMatchFrames, OnePlace, Runnable, LockBlocked, CvBlocked
  <2>10. MaskDiscipline'
    BY <1>1, <1>3, <2>1, <2>2 DEF With, Inv, TypeOK, MaskDiscipline, QueuesMatchFrames, OnePlace, Runnable, Suspended
  <2>11. ExitsOnlyWhenStuck'
    BY <1>3 DEF ExitsOnlyWhenStuck
  <2>. QED
    BY <2>3, <2>4, <2>5, <2>6, <2>7, <2>8, <2>9, <2>10, <2>11 DEF Inv
<1>4. CASE /\ runnable = <<>>
           /\ EndProcess
           /\ UNCHANGED <<running, runnable, waiting, locks, using, frame>>
  <2>1. (TypeOK /\ BeforeThreads /\ MutualExclusion /\ LockAccounting)'
    BY <1>1, <1>4 DEF EndProcess, Inv, TypeOK, BeforeThreads, MutualExclusion, LockAccounting
  <2>2. (OnePlace /\ NoThreadLost /\ WaitsForUsedLock /\ HandoffDelivered)'
    BY <1>4 DEF Inv, OnePlace, NoThreadLost, WaitsForUsedLock, HandoffDelivered, Runnable, LockBlocked, CvBlocked
  <2>3. (QueuesMatchFrames /\ MaskDiscipline /\ ExitsOnlyWhenStuck)'
    BY <1>4 DEF EndProcess, Inv, QueuesMatchFrames, MaskDiscipline, ExitsOnlyWhenStuck
  <2>. QED BY <2>1, <2>2, <2>3 DEF Inv
<1>. QED
  BY <1>2, <1>3, <1>4 DEF LockLoop

(* The run queue after a release: the heir, if there is one, is at its end. *)
LEMMA ReleaseFacts ==
  ASSUME Inv, mode = "threads", At(running) = "user",
         NEW l \in Locks, l \in locks[running], Release(l)
  PROVE  /\ locks' \in [Threads -> SUBSET Locks] /\ using' \in SUBSET Locks
         /\ waiting' \in Seq(LockEntry)
         /\ runnable \o Heir(l) \in Seq(Threads)
         /\ \/ /\ Waiters(l) = {}
               /\ waiting' = waiting /\ runnable \o Heir(l) = runnable
               /\ locks' = [locks EXCEPT ![running] = @ \ {l}]
               /\ using' = using \ {l}
            \/ \E i \in DOMAIN waiting :
                 /\ i = First(Waiters(l)) /\ waiting[i].lock = l
                 /\ Without(waiting', waiting, i)
                 /\ With(runnable \o Heir(l), runnable, waiting[i].ct)
                 /\ waiting[i].ct \in Threads
                 /\ locks' = [[locks EXCEPT ![running] = @ \ {l}]
                                EXCEPT ![waiting[i].ct] = @ \cup {l}]
                 /\ using' = using
<1>1. TypeOK /\ running \in Threads
  BY DEF Inv, TypeOK
<1>2. CASE Waiters(l) = {}
  <2>1. runnable \o Heir(l) = runnable
    BY <1>1, <1>2, ConcatEmptySeq DEF Heir, TypeOK
  <2>. QED BY <1>1, <1>2, <2>1 DEF Release, Delivered, Erased, StillUsed, NotWaiting, TypeOK
<1>3. CASE Waiters(l) # {}
  <2>. DEFINE i == First(Waiters(l))
  <2>1. i \in DOMAIN waiting /\ waiting[i].lock = l
    <3>1. Waiters(l) \subseteq Nat
      BY <1>1, LenProperties DEF Waiters, TypeOK
    <3>2. i \in Waiters(l)
      BY <3>1, <1>3, FirstIsLeast
    <3>. QED BY <3>2 DEF Waiters
  <2>2. waiting' = RemoveAt(waiting, i)
    BY <1>3 DEF Release, NotWaiting, LongestWaiter
  <2>3. /\ locks' = [[locks EXCEPT ![running] = @ \ {l}]
                      EXCEPT ![waiting[i].ct] = @ \cup {l}]
        /\ using' = using
    BY <1>3 DEF Release, Delivered, Erased, StillUsed, LongestWaiter
  <2>4. Heir(l) = <<waiting[i].ct>>
    BY <1>3 DEF Heir, LongestWaiter
  <2>. HIDE DEF i
  <2>5. waiting' \in Seq(LockEntry) /\ Without(waiting', waiting, i)
    BY <1>1, <2>1, <2>2, RemoveAtIsWithout DEF TypeOK
  <2>6. waiting[i] \in LockEntry
    BY <1>1, <2>1, LenProperties, ElementOfSeq DEF TypeOK
  <2>7. waiting[i].ct \in Threads
    BY <2>6 DEF LockEntry
  <2>8. /\ runnable \o Heir(l) \in Seq(Threads)
        /\ With(runnable \o Heir(l), runnable, waiting[i].ct)
    BY <1>1, <2>4, <2>7, AppendIsConcat, AppendIsWith DEF TypeOK
  <2>9. locks' \in [Threads -> SUBSET Locks] /\ using' \in SUBSET Locks
    BY <1>1, <2>3, <2>7 DEF TypeOK
  <2>. QED BY <2>1, <2>3, <2>5, <2>7, <2>8, <2>9 DEF i
<1>. QED
  BY <1>2, <1>3

(* The state between a release and what the running thread does next: the  *)
(* locks are consistent, the entries that stay wait for locks in use, and  *)
(* the only thread that left ct_queue_waiting is runnable and has its lock.*)
AfterRelease(l) ==
  LET q == runnable \o Heir(l) IN
  /\ MutualExclusion' /\ LockAccounting'
  /\ \A i \in DOMAIN waiting' :
       /\ \E j \in DOMAIN waiting : waiting'[i] = waiting[j]
       /\ waiting'[i].lock \in using' \ locks'[waiting'[i].ct]
       /\ \A j \in DOMAIN waiting' :
            waiting'[i].ct = waiting'[j].ct => i = j
  /\ \A i, j \in DOMAIN q : q[i] = q[j] => i = j
  /\ \A t \in Threads :
       /\ Holds(q, t) <=> Runnable(t) \/ (LockBlocked(t) /\ ~LockBlocked(t)')
       /\ LockBlocked(t)' => LockBlocked(t)
       /\ LockBlocked(t) /\ ~LockBlocked(t)' => frame[t].lock \in locks'[t]
       /\ t # running => locks[t] \subseteq locks'[t]

LEMMA ReleaseInv ==
  ASSUME Inv, mode = "threads", At(running) = "user",
         NEW l \in Locks, l \in locks[running], Release(l),
         UNCHANGED leaked
  PROVE  AfterRelease(l)
<1>. DEFINE q == runnable \o Heir(l)
<1>1. TypeOK /\ OnePlace /\ running \in Threads
  BY DEF Inv, TypeOK
<1>2. CASE /\ Waiters(l) = {}
           /\ waiting' = waiting /\ q = runnable
           /\ locks' = [locks EXCEPT ![running] = @ \ {l}]
           /\ using' = using \ {l}
  <2>. HIDE DEF q
  <2>1. (MutualExclusion /\ LockAccounting)'
    BY <1>1, <1>2 DEF Inv, TypeOK, MutualExclusion, LockAccounting
  <2>2. \A i \in DOMAIN waiting : waiting[i].lock \in using' \ locks'[waiting[i].ct]
    BY <1>1, <1>2 DEF Inv, TypeOK, WaitsForUsedLock, Waiters
  <2>3. \A t \in Threads : t # running => locks[t] \subseteq locks'[t]
    BY <1>1, <1>2 DEF TypeOK
  <2>. QED
    BY <1>1, <1>2, <2>1, <2>2, <2>3 DEF q, AfterRelease, Holds, OnePlace, Runnable, LockBlocked
<1>3. ASSUME NEW i \in DOMAIN waiting,
             waiting[i].lock = l,
             Without(waiting', waiting, i),
             With(q, runnable, waiting[i].ct),
             waiting[i].ct \in Threads,
             locks' = [[locks EXCEPT ![running] = @ \ {l}]
                         EXCEPT ![waiting[i].ct] = @ \cup {l}],
             using' = using
      PROVE  AfterRelease(l)
  <2>. DEFINE u == waiting[i].ct
  <2>1. /\ LockBlocked(u) /\ ~Runnable(u) /\ u # running
        /\ At(u) \in {"lock", "relock"} /\ frame[u].lock = l
    BY <1>1, <1>3 DEF Inv, OnePlace, QueuesMatchFrames, LockBlocked
  <2>. HIDE DEF q
  <2>2. \A t \in Threads :
          locks'[t] = IF t = running THEN locks[t] \ {l}
                      ELSE IF t = u THEN locks[t] \cup {l} ELSE locks[t]
    BY <1>1, <1>3, <2>1 DEF TypeOK
  <2>3. \A j \in DOMAIN waiting : waiting[j].ct = u => j = i
    BY <1>1 DEF OnePlace
  <2>4. \A j \in DOMAIN waiting' :
          /\ \E k \in DOMAIN waiting : waiting'[j] = waiting[k]
          /\ waiting'[j].ct # u
          /\ \A k \in DOMAIN waiting' : waiting'[j].ct = waiting'[k].ct => j = k
    BY <1>1, <1>3, <2>3 DEF Without, OnePlace
  <2>5. \A t \in Threads : LockBlocked(t)' <=> LockBlocked(t) /\ t # u
    BY <1>3, <2>4 DEF Without, LockBlocked
  <2>6. \A t \in Threads : Holds(q, t) <=> Runnable(t) \/ t = u
    BY <1>3 DEF With, Holds, Runnable
  <2>7. \A j, k \in DOMAIN q : q[j] = q[k] => j = k
    BY <1>1, <1>3, <2>1 DEF With, OnePlace, Runnable
  <2>. HIDE DEF u
  <2>8. u \in Threads /\ u # running /\ l \in locks[running] /\ running \in Threads
    BY <1>1, <1>3, <2>1 DEF u
  <2>9. MutualExclusion'
    BY <2>2, <2>8 DEF Inv, MutualExclusion
  <2>10. LockAccounting'
    <3>1. \A x : (\E t \in Threads : x \in locks[t]) <=> (\E t \in Threads : x \in locks'[t])
      BY <2>2, <2>8
    <3>2. \A t \in Threads : locks'[t] \cap leaked = {}
      BY <2>2, <2>8 DEF Inv, LockAccounting
    <3>3. UNION {locks[t] : t \in Threads} = UNION {locks'[t] : t \in Threads}
      BY <3>1
    <3>4. using = (UNION {locks[t] : t \in Threads}) \cup leaked
      BY DEF Inv, LockAccounting
    <3>. QED
      BY <1>3, <3>2, <3>3, <3>4 DEF LockAccounting
  <2>11. \A j \in DOMAIN waiting' : waiting'[j].lock \in using' \ locks'[waiting'[j].ct]
    <3>. SUFFICES ASSUME NEW j \in DOMAIN waiting'
                  PROVE  waiting'[j].lock \in using' \ locks'[waiting'[j].ct]
      OBVIOUS
    <3>1. PICK k \in DOMAIN waiting : waiting'[j] = waiting[k]
      BY <2>4
    <3>2. waiting[k].lock \in using \ locks[waiting[k].ct]
      BY DEF Inv, WaitsForUsedLock
    <3>3. waiting[k].ct \in Threads
      BY <1>1, EntryTypes
    <3>4. waiting[k].ct # u
      BY <2>4, <3>1
    <3>5. locks'[waiting[k].ct] \subseteq locks[waiting[k].ct]
      BY <2>2, <3>3, <3>4
    <3>. QED
      BY <1>3, <3>1, <3>2, <3>5
  <2>. QED
    BY <2>1, <2>2, <2>4, <2>5, <2>6, <2>7, <2>8, <2>9, <2>10, <2>11 DEF AfterRelease, q
<1>. QED
  BY <1>2, <1>3, ReleaseFacts

-----------------------------------------------------------------------------
(* One lemma per action that is not an instance of the two above.          *)

LEMMA LibinitInv ==
  ASSUME Inv, NEW t \in Threads, Libinit(t)
  PROVE  Inv'
<1>. USE DEF Libinit, At, Frame
<1>1. TypeOK /\ BeforeThreads
  BY DEF Inv
<1>2. TypeOK' /\ BeforeThreads'
  BY <1>1 DEF TypeOK, BeforeThreads, Frames, Points
<1>3. (MutualExclusion /\ LockAccounting)'
  BY DEF Inv, MutualExclusion, LockAccounting
<1>4. (OnePlace /\ NoThreadLost)'
  BY <1>1 DEF TypeOK, BeforeThreads, OnePlace, NoThreadLost, Runnable, LockBlocked, CvBlocked
<1>5. (WaitsForUsedLock /\ HandoffDelivered)'
  BY <1>1 DEF TypeOK, BeforeThreads, WaitsForUsedLock, HandoffDelivered
<1>6. QueuesMatchFrames'
  BY <1>1 DEF TypeOK, BeforeThreads, QueuesMatchFrames
<1>7. (MaskDiscipline /\ ExitsOnlyWhenStuck)'
  BY <1>1 DEF TypeOK, BeforeThreads, MaskDiscipline, ExitsOnlyWhenStuck
<1>. QED
  BY <1>2, <1>3, <1>4, <1>5, <1>6, <1>7 DEF Inv

(* A failed thread_libinit, and main() returning.                          *)
LEMMA MainInv ==
  ASSUME Inv, LibinitFails \/ MainReturns
  PROVE  Inv'
<1>1. /\ mode = "main" /\ mode' \in {"main", "exited"} /\ inited' \in BOOLEAN
      /\ UNCHANGED <<masked, running, runnable, waiting, cv, locks, using,
                     frame, leaked>>
  BY DEF Inv, TypeOK, LibinitFails, MainReturns
<1>2. (TypeOK /\ BeforeThreads /\ MutualExclusion /\ LockAccounting)'
  BY <1>1 DEF Inv, TypeOK, BeforeThreads, MutualExclusion, LockAccounting, At
<1>3. (OnePlace /\ NoThreadLost /\ WaitsForUsedLock /\ HandoffDelivered)'
  BY <1>1 DEF Inv, OnePlace, NoThreadLost, WaitsForUsedLock, HandoffDelivered, At, Runnable, LockBlocked, CvBlocked
<1>4. (QueuesMatchFrames /\ MaskDiscipline /\ ExitsOnlyWhenStuck)'
  BY <1>1 DEF Inv, BeforeThreads, QueuesMatchFrames, MaskDiscipline, ExitsOnlyWhenStuck, At
<1>. QED
  BY <1>2, <1>3, <1>4 DEF Inv

LEMMA CreateInv ==
  ASSUME Inv, NEW t \in Threads, Create(t)
  PROVE  Inv'
<1>. USE DEF At, Frame
<1>1. /\ TypeOK /\ OnePlace /\ mode = "threads" /\ running \in Threads
      /\ At(running) = "user" /\ At(t) = "none"
      /\ frame' = [frame EXCEPT ![t] = Frame("start", None, None)]
      /\ UNCHANGED <<inited, mode, masked, running, waiting, cv, locks, using, leaked>>
  BY DEF Inv, TypeOK, Create, Enter
<1>2. runnable' \in Seq(Threads) /\ runnable' # <<>> /\ With(runnable', runnable, t)
  BY <1>1, AppendIsWith DEF TypeOK, Create
<1>3. ~Runnable(t) /\ ~LockBlocked(t) /\ ~CvBlocked(t) /\ t # running
  BY <1>1 DEF Inv, QueuesMatchFrames, Suspended, Runnable, LockBlocked, CvBlocked
<1>4. TypeOK'
  BY <1>1, <1>2 DEF TypeOK, Frames, Points
<1>5. (BeforeThreads /\ MutualExclusion /\ LockAccounting)'
  BY <1>1 DEF Inv, BeforeThreads, MutualExclusion, LockAccounting
<1>6. (OnePlace /\ NoThreadLost)'
  BY <1>1, <1>2, <1>3 DEF With, Inv, TypeOK, OnePlace, NoThreadLost, Runnable, LockBlocked, CvBlocked
<1>7. (WaitsForUsedLock /\ HandoffDelivered)'
  BY <1>1, <1>3 DEF Inv, TypeOK, WaitsForUsedLock, HandoffDelivered, LockBlocked
<1>8. QueuesMatchFrames'
  BY <1>1, <1>2, <1>3 DEF With, Inv, TypeOK, QueuesMatchFrames, Suspended, Runnable, LockBlocked, CvBlocked
<1>9. (MaskDiscipline /\ ExitsOnlyWhenStuck)'
  BY <1>1, <1>3 DEF Inv, TypeOK, MaskDiscipline, ExitsOnlyWhenStuck
<1>. QED
  BY <1>4, <1>5, <1>6, <1>7, <1>8, <1>9 DEF Inv

LEMMA ExitInv == ASSUME Inv, Exit PROVE Inv'
<1>. USE DEF At, Frame
<1>1. /\ TypeOK /\ OnePlace /\ mode = "threads" /\ running \in Threads
      /\ At(running) = "user"
      /\ locks' = [locks EXCEPT ![running] = {}]
      /\ leaked' = leaked \cup locks[running]
      /\ frame' = [frame EXCEPT ![running] = Frame("done", None, None)]
      /\ UNCHANGED <<inited, waiting, cv, using>>
  BY DEF Inv, TypeOK, Exit, Enter
<1>2. ~Runnable(running) /\ ~LockBlocked(running) /\ ~CvBlocked(running)
  BY <1>1 DEF OnePlace
<1>3. (MutualExclusion /\ LockAccounting)'
  <2>1. MutualExclusion'
    BY <1>1 DEF Inv, TypeOK, MutualExclusion
  <2>2. \A t \in Threads : locks'[t] \cap leaked' = {}
    BY <1>1 DEF Inv, TypeOK, MutualExclusion, LockAccounting
  <2>3. \A x : (\E t \in Threads : x \in locks'[t]) \/ x \in leaked'
                 <=> (\E t \in Threads : x \in locks[t]) \/ x \in leaked
    BY <1>1 DEF TypeOK
  <2>4. (UNION {locks'[t] : t \in Threads}) \cup leaked' =
          (UNION {locks[t] : t \in Threads}) \cup leaked
    BY <2>3
  <2>. QED
    BY <1>1, <2>1, <2>2, <2>4 DEF Inv, LockAccounting
<1>4. WaitsForUsedLock'
  BY <1>1, EntryTypes DEF Inv, TypeOK, WaitsForUsedLock
<1>5. HandoffDelivered'
  BY <1>1 DEF Inv, TypeOK, HandoffDelivered, LockBlocked
<1>6. QueuesMatchFrames'
  <2>1. \A i \in DOMAIN runnable' : Runnable(runnable'[i])
    <3>1. CASE Dispatch(runnable)
      BY <1>1, <3>1, DispatchFacts DEF TypeOK, Without, Runnable
    <3>2. CASE runnable' = runnable
      BY <3>2 DEF Runnable
    <3>. QED BY <3>1, <3>2 DEF Exit
  <2>. QED
    BY <1>1, <1>2, <2>1 DEF Inv, TypeOK, QueuesMatchFrames, Runnable, LockBlocked, CvBlocked
<1>7. CASE Dispatch(runnable) /\ UNCHANGED mode
  <2>1. /\ 1 \in DOMAIN runnable /\ running' = runnable[1] /\ running' \in Threads
        /\ runnable' \in Seq(Threads) /\ Without(runnable', runnable, 1)
        /\ masked'
    BY <1>1, <1>7, DispatchFacts DEF TypeOK
  <2>2. TypeOK'
    BY <1>1, <1>7, <2>1 DEF TypeOK, Frames, Points
  <2>3. (BeforeThreads /\ ExitsOnlyWhenStuck)'
    BY <1>1, <1>7 DEF BeforeThreads, ExitsOnlyWhenStuck
  <2>4. OnePlace'
    BY <1>1, <2>1 DEF Without, OnePlace, Runnable, LockBlocked, CvBlocked
  <2>5. NoThreadLost'
    <3>1. \A t \in Threads :
            At(t)' = IF t = running THEN "done" ELSE At(t)
      BY <1>1 DEF TypeOK
    <3>2. \A t \in Threads : Runnable(t) => t = running' \/ Runnable(t)'
      BY <2>1 DEF Without, Runnable
    <3>3. \A t \in Threads : (LockBlocked(t) <=> LockBlocked(t)') /\ (CvBlocked(t) <=> CvBlocked(t)')
      BY <1>1 DEF LockBlocked, CvBlocked
    <3>. QED
      BY <3>1, <3>2, <3>3 DEF Inv, NoThreadLost
  <2>6. MaskDiscipline'
    BY <1>1, <1>2, <1>7, <2>1 DEF Inv, TypeOK, MaskDiscipline, QueuesMatchFrames, Runnable, Suspended
  <2>. QED
    BY <1>3, <1>4, <1>5, <1>6, <2>2, <2>3, <2>4, <2>5, <2>6 DEF Inv
<1>8. CASE runnable = <<>> /\ EndProcess /\ UNCHANGED <<running, runnable>>
  <2>1. TypeOK'
    BY <1>1, <1>8 DEF TypeOK, Frames, Points, EndProcess
  <2>2. (OnePlace /\ NoThreadLost)'
    BY <1>1, <1>8 DEF Inv, TypeOK, OnePlace, NoThreadLost, Runnable, LockBlocked, CvBlocked
  <2>3. (BeforeThreads /\ MaskDiscipline /\ ExitsOnlyWhenStuck)'
    BY <1>1, <1>8 DEF Inv, TypeOK, EndProcess, BeforeThreads, MaskDiscipline, ExitsOnlyWhenStuck
  <2>. QED
    BY <1>3, <1>4, <1>5, <1>6, <2>1, <2>2, <2>3 DEF Inv
<1>. QED
  BY <1>7, <1>8 DEF Exit

LEMMA UnlockInv ==
  ASSUME Inv, NEW l \in Locks, Unlock(l)
  PROVE  Inv'
<1>. USE DEF At
<1>1. /\ TypeOK /\ OnePlace /\ mode = "threads" /\ running \in Threads
      /\ At(running) = "user" /\ l \in locks[running] /\ Release(l)
      /\ UNCHANGED <<inited, mode, masked, running, cv, frame, leaked>>
  BY DEF Inv, TypeOK, Unlock, Enter
<1>2. AfterRelease(l)
  BY <1>1, ReleaseInv
<1>3. runnable' = runnable \o Heir(l)
  BY DEF Unlock
<1>4. TypeOK'
  BY <1>1, <1>3, ReleaseFacts DEF TypeOK
<1>5. (BeforeThreads /\ MutualExclusion /\ LockAccounting)'
  BY <1>1, <1>2 DEF AfterRelease, BeforeThreads
<1>6. OnePlace'
  BY <1>1, <1>2, <1>3 DEF AfterRelease, Holds, OnePlace, Runnable, LockBlocked, CvBlocked
<1>7. NoThreadLost'
  BY <1>1, <1>2, <1>3 DEF AfterRelease, Holds, Inv, NoThreadLost, Runnable, CvBlocked
<1>8. WaitsForUsedLock'
  BY <1>2 DEF AfterRelease, WaitsForUsedLock
<1>9. HandoffDelivered'
  BY <1>1, <1>2 DEF AfterRelease, Inv, HandoffDelivered
<1>10. QueuesMatchFrames'
  <2>1. \A t \in Threads :
          Holds(runnable', t) => Runnable(t) \/ LockBlocked(t)
    BY <1>2, <1>3 DEF AfterRelease
  <2>2. \A i \in DOMAIN runnable' : runnable'[i] \in Threads /\ Holds(runnable', runnable'[i])
    BY <1>4, LenProperties, ElementOfSeq DEF TypeOK, Holds
  <2>3. \A t \in Threads : Runnable(t) \/ LockBlocked(t) => At(t) \in Suspended
    BY DEF Inv, QueuesMatchFrames, Suspended, Runnable, LockBlocked
  <2>4. \A i \in DOMAIN runnable' : At(runnable'[i]) \in Suspended
    BY <2>1, <2>2, <2>3
  <2>. QED
    BY <1>1, <1>2, <2>4 DEF AfterRelease, Inv, QueuesMatchFrames
<1>11. (MaskDiscipline /\ ExitsOnlyWhenStuck)'
  BY <1>1 DEF Inv, MaskDiscipline, ExitsOnlyWhenStuck
<1>. QED
  BY <1>4, <1>5, <1>6, <1>7, <1>8, <1>9, <1>10, <1>11 DEF Inv

LEMMA WaitInv ==
  ASSUME Inv, NEW l \in Locks, NEW c \in Conds, Wait(l, c)
  PROVE  Inv'
<1>. USE DEF At, Frame
<1>. DEFINE q == runnable \o Heir(l)
            e == [ct |-> running, lock |-> l, cond |-> c]
<1>1. /\ TypeOK /\ OnePlace /\ mode = "threads" /\ running \in Threads
      /\ At(running) = "user" /\ l \in locks[running] /\ Release(l)
      /\ UNCHANGED <<inited, leaked>>
  BY DEF Inv, TypeOK, Wait, Enter
<1>2. AfterRelease(l)
  BY <1>1, ReleaseInv
<1>3. q \in Seq(Threads) /\ waiting' \in Seq(LockEntry)
      /\ locks' \in [Threads -> SUBSET Locks] /\ using' \in SUBSET Locks
  BY <1>1, ReleaseFacts
<1>. HIDE DEF q
<1>4. \A t \in Threads : Holds(q, t) =>
         t # running /\ At(t) \in Suspended /\ ~CvBlocked(t) /\ ~LockBlocked(t)'
  BY <1>1, <1>2 DEF q, AfterRelease, Inv, OnePlace, QueuesMatchFrames, Suspended, Runnable, LockBlocked
<1>5. \A i \in DOMAIN q : q[i] \in Threads /\ Holds(q, q[i])
  BY <1>3, LenProperties, ElementOfSeq DEF Holds
<1>6. (MutualExclusion /\ LockAccounting /\ WaitsForUsedLock)'
  BY <1>2 DEF AfterRelease, WaitsForUsedLock
<1>7. CASE /\ cv' = Append(cv, e)
           /\ frame' = [frame EXCEPT ![running] = Frame("wait", l, None)]
           /\ Dispatch(q)
           /\ UNCHANGED mode
  <2>1. /\ e.ct = running /\ e.lock = l
        /\ cv' \in Seq(CvEntry) /\ With(cv', cv, e)
    BY <1>1, <1>7, AppendIsWith DEF TypeOK, CvEntry
  <2>2. /\ 1 \in DOMAIN q /\ running' = q[1] /\ running' \in Threads
        /\ runnable' \in Seq(Threads) /\ Without(runnable', q, 1)
        /\ masked'
    BY <1>3, <1>7, DispatchFacts
  <2>. HIDE DEF e
  <2>3. TypeOK'
    BY <1>1, <1>3, <1>7, <2>1, <2>2 DEF TypeOK, Frames, Points
  <2>4. (BeforeThreads /\ ExitsOnlyWhenStuck)'
    BY <1>1, <1>7 DEF BeforeThreads, ExitsOnlyWhenStuck
  <2>5. \A t \in Threads :
          /\ Runnable(t)' <=> Holds(q, t) /\ t # running'
          /\ CvBlocked(t)' <=> CvBlocked(t) \/ t = running
          /\ LockBlocked(t)' => LockBlocked(t)
    <3>1. \A i, j \in DOMAIN q : q[i] = q[j] => i = j
      BY <1>2 DEF AfterRelease, q
    <3>2. \A t \in Threads : Runnable(t)' <=> Holds(q, t) /\ t # running'
      BY <2>2, <3>1 DEF Without, Holds, Runnable
    <3>3. \A t \in Threads : CvBlocked(t)' <=> CvBlocked(t) \/ t = running
      BY <2>1 DEF With, CvBlocked
    <3>. QED BY <1>2, <3>2, <3>3 DEF AfterRelease
  <2>6. OnePlace'
    <3>1. \A i, j \in DOMAIN runnable' : runnable'[i] = runnable'[j] => i = j
      BY <1>2, <2>2 DEF AfterRelease, q, Without
    <3>2. \A i, j \in DOMAIN waiting' : waiting'[i].ct = waiting'[j].ct => i = j
      BY <1>2 DEF AfterRelease
    <3>3. \A i, j \in DOMAIN cv' : cv'[i].ct = cv'[j].ct => i = j
      BY <1>1, <2>1 DEF With, OnePlace, CvBlocked
    <3>4. Holds(q, running')
      BY <2>2 DEF Holds
    <3>5. \A t \in Threads :
            /\ Runnable(t)'    => t # running' /\ ~LockBlocked(t)' /\ ~CvBlocked(t)'
            /\ LockBlocked(t)' => t # running' /\ ~CvBlocked(t)'
            /\ CvBlocked(t)'   => t # running'
      BY <1>1, <1>4, <2>2, <2>5, <3>4 DEF OnePlace
    <3>. QED BY <3>1, <3>2, <3>3, <3>5 DEF OnePlace
  <2>7. NoThreadLost'
    <3>1. \A t \in Threads : t # running => At(t)' = At(t)
      BY <1>1, <1>7 DEF TypeOK
    <3>2. \A t \in Threads :
            Runnable(t) \/ LockBlocked(t) => Holds(q, t) \/ LockBlocked(t)'
      BY <1>2 DEF AfterRelease, q
    <3>. QED
      BY <2>5, <3>1, <3>2 DEF Inv, NoThreadLost
  <2>8. HandoffDelivered'
    BY <1>1, <1>2, <1>7 DEF AfterRelease, Inv, TypeOK, HandoffDelivered
  <2>9. QueuesMatchFrames'
    BY <1>1, <1>2, <1>4, <1>5, <1>7, <2>1, <2>2
       DEF AfterRelease, With, Without, Inv, TypeOK, OnePlace, QueuesMatchFrames, LockBlocked, CvBlocked
  <2>10. MaskDiscipline'
    BY <1>1, <1>4, <1>5, <1>7, <2>2 DEF Inv, TypeOK, MaskDiscipline, Suspended
  <2>. QED
    BY <1>6, <2>3, <2>4, <2>6, <2>7, <2>8, <2>9, <2>10 DEF Inv
<1>8. CASE q = <<>> /\ EndProcess /\ UNCHANGED <<running, runnable, cv, frame>>
  <2>1. waiting' = waiting /\ runnable = <<>>
    <3>1. DOMAIN q = {}
      BY <1>8
    <3>2. \A s, x : ~ With(q, s, x)
      BY <3>1 DEF With
    <3>. QED
      BY <1>1, <1>8, <3>2, ReleaseFacts DEF q
  <2>2. (TypeOK /\ BeforeThreads)'
    BY <1>1, <1>3, <1>8, <2>1 DEF TypeOK, EndProcess, BeforeThreads
  <2>3. (OnePlace /\ NoThreadLost)'
    BY <1>8, <2>1 DEF Inv, OnePlace, NoThreadLost, Runnable, LockBlocked, CvBlocked
  <2>4. HandoffDelivered'
    BY <1>1, <1>2, <1>8 DEF AfterRelease, Inv, HandoffDelivered
  <2>5. (QueuesMatchFrames /\ MaskDiscipline /\ ExitsOnlyWhenStuck)'
    BY <1>8, <2>1 DEF Inv, EndProcess, QueuesMatchFrames, MaskDiscipline, ExitsOnlyWhenStuck
  <2>. QED
    BY <1>6, <2>2, <2>3, <2>4, <2>5 DEF Inv
<1>. QED
  BY <1>7, <1>8 DEF Wait, q

LEMMA WakeOneFacts ==
  ASSUME TypeOK, NEW l \in Locks, NEW c \in Conds,
         CvWaiters(l, c) # {}, WakeOne(l, c)
  PROVE  \E i \in DOMAIN cv :
           /\ i = First(CvWaiters(l, c))
           /\ cv[i].lock = l /\ cv[i].cond = c /\ cv[i].ct \in Threads
           /\ \A j \in CvWaiters(l, c) : i <= j
           /\ runnable' \in Seq(Threads) /\ With(runnable', runnable, cv[i].ct)
           /\ cv' \in Seq(CvEntry) /\ Without(cv', cv, i)
<1>. DEFINE i == First(CvWaiters(l, c))
<1>1. CvWaiters(l, c) \subseteq Nat
  BY LenProperties DEF CvWaiters, TypeOK
<1>2. i \in CvWaiters(l, c) /\ \A j \in CvWaiters(l, c) : i <= j
  BY <1>1, FirstIsLeast
<1>3. i \in DOMAIN cv /\ cv[i].lock = l /\ cv[i].cond = c
  BY <1>2 DEF CvWaiters
<1>4. runnable' = Append(runnable, cv[i].ct) /\ cv' = RemoveAt(cv, i)
  BY DEF WakeOne
<1>. HIDE DEF i
<1>5. cv[i].ct \in Threads
  BY <1>3, EntryTypes
<1>6. cv' \in Seq(CvEntry) /\ Without(cv', cv, i)
  BY <1>3, <1>4, RemoveAtIsWithout DEF TypeOK
<1>7. runnable' \in Seq(Threads) /\ With(runnable', runnable, cv[i].ct)
  BY <1>4, <1>5, AppendIsWith DEF TypeOK
<1>. QED
  BY <1>2, <1>3, <1>5, <1>6, <1>7 DEF i

(* thread_signal, and an iteration of thread_broadcast.                    *)
LEMMA WakeOneInv ==
  ASSUME Inv, mode = "threads", NEW l \in Locks, NEW c \in Conds,
         CvWaiters(l, c) # {}, WakeOne(l, c),
         UNCHANGED <<inited, mode, masked, running, waiting, locks, using,
                     frame, leaked>>
  PROVE  Inv'
<1>. USE DEF At
<1>1. TypeOK /\ OnePlace /\ running \in Threads
  BY DEF Inv, TypeOK
<1>2. PICK i \in DOMAIN cv :
           /\ cv[i].ct \in Threads
           /\ runnable' \in Seq(Threads) /\ With(runnable', runnable, cv[i].ct)
           /\ cv' \in Seq(CvEntry) /\ Without(cv', cv, i)
  BY <1>1, WakeOneFacts
<1>. DEFINE u == cv[i].ct
<1>3. /\ u \in Threads /\ u # running
      /\ ~Runnable(u) /\ ~LockBlocked(u) /\ At(u) = "wait"
      /\ \A j \in DOMAIN cv : cv[j].ct = u => j = i
  BY <1>1, <1>2 DEF Inv, OnePlace, QueuesMatchFrames, CvBlocked
<1>4. \A t \in Threads :
        /\ Runnable(t)' <=> Runnable(t) \/ t = u
        /\ CvBlocked(t)' <=> CvBlocked(t) /\ t # u
        /\ LockBlocked(t)' <=> LockBlocked(t)
  <2>1. \A t \in Threads : Runnable(t)' <=> Runnable(t) \/ t = u
    BY <1>2 DEF With, Runnable
  <2>2. \A t \in Threads : CvBlocked(t)' <=> CvBlocked(t) /\ t # u
    BY <1>2, <1>3 DEF Without, CvBlocked
  <2>. QED BY <2>1, <2>2 DEF LockBlocked
<1>5. TypeOK'
  BY <1>1, <1>2 DEF TypeOK
<1>6. (BeforeThreads /\ MutualExclusion /\ LockAccounting)'
  BY DEF Inv, BeforeThreads, MutualExclusion, LockAccounting
<1>7. OnePlace'
  <2>1. \A j, k \in DOMAIN runnable' : runnable'[j] = runnable'[k] => j = k
    BY <1>1, <1>2, <1>3 DEF With, OnePlace, Runnable
  <2>2. \A j, k \in DOMAIN cv' : cv'[j].ct = cv'[k].ct => j = k
    BY <1>1, <1>2 DEF Without, OnePlace
  <2>. QED
    BY <1>1, <1>3, <1>4, <2>1, <2>2 DEF OnePlace
<1>8. NoThreadLost'
  BY <1>4 DEF Inv, NoThreadLost
<1>9. (WaitsForUsedLock /\ HandoffDelivered)'
  BY DEF Inv, WaitsForUsedLock, HandoffDelivered, LockBlocked
<1>10. QueuesMatchFrames'
  BY <1>2, <1>3 DEF With, Without, Inv, QueuesMatchFrames, Suspended
<1>11. (MaskDiscipline /\ ExitsOnlyWhenStuck)'
  BY DEF Inv, MaskDiscipline, ExitsOnlyWhenStuck
<1>. QED
  BY <1>5, <1>6, <1>7, <1>8, <1>9, <1>10, <1>11 DEF Inv

LEMMA BroadcastInv ==
  ASSUME Inv, NEW l \in Locks, NEW c \in Conds, Broadcast(l, c)
  PROVE  Inv'
<1>. USE DEF At, Frame
<1>1. /\ TypeOK /\ OnePlace /\ mode = "threads" /\ running \in Threads
      /\ At(running) = "user" /\ masked'
      /\ frame' = [frame EXCEPT ![running] = Frame("broadcast", l, c)]
      /\ UNCHANGED <<inited, mode, running, runnable, waiting, cv, locks, using, leaked>>
  BY DEF Inv, TypeOK, Broadcast, Enter
<1>2. TypeOK'
  BY <1>1 DEF TypeOK, Frames, Points
<1>3. (BeforeThreads /\ MutualExclusion /\ LockAccounting)'
  BY <1>1 DEF Inv, BeforeThreads, MutualExclusion, LockAccounting
<1>4. (OnePlace /\ NoThreadLost)'
  BY <1>1 DEF Inv, TypeOK, OnePlace, NoThreadLost, Runnable, LockBlocked, CvBlocked
<1>5. (WaitsForUsedLock /\ HandoffDelivered)'
  BY <1>1 DEF Inv, TypeOK, WaitsForUsedLock, HandoffDelivered, LockBlocked
<1>6. QueuesMatchFrames'
  BY <1>1 DEF Inv, TypeOK, QueuesMatchFrames, OnePlace, Runnable, LockBlocked, CvBlocked
<1>7. (MaskDiscipline /\ ExitsOnlyWhenStuck)'
  BY <1>1 DEF Inv, TypeOK, MaskDiscipline, ExitsOnlyWhenStuck
<1>. QED
  BY <1>2, <1>3, <1>4, <1>5, <1>6, <1>7 DEF Inv

(* The lock named by a frame is a lock of the program.                     *)
LEMMA BroadcastFrame ==
  ASSUME Inv, mode = "threads", At(running) = "broadcast",
         CvWaiters(frame[running].lock, frame[running].cond) # {}
  PROVE  /\ running \in Threads /\ frame[running].lock \in Locks
         /\ frame[running].cond \in Conds
<1>1. PICK i \in DOMAIN cv : /\ cv[i].lock = frame[running].lock
                             /\ cv[i].cond = frame[running].cond
  BY DEF CvWaiters
<1>. QED
  BY <1>1, EntryTypes DEF Inv, TypeOK

LEMMA NextInv == Inv /\ [Next]_vars => Inv'
<1>. SUFFICES ASSUME Inv, [Next]_vars PROVE Inv'
  OBVIOUS
<1>0. TypeOK /\ QueuesMatchFrames
  BY DEF Inv
<1>1. ASSUME NEW t \in Threads, Libinit(t) \/ Create(t) PROVE Inv'
  BY <1>1, LibinitInv, CreateInv
<1>2. CASE LibinitFails \/ MainReturns
  BY <1>2, MainInv
<1>3. CASE Exit
  BY <1>3, ExitInv
<1>4. CASE Yield
  BY <1>4, YieldInv
<1>5. CASE Start \/ ResumeYield \/ BroadcastReturn
  BY <1>5, ReturnInv DEF Start, ResumeYield, BroadcastReturn, Inside
<1>6. CASE ResumeLock \/ ResumeWait \/ ResumeRelock
  <2>1. mode = "threads" /\ running \in Threads /\ frame[running].lock \in Locks
    BY <1>0, <1>6 DEF ResumeLock, ResumeWait, ResumeRelock, Inside, TypeOK, QueuesMatchFrames
  <2>2. PICK at \in {"lock", "relock"} : LockLoop(frame[running].lock, at)
    BY <1>6 DEF ResumeLock, ResumeWait, ResumeRelock
  <2>3. UNCHANGED <<inited, cv, leaked>>
    BY <1>6 DEF ResumeLock, ResumeWait, ResumeRelock
  <2>. QED BY <2>1, <2>2, <2>3, LockLoopInv
<1>7. CASE BroadcastWake
  <2>1. /\ mode = "threads" /\ At(running) = "broadcast"
        /\ CvWaiters(frame[running].lock, frame[running].cond) # {}
        /\ WakeOne(frame[running].lock, frame[running].cond)
        /\ UNCHANGED <<inited, mode, masked, running, waiting, locks, using, frame, leaked>>
    BY <1>7 DEF BroadcastWake, Inside
  <2>2. frame[running].lock \in Locks /\ frame[running].cond \in Conds
    BY <2>1, BroadcastFrame
  <2>. QED BY <2>1, <2>2, WakeOneInv
<1>8. ASSUME NEW l \in Locks, Lock(l) \/ Unlock(l) PROVE Inv'
  <2>1. CASE Lock(l)
    BY <2>1, LockLoopInv DEF Lock, Enter
  <2>. QED BY <1>8, <2>1, UnlockInv
<1>9. ASSUME NEW l \in Locks, NEW c \in Conds,
             Wait(l, c) \/ Signal(l, c) \/ Broadcast(l, c)
      PROVE  Inv'
  <2>1. CASE Signal(l, c)
    BY <2>1, WakeOneInv DEF Signal, Enter
  <2>. QED BY <1>9, <2>1, WaitInv, BroadcastInv
<1>10. CASE UNCHANGED vars
  <2>. USE <1>10 DEF vars, At
  <2>1. (TypeOK /\ BeforeThreads /\ MutualExclusion /\ LockAccounting)'
    BY DEF Inv, TypeOK, BeforeThreads, MutualExclusion, LockAccounting
  <2>2. (OnePlace /\ NoThreadLost /\ WaitsForUsedLock /\ HandoffDelivered)'
    BY DEF Inv, OnePlace, NoThreadLost, WaitsForUsedLock, HandoffDelivered, Runnable, LockBlocked, CvBlocked
  <2>3. (QueuesMatchFrames /\ MaskDiscipline /\ ExitsOnlyWhenStuck)'
    BY DEF Inv, QueuesMatchFrames, MaskDiscipline, ExitsOnlyWhenStuck
  <2>. QED BY <2>1, <2>2, <2>3 DEF Inv
<1>. QED
  BY <1>1, <1>2, <1>3, <1>4, <1>5, <1>6, <1>7, <1>8, <1>9, <1>10
     DEF Next, Resume, Exited

-----------------------------------------------------------------------------
(* The theorems.                                                           *)

(* The invariant is inductive: it holds in every reachable state.          *)
THEOREM Invariance == Spec => []Inv
BY InitInv, NextInv, PTL DEF Spec

(* Every variable keeps its type.                                          *)
THEOREM TypeCorrect == Spec => []TypeOK
<1>1. Inv => TypeOK
  BY DEF Inv
<1>. QED BY <1>1, Invariance, PTL


(* thread_lock, thread_unlock and thread_wait give a lock to at most one   *)
(* thread.                                                                 *)
THEOREM LocksAreSafe == Spec => []MutualExclusion
<1>1. Inv => MutualExclusion
  BY DEF Inv
<1>. QED BY <1>1, Invariance, PTL

(* locks_using records exactly the locks that some thread has, and those   *)
(* that an ended thread kept, which nobody is ever granted again.          *)
THEOREM LocksAreAccounted == Spec => []LockAccounting
<1>1. Inv => LockAccounting
  BY DEF Inv
<1>. QED BY <1>1, Invariance, PTL

(* No thread runs and waits, waits in two queues, or twice in one.         *)
THEOREM ThreadsHaveOnePlace == Spec => []OnePlace
<1>1. Inv => OnePlace
  BY DEF Inv
<1>. QED BY <1>1, Invariance, PTL

(* Every live thread is running or in some queue.                          *)
THEOREM ThreadsAreKept == Spec => []NoThreadLost
<1>1. Inv => NoThreadLost
  BY DEF Inv
<1>. QED BY <1>1, Invariance, PTL

(* A thread blocked on a lock waits for another thread's lock, and one     *)
(* that was woken has its lock.                                            *)
THEOREM HandoffIsSafe == Spec => [](WaitsForUsedLock /\ HandoffDelivered)
<1>1. Inv => WaitsForUsedLock /\ HandoffDelivered
  BY DEF Inv
<1>. QED BY <1>1, Invariance, PTL

(* The interrupt mask is balanced across every context switch, and what    *)
(* the queues say of a thread is what its stack says.                      *)
THEOREM MaskIsBalanced == Spec => [](MaskDiscipline /\ QueuesMatchFrames)
<1>1. Inv => MaskDiscipline /\ QueuesMatchFrames
  BY DEF Inv
<1>. QED BY <1>1, Invariance, PTL

(* The process ends only when no thread can run.                           *)
THEOREM EndIsFinal == Spec => []ExitsOnlyWhenStuck
<1>1. Inv => ExitsOnlyWhenStuck
  BY DEF Inv
<1>. QED BY <1>1, Invariance, PTL

(* A lock that is waited for is granted by nobody but its holder, to its   *)
(* longest waiter.                                                         *)
LEMMA NoBargingStep ==
  ASSUME Inv, [Next]_vars,
         NEW t \in Threads, NEW l \in locks'[t] \ locks[t], Waiters(l) # {}
  PROVE  waiting[First(Waiters(l))].ct = t /\ l \in locks[running]
<1>. USE DEF At
<1>1. TypeOK /\ WaitsForUsedLock
  BY DEF Inv
<1>2. l \in using
  BY <1>1 DEF WaitsForUsedLock, Waiters
<1>3. ASSUME NEW m, NEW at, mode = "threads", LockLoop(m, at) PROVE FALSE
  BY <1>1, <1>2, <1>3 DEF LockLoop, TypeOK
<1>4. ASSUME NEW m \in Locks, mode = "threads", At(running) = "user",
             m \in locks[running], Release(m)
      PROVE  waiting[First(Waiters(l))].ct = t /\ l \in locks[running]
  <2>1. CASE locks' = [locks EXCEPT ![running] = @ \ {m}]
    BY <1>1, <2>1 DEF TypeOK
  <2>2. ASSUME NEW i \in DOMAIN waiting,
               i = First(Waiters(m)), waiting[i].ct \in Threads,
               locks' = [[locks EXCEPT ![running] = @ \ {m}]
                           EXCEPT ![waiting[i].ct] = @ \cup {m}]
        PROVE  waiting[First(Waiters(l))].ct = t /\ l \in locks[running]
    <3>1. l = m /\ t = waiting[i].ct
      BY <1>1, <2>2 DEF TypeOK
    <3>. QED BY <1>4, <2>2, <3>1
  <2>. QED BY <1>4, <2>1, <2>2, ReleaseFacts
<1>5. CASE \E m \in Locks : Unlock(m) \/ \E c \in Conds : Wait(m, c)
  BY <1>4, <1>5 DEF Unlock, Wait, Enter
<1>6. CASE ResumeLock \/ ResumeWait \/ ResumeRelock \/ \E m \in Locks : Lock(m)
  BY <1>3, <1>6 DEF ResumeLock, ResumeWait, ResumeRelock, Lock, Enter, Inside
<1>7. CASE Exit
  BY <1>1, <1>7 DEF Exit, Enter, TypeOK
<1>8. CASE locks' = locks
  BY <1>8
<1>. QED
  BY <1>5, <1>6, <1>7, <1>8
     DEF Next, Resume, Exited, vars, Libinit, LibinitFails, MainReturns, Create,
         Start, Yield, ResumeYield, Signal, Broadcast, BroadcastWake, BroadcastReturn

(* The same, of every step of every behaviour.                             *)
THEOREM LocksAreFair == Spec => NoBarging
<1>1. Inv /\ [Next]_vars =>
        [\A t \in Threads : \A l \in locks'[t] \ locks[t] :
           Waiters(l) # {} =>
             /\ waiting[First(Waiters(l))].ct = t
             /\ l \in locks[running]]_vars
  BY NoBargingStep
<1>. QED
  BY <1>1, Invariance, PTL DEF Spec, NoBarging


(* A thread leaves ct_queue_cv in the order in which the threads waiting   *)
(* on the same lock and condition came, and is then in the run queue.      *)
LEMMA CvIsFifoStep ==
  ASSUME Inv, [Next]_vars,
         NEW i \in DOMAIN cv, cv[i] \notin Range(cv')
  PROVE  /\ \A j \in 1 .. i - 1 :
              <<cv[j].lock, cv[j].cond>> # <<cv[i].lock, cv[i].cond>>
         /\ cv[i].ct \in Range(runnable')
<1>. USE DEF At, Range
<1>1. TypeOK /\ QueuesMatchFrames
  BY DEF Inv
<1>2. CASE cv' = cv
  BY <1>2
<1>3. ASSUME NEW l \in Locks, NEW c \in Conds, NEW e \in CvEntry, cv' = Append(cv, e)
      PROVE  FALSE
  <2>1. With(cv', cv, e)
    BY <1>1, <1>3, AppendIsWith DEF TypeOK
  <2>. QED BY <2>1 DEF With
<1>4. ASSUME NEW l \in Locks, NEW c \in Conds, CvWaiters(l, c) # {}, WakeOne(l, c)
      PROVE  /\ \A j \in 1 .. i - 1 :
                  <<cv[j].lock, cv[j].cond>> # <<cv[i].lock, cv[i].cond>>
             /\ cv[i].ct \in Range(runnable')
  <2>1. PICK k \in DOMAIN cv :
           /\ cv[k].lock = l /\ cv[k].cond = c
           /\ \A j \in CvWaiters(l, c) : k <= j
           /\ With(runnable', runnable, cv[k].ct)
           /\ Without(cv', cv, k)
    BY <1>1, <1>4, WakeOneFacts
  <2>2. i = k
    BY <2>1 DEF Without
  <2>3. cv[i].ct \in Range(runnable')
    BY <2>1, <2>2 DEF With
  <2>4. ASSUME NEW j \in 1 .. i - 1, cv[j].lock = l, cv[j].cond = c PROVE FALSE
    <3>1. DOMAIN cv = 1 .. Len(cv) /\ Len(cv) \in Nat
      BY <1>1, LenProperties DEF TypeOK
    <3>2. j \in CvWaiters(l, c) /\ ~ (i <= j)
      BY <2>4, <3>1 DEF CvWaiters
    <3>. QED BY <2>1, <2>2, <3>2
  <2>. QED BY <2>1, <2>2, <2>3, <2>4
<1>5. ASSUME NEW l \in Locks, NEW c \in Conds, Wait(l, c)
      PROVE  cv' = cv \/ \E e \in CvEntry : cv' = Append(cv, e)
  <2>1. [ct |-> running, lock |-> l, cond |-> c] \in CvEntry
    BY <1>1, <1>5 DEF Wait, Enter, TypeOK, CvEntry
  <2>. QED BY <1>5, <2>1 DEF Wait
<1>6. CASE \E l \in Locks, c \in Conds : Wait(l, c) \/ Signal(l, c) \/ Broadcast(l, c)
  BY <1>2, <1>3, <1>4, <1>5, <1>6 DEF Signal, Broadcast
<1>7. CASE BroadcastWake
  BY <1>4, <1>7, BroadcastFrame DEF BroadcastWake, Inside
<1>. QED
  BY <1>2, <1>6, <1>7
     DEF Next, Resume, Exited, vars, Libinit, LibinitFails, MainReturns, Create,
         Start, Exit, Yield, ResumeYield, Lock, ResumeLock, Unlock, ResumeWait,
         ResumeRelock, BroadcastReturn

(* The same, of every step of every behaviour.                             *)
THEOREM ConditionsAreFair == Spec => CvIsFifo
<1>1. Inv /\ [Next]_vars =>
        [\A i \in DOMAIN cv :
           cv[i] \notin Range(cv') =>
             /\ \A j \in 1 .. i - 1 :
                  <<cv[j].lock, cv[j].cond>> # <<cv[i].lock, cv[i].cond>>
             /\ cv[i].ct \in Range(runnable')]_vars
  BY CvIsFifoStep
<1>. QED
  BY <1>1, Invariance, PTL DEF Spec, CvIsFifo


(* thread_wait comes back to the application with its lock.                *)
LEMMA WaitReturnsStep ==
  ASSUME Inv, [Next]_vars,
         NEW t \in Threads, At(t) \in {"wait", "relock"}, At(t)' = "user"
  PROVE  frame[t].lock \in locks'[t]
<1>. USE DEF At, Frame
<1>1. TypeOK /\ frame' # frame
  BY DEF Inv
<1>2. ASSUME NEW at \in {"lock", "relock"}, mode = "threads",
             LockLoop(frame[running].lock, at)
      PROVE  frame[t].lock \in locks'[t]
  <2>1. CASE /\ locks' = [locks EXCEPT ![running] = @ \cup {frame[running].lock}]
             /\ Return
    BY <1>1, <1>2, <2>1 DEF TypeOK, Return
  <2>2. CASE frame' = [frame EXCEPT ![running] = Frame(at, frame[running].lock, None)]
    BY <1>1, <1>2, <2>2 DEF TypeOK
  <2>. QED BY <1>1, <1>2, <2>1, <2>2 DEF LockLoop
<1>3. CASE ResumeLock \/ ResumeWait \/ ResumeRelock
  BY <1>2, <1>3 DEF ResumeLock, ResumeWait, ResumeRelock, Inside
<1>4. ASSUME NEW u \in Threads, NEW f, At(u) \notin {"wait", "relock"},
             frame' = [frame EXCEPT ![u] = f]
      PROVE  FALSE
  BY <1>1, <1>4 DEF TypeOK
<1>5. ASSUME NEW f, frame' = [frame EXCEPT ![running] = f],
             mode = "threads", At(running) \notin {"wait", "relock"}
      PROVE  FALSE
  BY <1>1, <1>4, <1>5 DEF TypeOK
<1>6. CASE \E u \in Threads : Libinit(u) \/ Create(u)
  <2>1. ASSUME NEW u \in Threads, Libinit(u) PROVE FALSE
    BY <1>4, <2>1 DEF Inv, BeforeThreads, Libinit
  <2>2. ASSUME NEW u \in Threads, Create(u) PROVE FALSE
    BY <1>4, <2>2 DEF Create
  <2>. QED BY <1>6, <2>1, <2>2
<1>7. CASE Start \/ ResumeYield \/ BroadcastReturn
  BY <1>5, <1>7 DEF Start, ResumeYield, BroadcastReturn, Inside, Return
<1>8. CASE Exit \/ Yield
  BY <1>5, <1>8 DEF Exit, Yield, Enter
<1>9. CASE \E l \in Locks : Lock(l) \/ Unlock(l)
  <2>1. ASSUME NEW l \in Locks, Lock(l) PROVE FALSE
    BY <1>1, <1>5, <2>1 DEF Lock, LockLoop, Return, Enter
  <2>. QED BY <1>1, <1>9, <2>1 DEF Unlock
<1>10. CASE \E l \in Locks, c \in Conds : Wait(l, c) \/ Signal(l, c) \/ Broadcast(l, c)
  <2>1. ASSUME NEW l \in Locks, NEW c \in Conds, Wait(l, c) \/ Broadcast(l, c)
        PROVE  FALSE
    BY <1>1, <1>5, <2>1 DEF Wait, Broadcast, Enter
  <2>. QED BY <1>1, <1>10, <2>1 DEF Signal
<1>. QED
  BY <1>1, <1>3, <1>6, <1>7, <1>8, <1>9, <1>10
     DEF Next, Resume, Exited, vars, LibinitFails, MainReturns, BroadcastWake

(* The same, of every step of every behaviour.                             *)
THEOREM WaitKeepsItsPromise == Spec => WaitReturnsWithLock
<1>1. Inv /\ [Next]_vars =>
        [\A t \in Threads :
           At(t) \in {"wait", "relock"} /\ At(t)' = "user" =>
             frame[t].lock \in locks'[t]]_vars
  BY WaitReturnsStep
<1>. QED
  BY <1>1, Invariance, PTL DEF Spec, WaitReturnsWithLock

-----------------------------------------------------------------------------
(* Refinement: positions of a sequence, in order.                          *)

(* q lists the elements of S, n in number, from the least to the greatest. *)
Lists(q, n, S) ==
  /\ q \in [1 .. n -> S]
  /\ \A i \in S : \E k \in 1 .. n : q[k] = i
  /\ \A j, k \in 1 .. n : j < k => q[j] < q[k]

(* Such a list is what InOrder returns ...                                 *)
LEMMA ListIsInOrder ==
  ASSUME NEW S, S \subseteq Nat, NEW n \in Nat, NEW q, Lists(q, n, S)
  PROVE  /\ Cardinality(S) = n
         /\ InOrder(S) = q
<1>. DEFINE upTo(i) == {j \in S : j <= i}
<1>1. \A k \in 1 .. n : q[k] \in Nat /\ q[k] \in S
  BY DEF Lists
<1>2. \A j, k \in 1 .. n : q[j] <= q[k] <=> j <= k
  BY <1>1 DEF Lists
<1>3. ASSUME NEW k \in 0 .. n, NEW T, T = {j \in S : \E m \in 1 .. k : q[m] = j}
      PROVE  Cardinality(T) = k
  <2>. DEFINE f == [m \in 1 .. k |-> q[m]]
  <2>1. f \in Bijection(1 .. k, T)
    <3>1. \A m \in 1 .. k : m \in 1 .. n /\ f[m] \in T
      BY <1>1, <1>3
    <3>2. f \in [1 .. k -> T]
      BY <3>1
    <3>3. \A a, b \in 1 .. k : f[a] = f[b] => a = b
      <4>1. ASSUME NEW a \in 1 .. k, NEW b \in 1 .. k, f[a] = f[b] PROVE a = b
        <5>1. q[a] <= q[b] /\ q[b] <= q[a]
          BY <1>1, <3>1, <4>1
        <5>2. a <= b /\ b <= a
          BY <1>2, <3>1, <5>1
        <5>. QED BY <5>2
      <4>. QED BY <4>1
    <3>4. \A t \in T : \E a \in 1 .. k : f[a] = t
      BY <1>3
    <3>. HIDE DEF f
    <3>. QED BY <3>2, <3>3, <3>4 DEF Bijection, Injection, Surjection, IsInjective
  <2>2. ExistsBijection(1 .. k, T)
    BY <2>1 DEF ExistsBijection
  <2>. QED BY <2>2, FS_CountingElements
<1>4. Cardinality(S) = n
  <2>1. S = {j \in S : \E m \in 1 .. n : q[m] = j}
    BY DEF Lists
  <2>. QED BY <2>1, <1>3
<1>5. ASSUME NEW k \in 1 .. n
      PROVE  Cardinality(upTo(q[k])) = k
  <2>1. upTo(q[k]) = {j \in S : \E m \in 1 .. k : q[m] = j}
    <3>1. ASSUME NEW j \in S, j <= q[k] PROVE \E m \in 1 .. k : q[m] = j
      <4>1. PICK m \in 1 .. n : q[m] = j
        BY DEF Lists
      <4>. QED BY <4>1, <3>1, <1>2
    <3>2. ASSUME NEW m \in 1 .. k PROVE q[m] <= q[k]
      BY <1>2
    <3>. QED BY <3>1, <3>2
  <2>. QED BY <2>1, <1>3
<1>6. ASSUME NEW k \in 1 .. n
      PROVE  (CHOOSE i \in S : Cardinality(upTo(i)) = k) = q[k]
  <2>1. \A i \in S : Cardinality(upTo(i)) = k => i = q[k]
    <3>1. ASSUME NEW i \in S, Cardinality(upTo(i)) = k PROVE i = q[k]
      <4>1. PICK m \in 1 .. n : q[m] = i
        BY DEF Lists
      <4>2. Cardinality(upTo(q[m])) = m
        BY <1>5
      <4>. HIDE DEF upTo
      <4>. QED BY <4>1, <4>2, <3>1
    <3>. QED BY <3>1
  <2>2. Cardinality(upTo(q[k])) = k /\ q[k] \in S
    BY <1>1, <1>5
  <2>. HIDE DEF upTo
  <2>. QED BY <2>1, <2>2
<1>7. InOrder(S) = [k \in 1 .. n |-> q[k]]
  BY <1>4, <1>6 DEF InOrder
<1>8. q = [k \in 1 .. n |-> q[k]]
  BY DEF Lists
<1>. QED BY <1>4, <1>7, <1>8

(* ... and InOrder returns such a list.                                    *)
LEMMA InOrderLists ==
  ASSUME NEW S, S \subseteq Nat, IsFiniteSet(S)
  PROVE  Cardinality(S) \in Nat /\ Lists(InOrder(S), Cardinality(S), S)
<1>. DEFINE upTo(i) == {j \in S : j <= i}
            n == Cardinality(S)
            rank == [i \in S |-> Cardinality(upTo(i))]
<1>1. n \in Nat
  BY FS_CardinalityType
<1>2. \A i \in S : /\ IsFiniteSet(upTo(i)) /\ Cardinality(upTo(i)) \in Nat
                   /\ Cardinality(upTo(i)) <= n
  <2>1. \A i \in S : upTo(i) \in SUBSET S
    OBVIOUS
  <2>. HIDE DEF upTo
  <2>. QED BY <2>1, FS_Subset, FS_CardinalityType
<1>3. ASSUME NEW i \in S, NEW j \in S, i < j
      PROVE  Cardinality(upTo(i)) < Cardinality(upTo(j))
  <2>. i \in Nat /\ j \in Nat
    OBVIOUS
  <2>1. upTo(i) \in SUBSET upTo(j)
    <3>1. \A m \in S : m <= i => m <= j
      BY <1>3
    <3>. QED BY <3>1
  <2>2. j \in upTo(j) /\ j \notin upTo(i)
    BY <1>3
  <2>3. upTo(i) # upTo(j)
    BY <2>2
  <2>. HIDE DEF upTo
  <2>4. /\ Cardinality(upTo(i)) <= Cardinality(upTo(j))
        /\ Cardinality(upTo(i)) # Cardinality(upTo(j))
    BY <1>2, <2>1, <2>3, FS_Subset
  <2>. QED BY <1>2, <2>4
<1>4. ASSUME NEW i \in S PROVE Cardinality(upTo(i)) \in 1 .. n
  <2>1. upTo(i) # {}
    BY <1>4
  <2>. HIDE DEF upTo
  <2>2. Cardinality(upTo(i)) # 0
    BY <1>2, <2>1, FS_EmptySet
  <2>. QED BY <1>1, <1>2, <2>2
<1>. HIDE DEF upTo
<1>5. rank \in [S -> 1 .. n]
  BY <1>4
<1>6. rank \in Injection(S, 1 .. n)
  <2>1. ASSUME NEW i \in S, NEW j \in S, rank[i] = rank[j] PROVE i = j
    <3>1. ~ (i < j) /\ ~ (j < i)
      BY <1>2, <1>3, <2>1
    <3>. QED BY <3>1
  <2>. QED BY <1>5, <2>1 DEF Injection, IsInjective
<1>7. rank \in Surjection(S, 1 .. n)
  <2>1. IsFiniteSet(1 .. n) /\ Cardinality(1 .. n) = n
    BY <1>1, FS_Interval
  <2>. HIDE DEF rank
  <2>. QED BY <1>6, <2>1, FS_Injection
<1>8. \A k \in 1 .. n : \E i \in S : Cardinality(upTo(i)) = k
  BY <1>7 DEF Surjection
<1>. DEFINE q == InOrder(S)
<1>9. q = [k \in 1 .. n |-> CHOOSE i \in S : Cardinality(upTo(i)) = k]
  BY DEF InOrder, upTo
<1>10. ASSUME NEW k \in 1 .. n
       PROVE  q[k] \in S /\ Cardinality(upTo(q[k])) = k
  BY <1>8, <1>9
<1>. HIDE DEF q
<1>11. ASSUME NEW i \in S PROVE \E k \in 1 .. n : q[k] = i
  <2>. DEFINE k == Cardinality(upTo(i))
  <2>1. k \in 1 .. n
    BY <1>4
  <2>2. q[k] \in S /\ Cardinality(upTo(q[k])) = k
    BY <1>10, <2>1
  <2>3. ~ (q[k] < i) /\ ~ (i < q[k])
    <3>1. ~ (k < k)
      BY <2>1
    <3>. QED BY <1>3, <2>2, <3>1
  <2>. HIDE DEF k
  <2>4. q[k] \in Nat /\ i \in Nat
    BY <2>2
  <2>5. q[k] = i
    BY <2>3, <2>4
  <2>. QED BY <2>1, <2>5 DEF k
<1>12. ASSUME NEW j \in 1 .. n, NEW k \in 1 .. n, j < k PROVE q[j] < q[k]
  <2>1. q[j] \in S /\ q[k] \in S
    BY <1>10
  <2>2. q[j] # q[k]
    BY <1>10, <1>12
  <2>3. ~ (q[k] < q[j])
    <3>1. ~ (k < j)
      BY <1>12
    <3>. QED BY <1>3, <1>10, <2>1, <3>1
  <2>4. q[j] \in Nat /\ q[k] \in Nat
    BY <2>1
  <2>. QED BY <2>2, <2>3, <2>4
<1>13. q \in [1 .. n -> S]
  BY <1>9, <1>10, Zenon
<1>. QED BY <1>1, <1>11, <1>12, <1>13 DEF Lists, q

-----------------------------------------------------------------------------
(* Refinement: the queues of the mapping. ThreadsOf(s, S) takes the        *)
(* threads of the entries of s at the positions in S, oldest first.        *)

(* What ThreadsOf returns ...                                              *)
LEMMA QueueShape ==
  ASSUME NEW E, \A d \in E : d.ct \in Threads,
         NEW s \in Seq(E), NEW S, S \subseteq DOMAIN s
  PROVE  LET q == InOrder(S)
             n == Cardinality(S)
             r == ThreadsOf(s, S)
         IN /\ S \subseteq Nat /\ n \in Nat /\ Lists(q, n, S)
            /\ n = 0 <=> S = {}
            /\ r \in Seq(Threads) /\ Len(r) = n
            /\ \A k \in 1 .. n : q[k] \in S /\ r[k] = s[q[k]].ct
<1>. DEFINE q == InOrder(S)
            n == Cardinality(S)
            r == ThreadsOf(s, S)
<1>1. Len(s) \in Nat /\ DOMAIN s = 1 .. Len(s) /\ \A i \in DOMAIN s : s[i] \in E
  BY LenProperties, ElementOfSeq
<1>2. S \subseteq Nat
  BY <1>1
<1>3. IsFiniteSet(S)
  <2>1. IsFiniteSet(1 .. Len(s))
    BY <1>1, FS_Interval
  <2>. QED BY <1>1, <2>1, FS_Subset
<1>4. n \in Nat /\ Lists(q, n, S)
  BY <1>2, <1>3, InOrderLists
<1>5. n = 0 <=> S = {}
  BY <1>3, FS_EmptySet
<1>6. \A k \in 1 .. n : q[k] \in S
  BY <1>4 DEF Lists
<1>7. r = [k \in 1 .. n |-> s[q[k]].ct]
  BY DEF ThreadsOf
<1>. HIDE DEF q, n, r
<1>8. \A k \in 1 .. n : s[q[k]].ct \in Threads
  BY <1>1, <1>6
<1>9. r \in [1 .. n -> Threads]
  BY <1>7, <1>8
<1>10. r \in Seq(Threads) /\ Len(r) = n
  <2>1. r \in Seq(Threads)
    BY <1>4, <1>9, SeqDef
  <2>2. DOMAIN r = 1 .. n /\ DOMAIN r = 1 .. Len(r) /\ Len(r) \in Nat
    BY <1>9, <2>1, LenProperties
  <2>. QED BY <1>4, <2>1, <2>2
<1>. QED BY <1>2, <1>4, <1>5, <1>6, <1>7, <1>10 DEF q, n, r

(* ... and nothing else does.                                              *)
LEMMA QueueIs ==
  ASSUME NEW s, NEW S, S \subseteq Nat, NEW n \in Nat, NEW q, Lists(q, n, S)
  PROVE  ThreadsOf(s, S) = [k \in 1 .. n |-> s[q[k]].ct]
<1>1. Cardinality(S) = n /\ InOrder(S) = q
  BY ListIsInOrder
<1>. QED BY <1>1 DEF ThreadsOf

(* A sequence of threads is known by its length and its elements.          *)
LEMMA SameQueue ==
  ASSUME NEW n \in Nat, NEW r \in Seq(Threads), Len(r) = n
  PROVE  r = [k \in 1 .. n |-> r[k]]
BY LenProperties

(* a is s, a sequence of entries from E, with one more at its end.         *)
Extended(a, s, E) ==
  /\ s \in Seq(E)
  /\ \A d \in E : d.ct \in Threads
  /\ \A i \in 1 .. Len(s) : a[i] = s[i]
  /\ a[Len(s) + 1] \in E

(* An entry that is appended comes last in its own queue, and no other     *)
(* queue notices.                                                          *)
LEMMA QueueAppendOther ==
  ASSUME NEW E, NEW s, NEW a, Extended(a, s, E), NEW S, S \subseteq DOMAIN s
  PROVE  ThreadsOf(a, S) = ThreadsOf(s, S)
<1>. DEFINE q == InOrder(S)
            n == Cardinality(S)
            r == ThreadsOf(s, S)
<1>1. /\ S \subseteq Nat /\ n \in Nat /\ Lists(q, n, S)
      /\ r \in Seq(Threads) /\ Len(r) = n
      /\ \A k \in 1 .. n : q[k] \in S /\ r[k] = s[q[k]].ct
  BY QueueShape DEF Extended
<1>2. /\ Len(s) \in Nat /\ DOMAIN s = 1 .. Len(s)
      /\ \A i \in DOMAIN s : a[i] = s[i]
  BY LenProperties DEF Extended
<1>. HIDE DEF q, n, r
<1>3. \A k \in 1 .. n : r[k] = a[q[k]].ct
  BY <1>1, <1>2
<1>4. ThreadsOf(a, S) = r
  <2>1. ThreadsOf(a, S) = [k \in 1 .. n |-> a[q[k]].ct]
    BY <1>1, QueueIs
  <2>2. r = [k \in 1 .. n |-> r[k]]
    BY <1>1, SameQueue
  <2>. QED BY <1>3, <2>1, <2>2
<1>. QED BY <1>4 DEF r

(* ... and its own queue ends with it.                                     *)
LEMMA QueueAppendOwn ==
  ASSUME NEW E, NEW s, NEW a, Extended(a, s, E), NEW S, S \subseteq DOMAIN s
  PROVE  ThreadsOf(a, S \cup {Len(s) + 1})
           = Append(ThreadsOf(s, S), a[Len(s) + 1].ct)
<1>. DEFINE q == InOrder(S)
            n == Cardinality(S)
            r == ThreadsOf(s, S)
            e == a[Len(s) + 1]
<1>1. /\ S \subseteq Nat /\ n \in Nat /\ Lists(q, n, S)
      /\ r \in Seq(Threads) /\ Len(r) = n
      /\ \A k \in 1 .. n : q[k] \in S /\ r[k] = s[q[k]].ct
  BY QueueShape DEF Extended
<1>2. /\ Len(s) \in Nat /\ DOMAIN s = 1 .. Len(s)
      /\ \A i \in DOMAIN s : a[i] = s[i]
      /\ e \in E /\ a[Len(s) + 1] = e
  BY LenProperties DEF Extended
<1>. HIDE DEF q, n, r, e
<1>3. \A k \in 1 .. n : r[k] = a[q[k]].ct
  BY <1>1, <1>2
<1>. DEFINE p == [k \in 1 .. n + 1 |-> IF k \in 1 .. n THEN q[k] ELSE Len(s) + 1]
            t == Append(r, e.ct)
            T == S \cup {Len(s) + 1}
<1>5. n + 1 \in Nat /\ T \subseteq Nat
  BY <1>1, <1>2
<1>6. Lists(p, n + 1, T)
  <2>1. p \in [1 .. n + 1 -> T]
    BY <1>1
  <2>2. \A i \in T : \E k \in 1 .. n + 1 : p[k] = i
    <3>1. ASSUME NEW i \in S PROVE \E k \in 1 .. n + 1 : p[k] = i
      <4>1. PICK k \in 1 .. n : q[k] = i
        BY <1>1 DEF Lists
      <4>2. k \in 1 .. n + 1 /\ p[k] = i
        BY <1>1, <4>1
      <4>. QED BY <4>2
    <3>2. n + 1 \in 1 .. n + 1 /\ p[n + 1] = Len(s) + 1
      BY <1>1
    <3>. QED BY <3>1, <3>2
  <2>3. ASSUME NEW j \in 1 .. n + 1, NEW k \in 1 .. n + 1, j < k
        PROVE  p[j] < p[k]
    <3>1. j \in 1 .. n /\ p[j] = q[j]
      BY <1>1, <2>3
    <3>2. CASE k \in 1 .. n
      BY <1>1, <2>3, <3>1, <3>2 DEF Lists
    <3>3. CASE k \notin 1 .. n
      <4>1. q[j] \in 1 .. Len(s)
        BY <1>1, <1>2, <3>1
      <4>. QED BY <1>2, <3>1, <3>3, <4>1
    <3>. QED BY <3>2, <3>3
  <2>. HIDE DEF p
  <2>. QED BY <2>1, <2>2, <2>3 DEF Lists
<1>7. /\ t \in Seq(Threads) /\ Len(t) = n + 1 /\ t[n + 1] = e.ct
      /\ \A k \in 1 .. n : t[k] = r[k]
  <2>1. e.ct \in Threads
    BY <1>2 DEF Extended
  <2>. QED BY <1>1, <2>1, AppendProperties
<1>8. ASSUME NEW k \in 1 .. n + 1 PROVE t[k] = a[p[k]].ct
  <2>. HIDE DEF t
  <2>1. CASE k \in 1 .. n
    BY <1>3, <1>7, <2>1
  <2>2. CASE k \notin 1 .. n
    <3>1. k = n + 1
      BY <1>1, <2>2
    <3>. QED BY <1>2, <1>7, <3>1, <2>2
  <2>. QED BY <2>1, <2>2
<1>9. ThreadsOf(a, T) = t
  <2>. HIDE DEF p, t, T
  <2>1. ThreadsOf(a, T) = [k \in 1 .. n + 1 |-> a[p[k]].ct]
    <3>1. Cardinality(T) = n + 1 /\ InOrder(T) = p
      BY <1>5, <1>6, ListIsInOrder
    <3>. QED BY <3>1 DEF ThreadsOf
  <2>2. t = [k \in 1 .. n + 1 |-> t[k]]
    BY <1>5, <1>7, SameQueue
  <2>. QED BY <1>8, <2>1, <2>2
<1>. QED BY <1>9 DEF e, r

(* The positions of the entries of S after entry i was erased.             *)
Shifted(S, i, m) == {j \in 1 .. m : (IF j < i THEN j ELSE j + 1) \in S}

(* An entry that is erased is not missed by the queues it is not in ...    *)
LEMMA QueueEraseOther ==
  ASSUME NEW E, \A d \in E : d.ct \in Threads,
         NEW s \in Seq(E), NEW S, S \subseteq DOMAIN s, NEW i \in DOMAIN s, i \notin S
  PROVE  ThreadsOf(RemoveAt(s, i), Shifted(S, i, Len(s) - 1)) = ThreadsOf(s, S)
<1>. DEFINE q == InOrder(S)
            n == Cardinality(S)
            r == ThreadsOf(s, S)
            a == RemoveAt(s, i)
            T == Shifted(S, i, Len(s) - 1)
            p == [k \in 1 .. n |-> IF q[k] < i THEN q[k] ELSE q[k] - 1]
<1>1. /\ S \subseteq Nat /\ n \in Nat /\ Lists(q, n, S)
      /\ r \in Seq(Threads) /\ Len(r) = n
      /\ \A k \in 1 .. n : q[k] \in S /\ r[k] = s[q[k]].ct
  BY QueueShape
<1>2. Len(s) \in Nat /\ DOMAIN s = 1 .. Len(s)
  BY LenProperties
<1>3. \A j \in 1 .. Len(s) - 1 : a[j] = IF j < i THEN s[j] ELSE s[j + 1]
  BY <1>2, RemoveAtProperties
<1>. HIDE DEF q, n, r, a
<1>4. ASSUME NEW k \in 1 .. n
      PROVE  /\ q[k] \in 1 .. Len(s) /\ q[k] # i /\ p[k] \in T
             /\ a[p[k]] = s[q[k]]
             /\ (IF p[k] < i THEN p[k] ELSE p[k] + 1) = q[k]
  <2>1. q[k] \in 1 .. Len(s) /\ q[k] # i /\ q[k] \in S
    BY <1>1, <1>2
  <2>2. p[k] \in 1 .. Len(s) - 1 /\ (IF p[k] < i THEN p[k] ELSE p[k] + 1) = q[k]
    BY <1>2, <2>1
  <2>. HIDE DEF p
  <2>3. p[k] \in T
    BY <2>1, <2>2 DEF Shifted
  <2>4. a[p[k]] = s[q[k]]
    BY <1>3, <2>2
  <2>. QED BY <2>1, <2>2, <2>3, <2>4
<1>5. T \subseteq Nat
  BY DEF Shifted
<1>6. Lists(p, n, T)
  <2>1. p \in [1 .. n -> T]
    BY <1>4
  <2>2. ASSUME NEW j \in T PROVE \E k \in 1 .. n : p[k] = j
    <3>1. j \in 1 .. Len(s) - 1 /\ (IF j < i THEN j ELSE j + 1) \in S
      BY DEF Shifted
    <3>2. PICK k \in 1 .. n : q[k] = IF j < i THEN j ELSE j + 1
      BY <1>1, <3>1 DEF Lists
    <3>3. p[k] = j
      BY <1>2, <3>1, <3>2
    <3>. QED BY <3>3
  <2>3. ASSUME NEW j \in 1 .. n, NEW k \in 1 .. n, j < k PROVE p[j] < p[k]
    <3>1. q[j] < q[k]
      BY <1>1, <2>3 DEF Lists
    <3>. QED BY <1>2, <1>4, <3>1
  <2>. HIDE DEF p, T
  <2>. QED BY <2>1, <2>2, <2>3 DEF Lists
<1>7. \A k \in 1 .. n : r[k] = a[p[k]].ct
  BY <1>1, <1>4
<1>. HIDE DEF p, T
<1>8. ThreadsOf(a, T) = r
  <2>1. ThreadsOf(a, T) = [k \in 1 .. n |-> a[p[k]].ct]
    <3>1. n \in Nat
      BY <1>1
    <3>2. Cardinality(T) = n /\ InOrder(T) = p
      BY <1>5, <1>6, <3>1, ListIsInOrder
    <3>. QED BY <3>2 DEF ThreadsOf
  <2>2. r = [k \in 1 .. n |-> r[k]]
    BY <1>1, SameQueue
  <2>. QED BY <1>7, <2>1, <2>2
<1>. QED BY <1>8 DEF a, T, r

(* ... and is the first of its own queue if it is the oldest there.        *)
LEMMA QueueEraseFirst ==
  ASSUME NEW E, \A d \in E : d.ct \in Threads,
         NEW s \in Seq(E), NEW S, S \subseteq DOMAIN s,
         NEW i \in S, \A j \in S : i <= j
  PROVE  /\ ThreadsOf(s, S) # <<>>
         /\ Head(ThreadsOf(s, S)) = s[i].ct
         /\ ThreadsOf(RemoveAt(s, i), Shifted(S, i, Len(s) - 1)) = Tail(ThreadsOf(s, S))
<1>. DEFINE q == InOrder(S)
            n == Cardinality(S)
            r == ThreadsOf(s, S)
            a == RemoveAt(s, i)
            T == Shifted(S, i, Len(s) - 1)
            m == n - 1
            p == [k \in 1 .. m |-> q[k + 1] - 1]
<1>1. /\ S \subseteq Nat /\ n \in Nat /\ Lists(q, n, S)
      /\ n = 0 <=> S = {}
      /\ r \in Seq(Threads) /\ Len(r) = n
      /\ \A k \in 1 .. n : q[k] \in S /\ r[k] = s[q[k]].ct
  BY QueueShape
<1>2. Len(s) \in Nat /\ DOMAIN s = 1 .. Len(s) /\ i \in 1 .. Len(s)
  BY LenProperties
<1>3. \A j \in 1 .. Len(s) - 1 : a[j] = IF j < i THEN s[j] ELSE s[j + 1]
  BY <1>2, RemoveAtProperties
<1>. HIDE DEF q, n, r, a
<1>4. n \in Nat \ {0} /\ m \in Nat /\ 1 \in 1 .. n
  BY <1>1
<1>5. q[1] = i
  <2>1. PICK k \in 1 .. n : q[k] = i
    BY <1>1 DEF Lists
  <2>2. ~ (1 < k)
    <3>1. ASSUME 1 < k PROVE FALSE
      <4>1. q[1] < q[k] /\ q[1] \in S
        BY <1>1, <1>4, <3>1 DEF Lists
      <4>2. i <= q[1] /\ q[1] \in Nat /\ i \in Nat
        BY <1>1, <4>1
      <4>. QED BY <2>1, <4>1, <4>2
    <3>. QED BY <3>1
  <2>3. k = 1
    BY <2>2
  <2>. QED BY <2>1, <2>3
<1>6. r # <<>>
  BY <1>1, <1>4, EmptySeq
<1>7. Head(r) = s[i].ct
  BY <1>1, <1>4, <1>5, <1>6
<1>8. ASSUME NEW k \in 1 .. m
      PROVE  /\ k + 1 \in 1 .. n /\ q[k + 1] \in 1 .. Len(s) /\ i < q[k + 1]
             /\ q[k + 1] \in S
  <2>1. k + 1 \in 1 .. n /\ 1 < k + 1
    BY <1>4
  <2>2. q[k + 1] \in S
    BY <1>1, <2>1
  <2>3. i < q[k + 1]
    BY <1>1, <1>4, <1>5, <2>1 DEF Lists
  <2>4. q[k + 1] \in 1 .. Len(s)
    BY <1>2, <2>2
  <2>. QED BY <2>1, <2>2, <2>3, <2>4
<1>9. ASSUME NEW k \in 1 .. m
      PROVE  p[k] \in T /\ a[p[k]] = s[q[k + 1]] /\ p[k] + 1 = q[k + 1]
  <2>1. p[k] \in 1 .. Len(s) - 1 /\ ~ (p[k] < i) /\ p[k] + 1 = q[k + 1]
    BY <1>2, <1>8
  <2>. HIDE DEF p
  <2>2. p[k] \in T
    BY <1>8, <2>1 DEF Shifted
  <2>3. a[p[k]] = s[q[k + 1]]
    BY <1>3, <2>1
  <2>. QED BY <2>1, <2>2, <2>3
<1>10. T \subseteq Nat
  BY DEF Shifted
<1>11. Lists(p, m, T)
  <2>1. p \in [1 .. m -> T]
    BY <1>9
  <2>2. ASSUME NEW j \in T PROVE \E k \in 1 .. m : p[k] = j
    <3>1. j \in 1 .. Len(s) - 1 /\ (IF j < i THEN j ELSE j + 1) \in S
      BY DEF Shifted
    <3>2. ~ (j < i) /\ j + 1 \in S
      <4>1. j < i => j \in S /\ i <= j
        BY <3>1
      <4>2. ~ (j < i)
        BY <1>2, <3>1, <4>1
      <4>. QED BY <3>1, <4>2
    <3>3. PICK k \in 1 .. n : q[k] = j + 1
      BY <1>1, <3>2 DEF Lists
    <3>4. k # 1
      BY <1>2, <1>5, <3>1, <3>2, <3>3
    <3>5. k - 1 \in 1 .. m
      BY <1>4, <3>4
    <3>6. p[k - 1] = j
      BY <3>1, <3>3, <3>5
    <3>. QED BY <3>5, <3>6
  <2>3. ASSUME NEW j \in 1 .. m, NEW k \in 1 .. m, j < k PROVE p[j] < p[k]
    <3>1. q[j + 1] < q[k + 1]
      <4>1. j + 1 \in 1 .. n /\ k + 1 \in 1 .. n /\ j + 1 < k + 1
        BY <1>8, <2>3
      <4>. QED BY <1>1, <4>1 DEF Lists
    <3>. QED BY <1>2, <1>8, <3>1
  <2>. HIDE DEF p, T, m
  <2>. QED BY <2>1, <2>2, <2>3 DEF Lists
<1>12. /\ Tail(r) \in Seq(Threads) /\ Len(Tail(r)) = m
       /\ \A k \in 1 .. m : Tail(r)[k] = r[k + 1]
  BY <1>1, <1>6, HeadTailProperties
<1>13. \A k \in 1 .. m : Tail(r)[k] = a[p[k]].ct
  BY <1>1, <1>8, <1>9, <1>12
<1>14. ThreadsOf(a, T) = Tail(r)
  <2>. HIDE DEF p, T, m
  <2>1. ThreadsOf(a, T) = [k \in 1 .. m |-> a[p[k]].ct]
    <3>1. m \in Nat
      BY <1>4
    <3>2. Cardinality(T) = m /\ InOrder(T) = p
      BY <1>10, <1>11, <3>1, ListIsInOrder
    <3>. QED BY <3>2 DEF ThreadsOf
  <2>2. Tail(r) = [k \in 1 .. m |-> Tail(r)[k]]
    BY <1>4, <1>12, SameQueue
  <2>. QED BY <1>13, <2>1, <2>2
<1>. QED BY <1>6, <1>7, <1>14 DEF a, T, r

(* Who is in a queue.                                                      *)
LEMMA QueueMembers ==
  ASSUME NEW E, \A d \in E : d.ct \in Threads,
         NEW s \in Seq(E), NEW S, S \subseteq DOMAIN s, NEW t
  PROVE  /\ ThreadsOf(s, S) \in Seq(Threads)
         /\ t \in Range(ThreadsOf(s, S)) <=> \E i \in S : s[i].ct = t
         /\ ThreadsOf(s, S) = <<>> <=> S = {}
<1>. DEFINE q == InOrder(S)
            n == Cardinality(S)
            r == ThreadsOf(s, S)
<1>1. /\ n \in Nat /\ Lists(q, n, S)
      /\ n = 0 <=> S = {}
      /\ r \in Seq(Threads) /\ Len(r) = n
      /\ \A k \in 1 .. n : q[k] \in S /\ r[k] = s[q[k]].ct
  BY QueueShape
<1>. HIDE DEF q, n, r
<1>2. DOMAIN r = 1 .. n
  BY <1>1, LenProperties
<1>3. t \in Range(r) <=> \E i \in S : s[i].ct = t
  <2>1. t \in Range(r) <=> \E k \in 1 .. n : r[k] = t
    BY <1>2 DEF Range
  <2>2. \A i \in S : \E k \in 1 .. n : q[k] = i
    BY <1>1 DEF Lists
  <2>3. \A k \in 1 .. n : q[k] \in S /\ r[k] = s[q[k]].ct
    BY <1>1
  <2>. QED BY <2>1, <2>2, <2>3
<1>4. r = <<>> <=> S = {}
  BY <1>1, EmptySeq
<1>. QED BY <1>1, <1>3, <1>4 DEF r

-----------------------------------------------------------------------------
(* Refinement: what the invariant says of the mapped variables.            *)

(* A thread that waits on a condition variable, or was woken and has not   *)
(* run yet, does not have the lock it released.                            *)
HasReleased ==
  \A t \in Threads : At(t) = "wait" => frame[t].lock \notin locks[t]

(* ... and every step keeps it so.                                        *)
LEMMA HasReleasedStep ==
  ASSUME Inv, HasReleased, [Next]_vars
  PROVE  HasReleased'
<1>. USE DEF At, Frame
<1>1. TypeOK /\ OnePlace /\ QueuesMatchFrames
  BY DEF Inv
<1>2. ASSUME NEW l, NEW at \in {"lock", "relock"}, mode = "threads",
             LockLoop(l, at)
      PROVE  HasReleased'
  <2>1. /\ \A t \in Threads : t # running => locks'[t] = locks[t] /\ frame'[t] = frame[t]
        /\ frame'[running].at # "wait" \/ UNCHANGED <<locks, frame>>
    BY <1>1, <1>2 DEF LockLoop, Return, UserFrame, TypeOK
  <2>. QED BY <2>1 DEF HasReleased
<1>3. ASSUME NEW l \in Locks, mode = "threads", At(running) = "user",
             l \in locks[running], Release(l)
      PROVE  /\ l \notin locks'[running]
             /\ \A t \in Threads : At(t) = "wait" => locks'[t] = locks[t]
  <2>1. CASE locks' = [locks EXCEPT ![running] = @ \ {l}]
    BY <1>1, <1>3, <2>1 DEF TypeOK
  <2>2. ASSUME NEW i \in DOMAIN waiting, waiting[i].ct \in Threads,
               locks' = [[locks EXCEPT ![running] = @ \ {l}]
                           EXCEPT ![waiting[i].ct] = @ \cup {l}]
        PROVE  /\ l \notin locks'[running]
               /\ \A t \in Threads : At(t) = "wait" => locks'[t] = locks[t]
    <3>1. waiting[i].ct # running /\ At(waiting[i].ct) # "wait"
      BY <1>1, <2>2 DEF OnePlace, LockBlocked, QueuesMatchFrames
    <3>. QED BY <1>1, <1>3, <2>2, <3>1 DEF TypeOK
  <2>. QED BY <1>3, <2>1, <2>2, ReleaseFacts
<1>4. ASSUME NEW l \in Locks, Unlock(l) PROVE HasReleased'
  BY <1>1, <1>3, <1>4 DEF Unlock, Enter, HasReleased
<1>5. ASSUME NEW l \in Locks, NEW c \in Conds, Wait(l, c) PROVE HasReleased'
  <2>1. /\ mode = "threads" /\ At(running) = "user" /\ l \in locks[running]
        /\ Release(l)
        /\ \/ frame' = [frame EXCEPT ![running] = Frame("wait", l, None)]
           \/ UNCHANGED frame
    BY <1>5 DEF Wait, Enter
  <2>. QED BY <1>1, <1>3, <2>1 DEF HasReleased, TypeOK
<1>6. CASE Exit
  BY <1>1, <1>6 DEF Exit, Enter, HasReleased, TypeOK
<1>7. ASSUME NEW t \in Threads, Libinit(t) \/ Create(t) PROVE HasReleased'
  <2>1. locks' = locks /\ frame' = [frame EXCEPT ![t] = Frame("start", None, None)]
    BY <1>7 DEF Libinit, Create
  <2>. QED BY <1>1, <2>1 DEF HasReleased, TypeOK
<1>8. CASE ResumeLock \/ ResumeWait \/ ResumeRelock \/ \E l \in Locks : Lock(l)
  BY <1>2, <1>8 DEF ResumeLock, ResumeWait, ResumeRelock, Lock, Inside, Enter
<1>9. CASE Yield \/ Start \/ ResumeYield \/ BroadcastReturn
  BY <1>1, <1>9 DEF Yield, Start, ResumeYield, BroadcastReturn, Return, UserFrame,
                    Enter, Inside, HasReleased, TypeOK
<1>10. ASSUME NEW l \in Locks, NEW c \in Conds, Signal(l, c) \/ Broadcast(l, c)
       PROVE  HasReleased'
  BY <1>1, <1>10 DEF Signal, Broadcast, Enter, HasReleased, TypeOK
<1>11. CASE LibinitFails \/ MainReturns \/ BroadcastWake \/ UNCHANGED vars
  BY <1>11 DEF LibinitFails, MainReturns, BroadcastWake, vars, HasReleased
<1>. QED
  BY <1>4, <1>5, <1>6, <1>7, <1>8, <1>9, <1>10, <1>11 DEF Next, Resume, Exited

-----------------------------------------------------------------------------
(* The owner of a lock.                                                    *)
LEMMA OwnerFacts ==
  ASSUME MutualExclusion, NEW l
  PROVE  /\ \A t \in Threads : Owner(l) = t <=> l \in locks[t]
         /\ Owner(l) = None <=> \A t \in Threads : l \notin locks[t]
<1>1. CASE \E t \in Threads : l \in locks[t]
  <2>1. Owner(l) \in Threads /\ l \in locks[Owner(l)]
    BY <1>1 DEF Owner
  <2>. HIDE DEF Owner
  <2>. QED BY <1>1, <2>1, NoneAssumption DEF MutualExclusion
<1>2. CASE ~ \E t \in Threads : l \in locks[t]
  BY <1>2, NoneAssumption DEF Owner
<1>. QED BY <1>1, <1>2

(* The same of the next state.                                             *)
LEMMA OwnerFactsNext ==
  ASSUME MutualExclusion', NEW l
  PROVE  /\ \A t \in Threads : Owner(l)' = t <=> l \in locks'[t]
         /\ Owner(l)' = None <=> \A t \in Threads : l \notin locks'[t]
<1>1. CASE \E t \in Threads : l \in locks'[t]
  <2>1. Owner(l)' \in Threads /\ l \in locks'[Owner(l)']
    BY <1>1 DEF Owner
  <2>2. \A t, u \in Threads : t # u => locks'[t] \cap locks'[u] = {}
    BY DEF MutualExclusion
  <2>. DEFINE o == Owner(l)'
  <2>. HIDE DEF o
  <2>3. o \in Threads /\ l \in locks'[o]
    BY <2>1 DEF o
  <2>4. /\ \A t \in Threads : o = t <=> l \in locks'[t]
        /\ o = None <=> \A t \in Threads : l \notin locks'[t]
    BY <1>1, <2>2, <2>3, NoneAssumption
  <2>. QED BY <2>4 DEF o
<1>2. CASE ~ \E t \in Threads : l \in locks'[t]
  BY <1>2, NoneAssumption DEF Owner
<1>. QED BY <1>1, <1>2

(* A lock whose holders stay keeps its owner.                              *)
LEMMA OwnerStays ==
  ASSUME MutualExclusion, MutualExclusion', NEW l,
         \A t \in Threads : l \in locks'[t] <=> l \in locks[t]
  PROVE  Owner(l)' = Owner(l)
<1>1. CASE \E t \in Threads : l \in locks[t]
  <2>1. PICK t \in Threads : l \in locks[t]
    BY <1>1
  <2>. QED BY <2>1, OwnerFacts, OwnerFactsNext
<1>2. CASE ~ \E t \in Threads : l \in locks[t]
  BY <1>2, OwnerFacts, OwnerFactsNext
<1>. QED BY <1>1, <1>2

(* For the monitor a lock is free exactly if locks_using does not have it. *)
LEMMA FreeLocks ==
  ASSUME Inv, NEW l \in Locks
  PROVE  Monitor!Free(l) <=> l \notin using
<1>1. Owner(l) = None <=> \A t \in Threads : l \notin locks[t]
  BY OwnerFacts DEF Inv
<1>2. Owners[l] = Owner(l)
  BY DEF Owners
<1>3. l \in LostLocks <=> l \in using /\ \A t \in Threads : l \notin locks[t]
  BY DEF LostLocks
<1>4. \A t \in Threads : l \in locks[t] => l \in using
  BY DEF Inv, LockAccounting
<1>. QED BY <1>1, <1>2, <1>3, <1>4 DEF Monitor!Free

-----------------------------------------------------------------------------
(* No loop of thread_broadcast is under way.                               *)
Quiet == mode = "threads" => At(running) # "broadcast"

(* What is in ct_queue_waiting and ct_queue_cv.                            *)
LEMMA QueueTypes ==
  ASSUME TypeOK
  PROVE  /\ \A d \in LockEntry : d.ct \in Threads
         /\ \A d \in CvEntry : d.ct \in Threads
         /\ \A l : Waiters(l) \subseteq DOMAIN waiting
         /\ \A l, c : CvWaiters(l, c) \subseteq DOMAIN cv /\ Asleep(l, c) \subseteq DOMAIN cv
BY DEF LockEntry, CvEntry, Waiters, CvWaiters, Asleep

(* A thread the monitor calls blocked is in one of those queues.           *)
LEMMA BlockedFacts ==
  ASSUME TypeOK, NEW t
  PROVE  /\ Monitor!Blocked(t) => LockBlocked(t) \/ CvBlocked(t)
         /\ LockBlocked(t) => Monitor!Blocked(t)
         /\ Quiet /\ CvBlocked(t) => Monitor!Blocked(t)
<1>1. \A l \in Locks : t \in Range(LockQueues[l]) <=> \E i \in Waiters(l) : waiting[i].ct = t
  <2>1. ASSUME NEW l \in Locks
        PROVE  t \in Range(LockQueues[l]) <=> \E i \in Waiters(l) : waiting[i].ct = t
    <3>1. LockQueues[l] = ThreadsOf(waiting, Waiters(l))
      BY DEF LockQueues
    <3>2. waiting \in Seq(LockEntry)
      BY DEF TypeOK
    <3>. QED BY <3>1, <3>2, QueueTypes, QueueMembers
  <2>. QED BY <2>1
<1>2. \A p \in Locks \X Conds :
        t \in Range(SleepQueues[p]) <=> \E i \in Asleep(p[1], p[2]) : cv[i].ct = t
  <2>1. ASSUME NEW p \in Locks \X Conds
        PROVE  t \in Range(SleepQueues[p]) <=> \E i \in Asleep(p[1], p[2]) : cv[i].ct = t
    <3>1. SleepQueues[p] = ThreadsOf(cv, Asleep(p[1], p[2]))
      BY DEF SleepQueues
    <3>2. cv \in Seq(CvEntry)
      BY DEF TypeOK
    <3>. QED BY <3>1, <3>2, QueueTypes, QueueMembers
  <2>. QED BY <2>1
<1>3. Monitor!Blocked(t) <=> \/ \E l \in Locks : \E i \in Waiters(l) : waiting[i].ct = t
                             \/ \E p \in Locks \X Conds :
                                  \E i \in Asleep(p[1], p[2]) : cv[i].ct = t
  BY <1>1, <1>2 DEF Monitor!Blocked, Monitor!Range, Range
<1>4. LockBlocked(t) <=> \E l \in Locks : \E i \in Waiters(l) : waiting[i].ct = t
  BY EntryTypes DEF LockBlocked, Waiters
<1>5. \A p \in Locks \X Conds : \A i \in Asleep(p[1], p[2]) : i \in DOMAIN cv
  BY QueueTypes
<1>6. ASSUME Quiet, CvBlocked(t)
      PROVE  \E p \in Locks \X Conds : \E i \in Asleep(p[1], p[2]) : cv[i].ct = t
  <2>1. PICK i \in DOMAIN cv : cv[i].ct = t
    BY <1>6 DEF CvBlocked
  <2>2. cv[i].lock \in Locks /\ cv[i].cond \in Conds
    BY EntryTypes
  <2>. DEFINE p == <<cv[i].lock, cv[i].cond>>
  <2>3. p \in Locks \X Conds /\ p[1] = cv[i].lock /\ p[2] = cv[i].cond
    BY <2>2
  <2>. HIDE DEF p
  <2>4. ~ Broadcasting(p[1], p[2])
    BY <1>6 DEF Quiet, Broadcasting, Frame, At
  <2>5. i \in Asleep(p[1], p[2])
    BY <2>3, <2>4 DEF Asleep, CvWaiters
  <2>. QED BY <2>1, <2>3, <2>5
<1>. QED BY <1>3, <1>4, <1>5, <1>6 DEF CvBlocked

-----------------------------------------------------------------------------
(* Refinement: the calls that touch no queue but the run queue.            *)

(* A thread in application code is one that the monitor lets act.          *)
LEMMA RunningIsActive ==
  ASSUME Inv, Enter
  PROVE  running \in Threads /\ Monitor!Active(running)
<1>. USE DEF At
<1>1. running \in Threads /\ At(running) = "user" /\ mode = "threads"
  BY DEF Inv, TypeOK, Enter
<1>2. ~ Monitor!Blocked(running)
  BY <1>1, BlockedFacts DEF Inv, OnePlace
<1>3. Life[running] = "live" /\ ToTakeBack[running] = None /\ ~ Over
  BY <1>1 DEF Life, ToTakeBack, Over
<1>. QED BY <1>1, <1>2, <1>3 DEF Monitor!Active, Monitor!Ready

(* With an empty run queue, only the running thread can go on; with        *)
(* another thread in it, that one can.                                     *)
LEMMA OthersBlocked ==
  ASSUME Inv, mode = "threads", Quiet
  PROVE  Monitor!AllOthersBlocked(running) <=> runnable = <<>>
<1>. USE DEF At
<1>1. TypeOK /\ OnePlace /\ NoThreadLost /\ QueuesMatchFrames
  BY DEF Inv
<1>2. ASSUME runnable = <<>>, NEW u \in Threads \ {running}, Life[u] = "live"
      PROVE  Monitor!Blocked(u)
  <2>1. At(u) \notin {"none", "done"}
    BY <1>2 DEF Life
  <2>2. ~ Runnable(u)
    BY <1>2 DEF Runnable
  <2>3. LockBlocked(u) \/ CvBlocked(u)
    BY <1>1, <1>2, <2>1, <2>2 DEF NoThreadLost
  <2>. QED BY <1>1, <2>3, BlockedFacts
<1>3. ASSUME runnable # <<>>
      PROVE  \E u \in Threads \ {running} : Life[u] = "live" /\ ~ Monitor!Blocked(u)
  <2>1. 1 \in DOMAIN runnable
    BY <1>1, <1>3, TailIsWithout DEF TypeOK
  <2>. DEFINE u == runnable[1]
  <2>2. u \in Threads /\ Runnable(u) /\ At(u) \in Suspended
    BY <1>1, <2>1, EntryTypes DEF Runnable, QueuesMatchFrames
  <2>. HIDE DEF u
  <2>3. u # running /\ ~ LockBlocked(u) /\ ~ CvBlocked(u)
    BY <1>1, <2>2 DEF OnePlace
  <2>4. ~ Monitor!Blocked(u)
    BY <1>1, <2>3, BlockedFacts
  <2>5. Life[u] = "live"
    BY <2>2 DEF Life, Suspended
  <2>. QED BY <2>2, <2>3, <2>4, <2>5
<1>. QED BY <1>2, <1>3 DEF Monitor!AllOthersBlocked

-----------------------------------------------------------------------------
(* What leaves a part of the monitor alone.                                *)

(* The variables of the mapping stay while what they are made from stays.  *)
LEMMA LifeSame ==
  ASSUME \A t \in Threads : /\ At(t)' = "none" <=> At(t) = "none"
                            /\ At(t)' = "done" <=> At(t) = "done"
  PROVE  Life' = Life
BY DEF Life

LEMMA TakeBackSame ==
  ASSUME \A t \in Threads :
           frame'[t] = frame[t] \/ (At(t)' # "wait" /\ At(t) # "wait")
  PROVE  ToTakeBack' = ToTakeBack
BY DEF ToTakeBack, At

LEMMA LockQueuesSame ==
  ASSUME UNCHANGED waiting
  PROVE  LockQueues' = LockQueues
BY DEF LockQueues, ThreadsOf, Waiters, InOrder

LEMMA SleepQueuesSame ==
  ASSUME UNCHANGED cv, Quiet, Quiet'
  PROVE  SleepQueues' = SleepQueues
<1>1. \A l, c : ~ Broadcasting(l, c) /\ ~ Broadcasting(l, c)'
  BY DEF Quiet, Broadcasting, Frame, At
<1>2. \A l, c : Asleep(l, c)' = Asleep(l, c)
  BY <1>1 DEF Asleep, CvWaiters
<1>3. \A S : ThreadsOf(cv, S)' = ThreadsOf(cv, S)
  BY DEF ThreadsOf
<1>. QED BY <1>2, <1>3 DEF SleepQueues

LEMMA OwnersSame ==
  ASSUME UNCHANGED <<locks, using>>
  PROVE  Owners' = Owners /\ LostLocks' = LostLocks
BY DEF Owners, Owner, LostLocks

LEMMA OverSame ==
  ASSUME UNCHANGED mode
  PROVE  Over' = Over
BY DEF Over

(* The running thread stops or goes on somewhere else in the library, or   *)
(* returns: seen from the monitor, nothing about lives changes.            *)
LEMMA FrameOfRunning ==
  ASSUME TypeOK, running \in Threads, NEW f,
         frame' = [frame EXCEPT ![running] = f],
         At(running) \notin {"none", "done"}, f.at \notin {"none", "done"}
  PROVE  Life' = Life
<1>1. \A t \in Threads : t # running => At(t)' = At(t)
  BY DEF TypeOK, At
<1>2. \A t \in Threads : t = running => At(t)' = f.at
  BY DEF TypeOK, At
<1>. QED BY <1>1, <1>2, LifeSame

-----------------------------------------------------------------------------
(* Calls that change nothing the monitor has, and calls about lives.       *)

(* thread_libinit: the first thread comes to life.                         *)
LEMMA LibinitRefines ==
  ASSUME Inv, NEW t \in Threads, Libinit(t)
  PROVE  Monitor!Begin(t)
<1>. USE DEF At, Frame
<1>1. /\ TypeOK /\ At(t) = "none" /\ mode = "main" /\ mode' = "threads" /\ running' = t
      /\ frame' = [frame EXCEPT ![t] = Frame("start", None, None)]
      /\ UNCHANGED <<waiting, cv, locks, using>>
      /\ \A u \in Threads : At(u) = "none"
  BY DEF Inv, BeforeThreads, Libinit
<1>2. ~ Over /\ Life[t] = "unborn" /\ Over' = Over
  BY <1>1 DEF Over, Life
<1>3. Life' = [Life EXCEPT ![t] = "live"]
  BY <1>1 DEF Life, TypeOK
<1>4. Quiet /\ Quiet'
  BY <1>1 DEF Quiet, TypeOK
<1>5. ToTakeBack' = ToTakeBack
  BY <1>1 DEF ToTakeBack, TypeOK
<1>. QED
  BY <1>1, <1>2, <1>3, <1>4, <1>5, OwnersSame, LockQueuesSame, SleepQueuesSame
     DEF Monitor!Begin

(* thread_create: the new thread comes to life.                            *)
LEMMA CreateRefines ==
  ASSUME Inv, NEW t \in Threads, Create(t)
  PROVE  Monitor!Begin(t)
<1>. USE DEF At, Frame
<1>1. /\ TypeOK /\ At(t) = "none" /\ mode = "threads" /\ At(running) = "user"
      /\ t # running /\ running \in Threads
      /\ frame' = [frame EXCEPT ![t] = Frame("start", None, None)]
      /\ UNCHANGED <<mode, running, waiting, cv, locks, using>>
  BY DEF Inv, TypeOK, Create, Enter
<1>2. ~ Over /\ Life[t] = "unborn" /\ Over' = Over
  BY <1>1 DEF Over, Life
<1>3. Life' = [Life EXCEPT ![t] = "live"]
  BY <1>1 DEF Life, TypeOK
<1>4. Quiet /\ Quiet'
  BY <1>1 DEF Quiet, TypeOK
<1>5. ToTakeBack' = ToTakeBack
  <2>1. \A u \in Threads : frame'[u] = frame[u] \/ (At(u)' # "wait" /\ At(u) # "wait")
    BY <1>1 DEF TypeOK
  <2>. QED BY <2>1, TakeBackSame
<1>. QED
  BY <1>1, <1>2, <1>3, <1>4, <1>5, OwnersSame, LockQueuesSame, SleepQueuesSame
     DEF Monitor!Begin

(* The return of the first function is the end of its thread.              *)
LEMMA MainReturnsRefines ==
  ASSUME Inv, MainReturns
  PROVE  Monitor!HaltUnused
<1>1. /\ mode = "main" /\ mode' = "exited" /\ \A t \in Threads : At(t) = "none"
      /\ UNCHANGED <<running, waiting, cv, locks, using, frame>>
  BY DEF Inv, BeforeThreads, MainReturns
<1>2. Over' /\ Quiet /\ Quiet'
  BY <1>1 DEF Over, Quiet
<1>3. Life' = Life /\ ToTakeBack' = ToTakeBack
  BY <1>1 DEF Life, ToTakeBack, At
<1>4. \A t \in Threads : Life[t] = "unborn"
  BY <1>1 DEF Life
<1>. QED
  BY <1>1, <1>2, <1>3, <1>4, OwnersSame, LockQueuesSame, SleepQueuesSame
     DEF Monitor!HaltUnused, Over

(* Frees the context and the lock set; the locks in it are lost.           *)
LEMMA ExitRefines ==
  ASSUME Inv, Inv', Exit
  PROVE  Monitor!End(running)
<1>. USE DEF At, Frame
<1>1. /\ TypeOK /\ running \in Threads /\ mode = "threads" /\ At(running) = "user"
      /\ locks' = [locks EXCEPT ![running] = {}]
      /\ frame' = [frame EXCEPT ![running] = Frame("done", None, None)]
      /\ UNCHANGED <<waiting, cv, using>>
  BY DEF Inv, TypeOK, Exit, Enter
<1>2. Monitor!Active(running)
  BY RunningIsActive DEF Exit
<1>3. Life' = [Life EXCEPT ![running] = "dead"]
  BY <1>1 DEF Life, TypeOK
<1>4. ToTakeBack' = ToTakeBack
  <2>1. \A t \in Threads : frame'[t] = frame[t] \/ (At(t)' # "wait" /\ At(t) # "wait")
    BY <1>1 DEF TypeOK
  <2>. QED BY <2>1, TakeBackSame
<1>5. Quiet /\ (runnable = <<>> <=> mode' = "exited")
  BY <1>1 DEF Quiet, Exit, Dispatch, EndProcess
<1>6. Over' = Monitor!AllOthersBlocked(running)
  BY <1>1, <1>5, OthersBlocked DEF Over, Monitor!AllOthersBlocked
<1>7. Quiet'
  <2>1. CASE Dispatch(runnable)
    <3>1. running' = runnable[1] /\ 1 \in DOMAIN runnable
      BY <1>1, <2>1, DispatchFacts DEF TypeOK
    <3>2. running' # running /\ At(running') \in Suspended /\ running' \in Threads
      BY <1>1, <3>1, EntryTypes DEF Inv, OnePlace, QueuesMatchFrames, Runnable
    <3>. QED BY <1>1, <3>2 DEF Quiet, Suspended, TypeOK
  <2>2. CASE EndProcess
    BY <2>2 DEF EndProcess, Quiet
  <2>. QED BY <2>1, <2>2 DEF Exit
<1>8. SleepQueues' = SleepQueues /\ LockQueues' = LockQueues
  BY <1>1, <1>5, <1>7, SleepQueuesSame, LockQueuesSame
<1>9. MutualExclusion /\ MutualExclusion'
  BY DEF Inv
<1>10. ASSUME NEW l \in Locks
       PROVE  Owner(l)' = IF Owner(l) = running THEN None ELSE Owner(l)
  <2>1. CASE l \in locks[running]
    <3>1. Owner(l) = running
      BY <1>1, <1>9, <2>1, OwnerFacts
    <3>2. \A t \in Threads : l \notin locks'[t]
      BY <1>1, <1>9, <2>1 DEF MutualExclusion, TypeOK
    <3>. QED BY <1>9, <3>1, <3>2, OwnerFactsNext
  <2>2. CASE l \notin locks[running]
    <3>1. Owner(l) # running
      BY <1>1, <1>9, <2>2, OwnerFacts
    <3>2. \A t \in Threads : l \in locks'[t] <=> l \in locks[t]
      BY <1>1, <2>2 DEF TypeOK
    <3>. QED BY <1>9, <3>1, <3>2, OwnerStays
  <2>. QED BY <2>1, <2>2
<1>11. Owners' = [l \in Locks |-> IF Owners[l] = running THEN None ELSE Owners[l]]
  BY <1>10 DEF Owners
<1>12. LostLocks' = LostLocks \cup {l \in Locks : Owners[l] = running}
  <2>1. \A l \in Locks : Owners[l] = running <=> l \in locks[running]
    BY <1>1, <1>9, OwnerFacts DEF Owners
  <2>2. \A l \in locks[running] : l \in using /\ l \in Locks
    BY <1>1 DEF Inv, LockAccounting, TypeOK
  <2>3. \A l \in locks[running] : \A t \in Threads : l \notin locks'[t]
    BY <1>1, <1>9 DEF MutualExclusion, TypeOK
  <2>4. \A l : l \notin locks[running] =>
          \A t \in Threads : l \in locks'[t] <=> l \in locks[t]
    BY <1>1 DEF TypeOK
  <2>. QED BY <1>1, <2>1, <2>2, <2>3, <2>4 DEF LostLocks
<1>. QED BY <1>2, <1>3, <1>4, <1>6, <1>8, <1>11, <1>12 DEF Monitor!End

-----------------------------------------------------------------------------
(* Refinement: returns, and the passing on of a released lock.             *)

(* No thread comes to the loop of thread_broadcast but by calling it.      *)
LEMMA QuietNext ==
  ASSUME Inv, Inv', mode = "threads", NEW f, f.at # "broadcast",
         frame' = [frame EXCEPT ![running] = f]
  PROVE  Quiet'
<1>. USE DEF At
<1>1. \A t \in Threads : At(t) = "broadcast" => t = running
  BY DEF Inv, MaskDiscipline
<1>2. \A t \in Threads : At(t)' # "broadcast"
  BY <1>1 DEF Inv, TypeOK
<1>3. mode' = "threads" => running' \in Threads
  BY DEF Inv, TypeOK
<1>. QED BY <1>2, <1>3 DEF Quiet

(* A switch to another thread does not start a loop either.                *)
LEMMA QuietStays ==
  ASSUME Inv, Inv', mode = "threads", Quiet, UNCHANGED frame
  PROVE  Quiet'
<1>. USE DEF At
<1>1. \A t \in Threads : At(t) = "broadcast" => t = running
  BY DEF Inv, MaskDiscipline
<1>2. \A t \in Threads : At(t)' # "broadcast"
  BY <1>1 DEF Quiet
<1>3. mode' = "threads" => running' \in Threads
  BY DEF Inv, TypeOK
<1>. QED BY <1>2, <1>3 DEF Quiet

(* thread_yield changes nothing the monitor knows.                         *)
LEMMA YieldRefines ==
  ASSUME Inv, Inv', Yield
  PROVE  UNCHANGED Monitor!mvars
<1>. DEFINE f == Frame("yield", None, None)
<1>1. /\ TypeOK /\ mode = "threads" /\ running \in Threads /\ At(running) = "user"
      /\ frame' = [frame EXCEPT ![running] = f]
      /\ UNCHANGED <<mode, waiting, cv, locks, using>>
  BY DEF Inv, TypeOK, Yield, Enter
<1>2. f.at = "yield"
  BY DEF Frame
<1>. HIDE DEF f
<1>3. Life' = Life
  BY <1>1, <1>2, FrameOfRunning
<1>4. Quiet /\ Quiet'
  BY <1>1, <1>2, QuietNext DEF Quiet
<1>5. ToTakeBack' = ToTakeBack
  <2>1. \A t \in Threads : frame'[t] = frame[t] \/ (At(t)' # "wait" /\ At(t) # "wait")
    BY <1>1, <1>2 DEF TypeOK, At
  <2>. QED BY <2>1, TakeBackSame
<1>. QED
  BY <1>1, <1>3, <1>4, <1>5, OwnersSame, LockQueuesSame, SleepQueuesSame, OverSame
     DEF Monitor!mvars

(* A call that is suspended or in a loop returns: nothing the monitor can  *)
(* see, unless it is thread_wait or a loop with threads left to wake.      *)
LEMMA ReturnRefines ==
  ASSUME Inv, Inv', mode = "threads", Return,
         At(running) \in {"start", "yield", "broadcast"},
         At(running) = "broadcast" =>
           CvWaiters(frame[running].lock, frame[running].cond) = {},
         UNCHANGED <<mode, running, waiting, cv, locks, using>>
  PROVE  UNCHANGED Monitor!mvars
<1>1. /\ TypeOK /\ running \in Threads
      /\ frame' = [frame EXCEPT ![running] = UserFrame]
  BY DEF Inv, TypeOK, Return
<1>2. UserFrame.at = "user"
  BY DEF UserFrame, Frame
<1>3. Life' = Life
  BY <1>1, <1>2, FrameOfRunning
<1>4. Quiet'
  BY <1>1, <1>2, QuietNext
<1>5. ToTakeBack' = ToTakeBack
  <2>1. \A t \in Threads : frame'[t] = frame[t] \/ (At(t)' # "wait" /\ At(t) # "wait")
    BY <1>1, <1>2 DEF TypeOK, At
  <2>. QED BY <2>1, TakeBackSame
<1>6. ASSUME NEW l, NEW c PROVE Asleep(l, c)' = Asleep(l, c)
  <2>1. ~ Broadcasting(l, c)'
    BY <1>4 DEF Quiet, Broadcasting, Frame, At
  <2>2. Broadcasting(l, c) => CvWaiters(l, c) = {}
    BY DEF Broadcasting, Frame, At
  <2>. QED BY <2>1, <2>2 DEF Asleep, CvWaiters
<1>7. SleepQueues' = SleepQueues
  <2>1. \A S : ThreadsOf(cv, S)' = ThreadsOf(cv, S)
    BY DEF ThreadsOf
  <2>. QED BY <1>6, <2>1 DEF SleepQueues
<1>. QED
  BY <1>3, <1>5, <1>7, OwnersSame, LockQueuesSame, OverSame DEF Monitor!mvars

-----------------------------------------------------------------------------
(* Locks.                                                                  *)

(* A new entry for l in ct_queue_waiting joins the queue of l and no other.*)
LEMMA Joins ==
  ASSUME TypeOK, NEW l \in Locks, NEW t \in Threads,
         waiting' = Append(waiting, [ct |-> t, lock |-> l])
  PROVE  LockQueues' = [LockQueues EXCEPT ![l] = Append(@, t)]
<1>. DEFINE a == waiting'
<1>1. /\ waiting \in Seq(LockEntry) /\ \A d \in LockEntry : d.ct \in Threads
      /\ \A m : Waiters(m) \subseteq DOMAIN waiting
  BY DEF TypeOK, LockEntry, Waiters
<1>2. /\ Len(waiting) \in Nat /\ DOMAIN waiting = 1 .. Len(waiting)
      /\ DOMAIN a = 1 .. Len(waiting) + 1
      /\ \A i \in 1 .. Len(waiting) : a[i] = waiting[i]
      /\ a[Len(waiting) + 1] \in LockEntry
      /\ a[Len(waiting) + 1].ct = t /\ a[Len(waiting) + 1].lock = l
  <2>. DEFINE e == [ct |-> t, lock |-> l]
  <2>1. e \in LockEntry /\ e.ct = t /\ e.lock = l
    BY DEF LockEntry
  <2>2. a = Append(waiting, e)
    OBVIOUS
  <2>. HIDE DEF e, a
  <2>3. /\ Len(waiting) \in Nat /\ DOMAIN waiting = 1 .. Len(waiting)
        /\ a \in Seq(LockEntry) /\ Len(a) = Len(waiting) + 1
        /\ \A i \in 1 .. Len(waiting) : a[i] = waiting[i]
        /\ a[Len(waiting) + 1] = e
    BY <1>1, <2>1, <2>2, LenProperties, AppendProperties
  <2>. QED BY <2>1, <2>3, LenProperties
<1>3. /\ \A S : ThreadsOf(waiting, S)' = ThreadsOf(a, S)
      /\ \A m : Waiters(m)' = {i \in DOMAIN a : a[i].lock = m}
      /\ LockQueues' = [m \in Locks |-> ThreadsOf(waiting, Waiters(m))']
  BY DEF ThreadsOf, Waiters, LockQueues
<1>. HIDE DEF a
<1>4. Extended(a, waiting, LockEntry)
  BY <1>1, <1>2 DEF Extended
<1>5. ASSUME NEW m \in Locks, m # l
      PROVE  ThreadsOf(waiting, Waiters(m))' = ThreadsOf(waiting, Waiters(m))
  <2>1. Waiters(m)' = Waiters(m)
    BY <1>2, <1>3, <1>5 DEF Waiters
  <2>2. ThreadsOf(a, Waiters(m)) = ThreadsOf(waiting, Waiters(m))
    <3>. DEFINE S == Waiters(m)
    <3>1. S \subseteq DOMAIN waiting
      BY <1>1
    <3>. HIDE DEF S
    <3>2. ThreadsOf(a, S) = ThreadsOf(waiting, S)
      BY <1>4, <3>1, QueueAppendOther
    <3>. QED BY <3>2 DEF S
  <2>. QED BY <1>3, <2>1, <2>2
<1>6. ThreadsOf(waiting, Waiters(l))' = Append(ThreadsOf(waiting, Waiters(l)), t)
  <2>1. Waiters(l)' = Waiters(l) \cup {Len(waiting) + 1}
    BY <1>2, <1>3 DEF Waiters
  <2>2. ThreadsOf(a, Waiters(l) \cup {Len(waiting) + 1})
          = Append(ThreadsOf(waiting, Waiters(l)), t)
    BY <1>1, <1>2, <1>4, QueueAppendOwn
  <2>. QED BY <1>3, <2>1, <2>2
<1>. QED BY <1>3, <1>5, <1>6 DEF LockQueues

(* The oldest entry for l leaves ct_queue_waiting: it was the head of the  *)
(* queue of l.                                                             *)
LEMMA Leaves ==
  ASSUME TypeOK, NEW l \in Locks, Waiters(l) # {},
         waiting' = RemoveAt(waiting, LongestWaiter(l))
  PROVE  /\ LockQueues[l] # <<>>
         /\ Head(LockQueues[l]) = waiting[LongestWaiter(l)].ct
         /\ LockQueues' = [LockQueues EXCEPT ![l] = Tail(@)]
<1>. DEFINE i == LongestWaiter(l)
            n == Len(waiting) - 1
<1>1. /\ waiting \in Seq(LockEntry) /\ \A d \in LockEntry : d.ct \in Threads
      /\ \A m : Waiters(m) \subseteq DOMAIN waiting
      /\ Len(waiting) \in Nat /\ DOMAIN waiting = 1 .. Len(waiting)
  BY QueueTypes, LenProperties DEF TypeOK
<1>2. i \in Waiters(l) /\ \A j \in Waiters(l) : i <= j
  <2>1. Waiters(l) \subseteq Nat
    BY <1>1
  <2>. QED BY <2>1, FirstIsLeast DEF LongestWaiter
<1>. HIDE DEF i
<1>3. i \in 1 .. Len(waiting) /\ waiting[i].lock = l /\ waiting' = RemoveAt(waiting, i)
  BY <1>1, <1>2 DEF Waiters, i
<1>4. /\ DOMAIN waiting' = 1 .. n
      /\ \A j \in 1 .. n : waiting'[j] = IF j < i THEN waiting[j] ELSE waiting[j + 1]
  <2>1. waiting' \in Seq(LockEntry) /\ Len(waiting') = n
    BY <1>1, <1>3, RemoveAtProperties
  <2>. QED BY <1>1, <1>3, <2>1, LenProperties, RemoveAtProperties
<1>5. ASSUME NEW m \in Locks PROVE Waiters(m)' = Shifted(Waiters(m), i, n)
  <2>1. \A j \in 1 .. n : (IF j < i THEN j ELSE j + 1) \in DOMAIN waiting
    BY <1>1, <1>3
  <2>2. \A j \in 1 .. n :
          waiting'[j].lock = m <=> (IF j < i THEN j ELSE j + 1) \in Waiters(m)
    BY <1>4, <2>1 DEF Waiters
  <2>3. Waiters(m)' = {j \in 1 .. n : waiting'[j].lock = m}
    BY <1>4 DEF Waiters
  <2>. QED BY <2>2, <2>3 DEF Shifted
<1>6. ASSUME NEW m \in Locks, m # l
      PROVE  ThreadsOf(waiting, Waiters(m))' = ThreadsOf(waiting, Waiters(m))
  <2>1. i \notin Waiters(m) /\ i \in DOMAIN waiting
    BY <1>1, <1>3, <1>6 DEF Waiters
  <2>2. ThreadsOf(RemoveAt(waiting, i), Shifted(Waiters(m), i, n))
          = ThreadsOf(waiting, Waiters(m))
    BY <1>1, <2>1, QueueEraseOther
  <2>3. ThreadsOf(waiting, Waiters(m))' = ThreadsOf(waiting', Waiters(m)')
    BY DEF ThreadsOf
  <2>. QED BY <1>3, <1>5, <2>2, <2>3
<1>7. /\ ThreadsOf(waiting, Waiters(l)) # <<>>
      /\ Head(ThreadsOf(waiting, Waiters(l))) = waiting[i].ct
      /\ ThreadsOf(waiting, Waiters(l))' = Tail(ThreadsOf(waiting, Waiters(l)))
  <2>1. /\ ThreadsOf(waiting, Waiters(l)) # <<>>
        /\ Head(ThreadsOf(waiting, Waiters(l))) = waiting[i].ct
        /\ ThreadsOf(RemoveAt(waiting, i), Shifted(Waiters(l), i, n))
             = Tail(ThreadsOf(waiting, Waiters(l)))
    BY <1>1, <1>2, QueueEraseFirst
  <2>2. ThreadsOf(waiting, Waiters(l))' = ThreadsOf(waiting', Waiters(l)')
    BY DEF ThreadsOf
  <2>. QED BY <1>3, <1>5, <2>1, <2>2
<1>. HIDE DEF n
<1>8. LockQueues' = [LockQueues EXCEPT ![l] = Tail(@)]
  BY <1>6, <1>7 DEF LockQueues
<1>. QED BY <1>7, <1>8 DEF LockQueues, i

(* thread_unlock, and thread_wait before it sleeps, pass the lock on.      *)
LEMMA ReleasePassesOn ==
  ASSUME Inv, MutualExclusion', mode = "threads", At(running) = "user",
         NEW l \in Locks, l \in locks[running], Release(l)
  PROVE  Monitor!PassOn(l) /\ LostLocks' = LostLocks /\ Owners[l] = running
<1>1. TypeOK /\ MutualExclusion /\ LockAccounting /\ running \in Threads
  BY DEF Inv, TypeOK
<1>2. Owners[l] = running
  BY <1>1, OwnerFacts DEF Owners
<1>3. ASSUME NEW m \in Locks, m # l
      PROVE  /\ \A t \in Threads : m \in locks'[t] <=> m \in locks[t]
             /\ m \in using' <=> m \in using
  <2>1. \/ /\ locks' = [locks EXCEPT ![running] = @ \ {l}]
           /\ using' = using \ {l}
        \/ \E u \in Threads :
             /\ locks' = [[locks EXCEPT ![running] = @ \ {l}] EXCEPT ![u] = @ \cup {l}]
             /\ using' = using
    BY ReleaseFacts
  <2>2. CASE /\ locks' = [locks EXCEPT ![running] = @ \ {l}]
             /\ using' = using \ {l}
    BY <1>1, <1>3, <2>2 DEF TypeOK
  <2>3. ASSUME NEW u \in Threads,
               locks' = [[locks EXCEPT ![running] = @ \ {l}] EXCEPT ![u] = @ \cup {l}],
               using' = using
        PROVE  /\ \A t \in Threads : m \in locks'[t] <=> m \in locks[t]
               /\ m \in using' <=> m \in using
    BY <1>1, <1>3, <2>3 DEF TypeOK
  <2>. QED BY <2>1, <2>2, <2>3
<1>4. \A m \in Locks : m # l => Owner(m)' = Owner(m)
  BY <1>1, <1>3, OwnerStays
<1>5. l \notin LostLocks
  BY <1>1 DEF LostLocks
<1>6. LockQueues[l] = <<>> <=> Waiters(l) = {}
  <2>1. waiting \in Seq(LockEntry)
    BY <1>1 DEF TypeOK
  <2>2. ThreadsOf(waiting, Waiters(l)) = <<>> <=> Waiters(l) = {}
    BY <1>1, <2>1, QueueTypes, QueueMembers
  <2>. QED BY <2>2 DEF LockQueues
<1>7. CASE Waiters(l) = {}
  <2>1. /\ waiting' = waiting /\ using' = using \ {l}
        /\ locks' = [locks EXCEPT ![running] = @ \ {l}]
    BY <1>7 DEF Release, NotWaiting, StillUsed, Delivered, Erased
  <2>2. \A t \in Threads : l \notin locks'[t]
    BY <1>1, <2>1 DEF TypeOK, MutualExclusion
  <2>3. Owner(l)' = None
    BY <2>2, OwnerFactsNext
  <2>4. Owners' = [Owners EXCEPT ![l] = None]
    BY <1>4, <2>3 DEF Owners
  <2>5. l \notin LostLocks'
    BY <2>1 DEF LostLocks
  <2>6. LockQueues' = LockQueues
    BY <2>1, LockQueuesSame
  <2>7. LostLocks' = LostLocks
    <3>1. LostLocks \subseteq Locks /\ LostLocks' \subseteq Locks
      BY <1>1, <2>1 DEF LostLocks, TypeOK
    <3>2. \A m \in Locks : m # l => (m \in LostLocks' <=> m \in LostLocks)
      BY <1>3 DEF LostLocks
    <3>. QED BY <1>5, <2>5, <3>1, <3>2
  <2>. QED BY <1>2, <1>6, <1>7, <2>4, <2>6, <2>7 DEF Monitor!PassOn
<1>8. CASE Waiters(l) # {}
  <2>. DEFINE u == waiting[LongestWaiter(l)].ct
  <2>1. /\ waiting' = RemoveAt(waiting, LongestWaiter(l)) /\ using' = using
        /\ locks' = [[locks EXCEPT ![running] = @ \ {l}] EXCEPT ![u] = @ \cup {l}]
    BY <1>8 DEF Release, NotWaiting, StillUsed, Delivered, Erased
  <2>2. u \in Threads
    <3>1. LongestWaiter(l) \in Waiters(l)
      <4>1. Waiters(l) \subseteq Nat
        BY <1>1, LenProperties DEF Waiters, TypeOK
      <4>. QED BY <1>8, <4>1, FirstIsLeast DEF LongestWaiter
    <3>. QED BY <1>1, <3>1, EntryTypes DEF Waiters
  <2>3. Head(LockQueues[l]) = u /\ LockQueues' = [LockQueues EXCEPT ![l] = Tail(@)]
    BY <1>1, <1>8, <2>1, Leaves
  <2>. HIDE DEF u
  <2>4. l \in locks'[u]
    BY <1>1, <2>1, <2>2 DEF TypeOK
  <2>5. Owner(l)' = u
    BY <2>2, <2>4, OwnerFactsNext
  <2>6. Owners' = [Owners EXCEPT ![l] = u]
    BY <1>4, <2>5 DEF Owners
  <2>7. l \notin LostLocks'
    BY <2>2, <2>4 DEF LostLocks
  <2>8. LostLocks' = LostLocks
    <3>1. LostLocks \subseteq Locks /\ LostLocks' \subseteq Locks
      BY <1>1, <2>1 DEF LostLocks, TypeOK
    <3>2. \A m \in Locks : m # l => (m \in LostLocks' <=> m \in LostLocks)
      BY <1>3 DEF LostLocks
    <3>. QED BY <1>5, <2>7, <3>1, <3>2
  <2>. QED BY <1>2, <1>6, <1>8, <2>3, <2>6, <2>8 DEF Monitor!PassOn
<1>. QED BY <1>7, <1>8

(* thread_unlock passes the lock on, or is refused.                        *)
LEMMA UnlockRefines ==
  ASSUME Inv, Inv', NEW l \in Locks, Unlock(l)
  PROVE  Monitor!Give(running, l)
<1>1. /\ mode = "threads" /\ At(running) = "user" /\ l \in locks[running] /\ Release(l)
      /\ UNCHANGED <<mode, cv, frame>>
  BY DEF Unlock, Enter
<1>2. Monitor!PassOn(l) /\ LostLocks' = LostLocks /\ Owners[l] = running
  BY <1>1, ReleasePassesOn DEF Inv
<1>3. Monitor!Active(running)
  BY RunningIsActive DEF Unlock
<1>4. Quiet /\ Quiet'
  BY <1>1, QuietStays DEF Quiet
<1>5. Life' = Life /\ ToTakeBack' = ToTakeBack
  BY <1>1 DEF Life, ToTakeBack, At
<1>. QED
  BY <1>1, <1>2, <1>3, <1>4, <1>5, SleepQueuesSame, OverSame DEF Monitor!Give

-----------------------------------------------------------------------------
(* Refinement: thread_lock, and the queue of a condition variable.         *)

(* A pass through the loop of thread_lock by a thread that does not have   *)
(* the lock: it takes it, or blocks, or is the last that could run.        *)
LEMMA LockLoopRefines ==
  ASSUME Inv, Inv', mode = "threads", NEW l \in Locks, NEW at \in {"lock", "relock"},
         LockLoop(l, at), UNCHANGED cv,
         l \notin locks[running], At(running) \in {"user", "wait"},
         At(running) = "wait" => frame[running].lock = l
  PROVE  \/ Monitor!Take(running, l)
         \/ Monitor!Block(running, l)
         \/ Monitor!HaltBlocking(running, l)
<1>1. /\ TypeOK /\ OnePlace /\ running \in Threads
      /\ MutualExclusion /\ MutualExclusion'
  BY DEF Inv, TypeOK
<1>2. Monitor!Asks(running, l)
  <2>1. ~ Monitor!Blocked(running)
    BY <1>1, BlockedFacts DEF OnePlace
  <2>2. Life[running] = "live" /\ ~ Over /\ ToTakeBack[running] \in {None, l}
    BY <1>1 DEF Life, Over, ToTakeBack
  <2>3. Owners[l] # running
    BY <1>1, OwnerFacts DEF Owners
  <2>. QED BY <2>1, <2>2, <2>3 DEF Monitor!Asks, Monitor!Ready
<1>3. Monitor!Free(l) <=> l \notin using
  BY FreeLocks
<1>4. Quiet
  BY DEF Quiet
<1>5. ASSUME NEW f, f.at \notin {"none", "done", "wait", "broadcast"},
             frame' = [frame EXCEPT ![running] = f]
      PROVE  /\ Life' = Life /\ ToTakeBack' = [ToTakeBack EXCEPT ![running] = None]
             /\ SleepQueues' = SleepQueues
  <2>1. Life' = Life
    BY <1>1, <1>5, FrameOfRunning
  <2>2. ToTakeBack' = [ToTakeBack EXCEPT ![running] = None]
    BY <1>1, <1>5 DEF ToTakeBack, TypeOK, At
  <2>3. Quiet'
    BY <1>5, QuietNext
  <2>. QED BY <1>4, <2>1, <2>2, <2>3, SleepQueuesSame
<1>6. CASE /\ l \notin using
           /\ locks' = [locks EXCEPT ![running] = @ \cup {l}]
           /\ using' = using \cup {l}
           /\ Return
           /\ UNCHANGED <<mode, running, runnable, waiting>>
  <2>1. UserFrame.at = "user" /\ frame' = [frame EXCEPT ![running] = UserFrame]
    BY <1>6 DEF UserFrame, Frame, Return
  <2>2. /\ Life' = Life /\ ToTakeBack' = [ToTakeBack EXCEPT ![running] = None]
        /\ SleepQueues' = SleepQueues
    BY <1>5, <2>1
  <2>3. ASSUME NEW m \in Locks
        PROVE  Owner(m)' = IF m = l THEN running ELSE Owner(m)
    <3>1. CASE m = l
      BY <1>1, <1>6, <3>1, OwnerFactsNext DEF TypeOK
    <3>2. CASE m # l
      <4>1. \A t \in Threads : m \in locks'[t] <=> m \in locks[t]
        BY <1>1, <1>6, <3>2 DEF TypeOK
      <4>. QED BY <1>1, <3>2, <4>1, OwnerStays
    <3>. QED BY <3>1, <3>2
  <2>4. Owners' = [Owners EXCEPT ![l] = running]
    BY <2>3 DEF Owners
  <2>5. LostLocks' = LostLocks
    <3>1. l \in locks'[running] /\ \A m : m # l =>
            \A t \in Threads : m \in locks'[t] <=> m \in locks[t]
      BY <1>1, <1>6 DEF TypeOK
    <3>. QED BY <1>1, <1>6, <3>1 DEF LostLocks
  <2>. QED
    BY <1>2, <1>3, <1>6, <2>2, <2>4, <2>5, LockQueuesSame, OverSame DEF Monitor!Take
<1>7. CASE /\ l \in using
           /\ waiting' = Append(waiting, [ct |-> running, lock |-> l])
           /\ frame' = [frame EXCEPT ![running] = Frame(at, l, None)]
           /\ UNCHANGED <<mode, locks, using>>
  <2>1. /\ Life' = Life /\ ToTakeBack' = [ToTakeBack EXCEPT ![running] = None]
        /\ SleepQueues' = SleepQueues
    <3>1. Frame(at, l, None).at = at
      BY DEF Frame
    <3>. QED BY <1>5, <1>7, <3>1
  <2>2. LockQueues' = [LockQueues EXCEPT ![l] = Append(@, running)]
    BY <1>1, <1>7, Joins
  <2>. QED
    BY <1>2, <1>3, <1>7, <2>1, <2>2, OwnersSame, OverSame DEF Monitor!Block
<1>8. CASE /\ l \in using
           /\ runnable = <<>>
           /\ EndProcess
           /\ UNCHANGED <<running, runnable, waiting, locks, using, frame>>
  <2>1. Life' = Life /\ ToTakeBack' = ToTakeBack
    BY <1>8 DEF Life, ToTakeBack, At
  <2>2. Over' = TRUE /\ Quiet'
    BY <1>8 DEF Over, Quiet, EndProcess
  <2>3. Monitor!AllOthersBlocked(running)
    BY <1>4, <1>8, OthersBlocked
  <2>. QED
    BY <1>2, <1>3, <1>4, <1>8, <2>1, <2>2, <2>3, OwnersSame, LockQueuesSame,
       SleepQueuesSame DEF Monitor!HaltBlocking
<1>. QED BY <1>6, <1>7, <1>8 DEF LockLoop

(* A thread that was handed the lock while it was blocked comes back with  *)
(* it: the monitor gave it the lock when it was released.                  *)
LEMMA GrantedRefines ==
  ASSUME Inv, Inv', mode = "threads", NEW l \in Locks, NEW at,
         LockLoop(l, at), UNCHANGED cv,
         At(running) \in {"lock", "relock"}, frame[running].lock = l
  PROVE  UNCHANGED Monitor!mvars
<1>1. TypeOK /\ OnePlace /\ running \in Threads /\ HandoffDelivered /\ LockAccounting
  BY DEF Inv, TypeOK
<1>2. l \in locks[running]
  BY <1>1 DEF HandoffDelivered, OnePlace
<1>3. /\ locks' = locks /\ using' = using /\ Return
      /\ UNCHANGED <<mode, running, waiting>>
  <2>1. l \in using
    BY <1>1, <1>2 DEF LockAccounting
  <2>2. /\ locks' = [locks EXCEPT ![running] = @ \cup {l}]
        /\ using' = using \cup {l} /\ Return
        /\ UNCHANGED <<mode, running, waiting>>
    BY <1>2 DEF LockLoop
  <2>3. locks[running] \cup {l} = locks[running] /\ using \cup {l} = using
    BY <1>2, <2>1
  <2>. QED BY <1>1, <2>2, <2>3 DEF TypeOK
<1>4. UserFrame.at = "user" /\ frame' = [frame EXCEPT ![running] = UserFrame]
  BY <1>3 DEF UserFrame, Frame, Return
<1>5. Life' = Life
  BY <1>1, <1>4, FrameOfRunning
<1>6. ToTakeBack' = ToTakeBack
  <2>1. \A t \in Threads : frame'[t] = frame[t] \/ (At(t)' # "wait" /\ At(t) # "wait")
    BY <1>1, <1>4 DEF TypeOK, At
  <2>. QED BY <2>1, TakeBackSame
<1>7. Quiet /\ Quiet'
  BY <1>4, QuietNext DEF Quiet
<1>. QED
  BY <1>3, <1>5, <1>6, <1>7, OwnersSame, LockQueuesSame, SleepQueuesSame, OverSame
     DEF Monitor!mvars

-----------------------------------------------------------------------------
(* Condition variables.                                                    *)

(* Out of the loop of thread_broadcast, all entries of ct_queue_cv count.  *)
LEMMA AsleepWhenQuiet ==
  ASSUME Quiet, NEW l, NEW c
  PROVE  Asleep(l, c) = CvWaiters(l, c)
BY DEF Quiet, Asleep, Broadcasting, Frame, At

(* The same after the step.                                                *)
LEMMA AsleepWhenQuietNext ==
  ASSUME Quiet', NEW l, NEW c
  PROVE  Asleep(l, c)' = CvWaiters(l, c)'
<1>1. ~ Broadcasting(l, c)'
  BY DEF Quiet, Broadcasting, Frame, At
<1>. QED BY <1>1 DEF Asleep

(* A new entry joins the queue of its lock and condition and no other.     *)
LEMMA SleepJoins ==
  ASSUME TypeOK, Quiet, Quiet', NEW l \in Locks, NEW c \in Conds, NEW t \in Threads,
         cv' = Append(cv, [ct |-> t, lock |-> l, cond |-> c])
  PROVE  SleepQueues' = [SleepQueues EXCEPT ![<<l, c>>] = Append(@, t)]
<1>. DEFINE a == cv'
            p == <<l, c>>
            Of(r) == CvWaiters(r[1], r[2])
<1>1. /\ cv \in Seq(CvEntry) /\ \A d \in CvEntry : d.ct \in Threads
      /\ \A r : Of(r) \subseteq DOMAIN cv
  BY DEF TypeOK, CvEntry, CvWaiters
<1>2. /\ Len(cv) \in Nat /\ DOMAIN cv = 1 .. Len(cv)
      /\ DOMAIN a = 1 .. Len(cv) + 1
      /\ \A i \in 1 .. Len(cv) : a[i] = cv[i]
      /\ a[Len(cv) + 1] \in CvEntry
      /\ a[Len(cv) + 1].ct = t /\ a[Len(cv) + 1].lock = l /\ a[Len(cv) + 1].cond = c
  <2>. DEFINE e == [ct |-> t, lock |-> l, cond |-> c]
  <2>1. e \in CvEntry /\ e.ct = t /\ e.lock = l /\ e.cond = c
    BY DEF CvEntry
  <2>2. a = Append(cv, e)
    OBVIOUS
  <2>. HIDE DEF e, a
  <2>3. /\ Len(cv) \in Nat /\ DOMAIN cv = 1 .. Len(cv)
        /\ a \in Seq(CvEntry) /\ Len(a) = Len(cv) + 1
        /\ \A i \in 1 .. Len(cv) : a[i] = cv[i]
        /\ a[Len(cv) + 1] = e
    BY <1>1, <2>1, <2>2, LenProperties, AppendProperties
  <2>. QED BY <2>1, <2>3, LenProperties
<1>3. /\ \A S : ThreadsOf(cv, S)' = ThreadsOf(a, S)
      /\ \A r : Of(r)' = {i \in DOMAIN a : a[i].lock = r[1] /\ a[i].cond = r[2]}
  BY DEF ThreadsOf, CvWaiters
<1>4. /\ SleepQueues = [r \in Locks \X Conds |-> ThreadsOf(cv, Of(r))]
      /\ SleepQueues' = [r \in Locks \X Conds |-> ThreadsOf(cv, Of(r))']
  BY AsleepWhenQuiet, AsleepWhenQuietNext DEF SleepQueues, ThreadsOf
<1>5. p \in Locks \X Conds /\ p[1] = l /\ p[2] = c
  OBVIOUS
<1>6. \A r \in Locks \X Conds : r[1] = l /\ r[2] = c => r = p
  OBVIOUS
<1>. HIDE DEF a, p
<1>7. Extended(a, cv, CvEntry)
  BY <1>1, <1>2 DEF Extended
<1>8. ASSUME NEW r \in Locks \X Conds, r # p
      PROVE  ThreadsOf(cv, Of(r))' = ThreadsOf(cv, Of(r))
  <2>1. Of(r)' = Of(r)
    <3>1. r[1] # l \/ r[2] # c
      BY <1>6, <1>8
    <3>. QED BY <1>2, <1>3, <3>1 DEF CvWaiters
  <2>2. ThreadsOf(a, Of(r)) = ThreadsOf(cv, Of(r))
    <3>. DEFINE S == Of(r)
    <3>1. S \subseteq DOMAIN cv
      BY <1>1
    <3>. HIDE DEF S
    <3>2. ThreadsOf(a, S) = ThreadsOf(cv, S)
      BY <1>7, <3>1, QueueAppendOther
    <3>. QED BY <3>2 DEF S
  <2>. QED BY <1>3, <2>1, <2>2
<1>9. ThreadsOf(cv, Of(p))' = Append(ThreadsOf(cv, Of(p)), t)
  <2>1. Of(p)' = Of(p) \cup {Len(cv) + 1}
    BY <1>2, <1>3, <1>5 DEF CvWaiters
  <2>2. ThreadsOf(a, Of(p) \cup {Len(cv) + 1}) = Append(ThreadsOf(cv, Of(p)), t)
    <3>. DEFINE S == Of(p)
    <3>1. S \subseteq DOMAIN cv
      BY <1>1
    <3>. HIDE DEF S
    <3>2. ThreadsOf(a, S \cup {Len(cv) + 1}) = Append(ThreadsOf(cv, S), t)
      BY <1>2, <1>7, <3>1, QueueAppendOwn
    <3>. QED BY <3>2 DEF S
  <2>. QED BY <1>3, <2>1, <2>2
<1>. HIDE DEF Of
<1>. QED BY <1>4, <1>5, <1>8, <1>9 DEF p

(* The oldest entry of a lock and condition leaves ct_queue_cv.            *)
LEMMA SleepLeaves ==
  ASSUME TypeOK, NEW l \in Locks, NEW c \in Conds, CvWaiters(l, c) # {},
         cv' = RemoveAt(cv, First(CvWaiters(l, c)))
  PROVE  /\ ThreadsOf(cv, CvWaiters(l, c)) # <<>>
         /\ ThreadsOf(cv, CvWaiters(l, c))' = Tail(ThreadsOf(cv, CvWaiters(l, c)))
         /\ \A m \in Locks, d \in Conds : <<m, d>> # <<l, c>> =>
              ThreadsOf(cv, CvWaiters(m, d))' = ThreadsOf(cv, CvWaiters(m, d))
<1>. DEFINE i == First(CvWaiters(l, c))
            n == Len(cv) - 1
<1>1. /\ cv \in Seq(CvEntry) /\ \A d \in CvEntry : d.ct \in Threads
      /\ \A m, d : CvWaiters(m, d) \subseteq DOMAIN cv
      /\ Len(cv) \in Nat /\ DOMAIN cv = 1 .. Len(cv)
  BY QueueTypes, LenProperties DEF TypeOK
<1>2. i \in CvWaiters(l, c) /\ \A j \in CvWaiters(l, c) : i <= j
  <2>1. CvWaiters(l, c) \subseteq Nat
    BY <1>1
  <2>. QED BY <2>1, FirstIsLeast
<1>. HIDE DEF i
<1>3. /\ i \in 1 .. Len(cv) /\ cv[i].lock = l /\ cv[i].cond = c
      /\ cv' = RemoveAt(cv, i)
  BY <1>1, <1>2 DEF CvWaiters, i
<1>4. /\ DOMAIN cv' = 1 .. n
      /\ \A j \in 1 .. n : cv'[j] = IF j < i THEN cv[j] ELSE cv[j + 1]
  <2>1. cv' \in Seq(CvEntry) /\ Len(cv') = n
    BY <1>1, <1>3, RemoveAtProperties
  <2>. QED BY <1>1, <1>3, <2>1, LenProperties, RemoveAtProperties
<1>5. ASSUME NEW m \in Locks, NEW d \in Conds
      PROVE  CvWaiters(m, d)' = Shifted(CvWaiters(m, d), i, n)
  <2>1. \A j \in 1 .. n : (IF j < i THEN j ELSE j + 1) \in DOMAIN cv
    BY <1>1, <1>3
  <2>2. \A j \in 1 .. n :
          cv'[j].lock = m /\ cv'[j].cond = d
            <=> (IF j < i THEN j ELSE j + 1) \in CvWaiters(m, d)
    BY <1>4, <2>1 DEF CvWaiters
  <2>3. CvWaiters(m, d)' = {j \in 1 .. n : cv'[j].lock = m /\ cv'[j].cond = d}
    BY <1>4 DEF CvWaiters
  <2>. QED BY <2>2, <2>3 DEF Shifted
<1>6. ASSUME NEW m \in Locks, NEW d \in Conds, <<m, d>> # <<l, c>>
      PROVE  ThreadsOf(cv, CvWaiters(m, d))' = ThreadsOf(cv, CvWaiters(m, d))
  <2>1. i \notin CvWaiters(m, d) /\ i \in DOMAIN cv
    BY <1>1, <1>3, <1>6 DEF CvWaiters
  <2>2. ThreadsOf(RemoveAt(cv, i), Shifted(CvWaiters(m, d), i, n))
          = ThreadsOf(cv, CvWaiters(m, d))
    BY <1>1, <2>1, QueueEraseOther
  <2>3. ThreadsOf(cv, CvWaiters(m, d))' = ThreadsOf(cv', CvWaiters(m, d)')
    BY DEF ThreadsOf
  <2>. QED BY <1>3, <1>5, <2>2, <2>3
<1>7. /\ ThreadsOf(cv, CvWaiters(l, c)) # <<>>
      /\ ThreadsOf(cv, CvWaiters(l, c))' = Tail(ThreadsOf(cv, CvWaiters(l, c)))
  <2>1. /\ ThreadsOf(cv, CvWaiters(l, c)) # <<>>
        /\ ThreadsOf(RemoveAt(cv, i), Shifted(CvWaiters(l, c), i, n))
             = Tail(ThreadsOf(cv, CvWaiters(l, c)))
    BY <1>1, <1>2, QueueEraseFirst
  <2>2. ThreadsOf(cv, CvWaiters(l, c))' = ThreadsOf(cv', CvWaiters(l, c)')
    BY DEF ThreadsOf
  <2>. QED BY <1>3, <1>5, <2>1, <2>2
<1>. QED BY <1>6, <1>7

-----------------------------------------------------------------------------
(* Refinement: thread_wait, thread_signal and thread_broadcast.            *)

(* thread_wait: the lock is passed on and the thread sleeps; or nobody is  *)
(* left to run.                                                            *)
LEMMA WaitRefines ==
  ASSUME Inv, Inv', NEW l \in Locks, NEW c \in Conds, Wait(l, c)
  PROVE  Monitor!Sleep(running, l, c) \/ Monitor!HaltSleeping(running, l)
<1>1. /\ TypeOK /\ running \in Threads /\ mode = "threads" /\ At(running) = "user"
      /\ l \in locks[running] /\ Release(l)
  BY DEF Inv, TypeOK, Wait, Enter
<1>2. Monitor!PassOn(l) /\ LostLocks' = LostLocks /\ Owners[l] = running
  BY <1>1, ReleasePassesOn DEF Inv
<1>3. Monitor!Active(running)
  BY RunningIsActive DEF Wait
<1>4. Quiet
  BY <1>1 DEF Quiet
<1>5. CASE /\ cv' = Append(cv, [ct |-> running, lock |-> l, cond |-> c])
           /\ frame' = [frame EXCEPT ![running] = Frame("wait", l, None)]
           /\ UNCHANGED mode
  <2>. DEFINE f == Frame("wait", l, None)
  <2>1. f.at = "wait" /\ f.lock = l /\ frame' = [frame EXCEPT ![running] = f]
    BY <1>5 DEF Frame
  <2>. HIDE DEF f
  <2>2. Life' = Life
    BY <1>1, <2>1, FrameOfRunning
  <2>3. Quiet'
    BY <1>1, <2>1, QuietNext
  <2>4. ToTakeBack' = [ToTakeBack EXCEPT ![running] = l]
    BY <1>1, <2>1 DEF ToTakeBack, TypeOK, At
  <2>5. SleepQueues' = [SleepQueues EXCEPT ![<<l, c>>] = Append(@, running)]
    BY <1>1, <1>4, <1>5, <2>3, SleepJoins
  <2>. QED
    BY <1>2, <1>3, <1>5, <2>2, <2>4, <2>5, OverSame DEF Monitor!Sleep
<1>6. CASE /\ runnable \o Heir(l) = <<>>
           /\ EndProcess
           /\ UNCHANGED <<running, runnable, cv, frame>>
  <2>1. runnable = <<>> /\ Waiters(l) = {}
    <3>1. ASSUME NEW e, With(<<>>, runnable, e) PROVE FALSE
      BY <3>1 DEF With
    <3>. QED BY <1>1, <1>6, <3>1, ReleaseFacts
  <2>3. LockQueues[l] = <<>>
    <3>1. waiting \in Seq(LockEntry)
      BY <1>1 DEF TypeOK
    <3>2. Waiters(l) \subseteq DOMAIN waiting
      BY DEF Waiters
    <3>3. \A d \in LockEntry : d.ct \in Threads
      BY DEF LockEntry
    <3>4. ThreadsOf(waiting, Waiters(l)) = <<>> <=> Waiters(l) = {}
      BY <3>1, <3>2, <3>3, QueueMembers
    <3>. QED BY <2>1, <3>4 DEF LockQueues
  <2>4. Monitor!AllOthersBlocked(running)
    BY <1>1, <1>4, <2>1, OthersBlocked
  <2>5. Over' = TRUE /\ Quiet'
    BY <1>6 DEF EndProcess, Over, Quiet
  <2>6. Life' = Life /\ ToTakeBack' = ToTakeBack
    BY <1>6 DEF Life, ToTakeBack, At
  <2>. QED
    BY <1>2, <1>3, <1>4, <1>6, <2>3, <2>4, <2>5, <2>6, SleepQueuesSame
       DEF Monitor!HaltSleeping
<1>. QED BY <1>5, <1>6 DEF Wait

(* thread_signal wakes the thread that is first in the queue.              *)
LEMMA SignalRefines ==
  ASSUME Inv, Inv', NEW l \in Locks, NEW c \in Conds, Signal(l, c)
  PROVE  Monitor!Wake(l, c)
<1>. DEFINE p == <<l, c>>
            Of(r) == CvWaiters(r[1], r[2])
<1>1. /\ TypeOK /\ running \in Threads /\ mode = "threads" /\ At(running) = "user"
      /\ CvWaiters(l, c) # {} /\ cv' = RemoveAt(cv, First(CvWaiters(l, c)))
      /\ UNCHANGED <<mode, waiting, locks, using, frame>>
  BY DEF Inv, TypeOK, Signal, Enter, WakeOne
<1>2. Monitor!Active(running)
  BY RunningIsActive DEF Signal
<1>3. Quiet /\ Quiet'
  BY <1>1, QuietStays DEF Quiet
<1>4. Life' = Life /\ ToTakeBack' = ToTakeBack
  BY <1>1 DEF Life, ToTakeBack, At
<1>5. /\ SleepQueues = [r \in Locks \X Conds |-> ThreadsOf(cv, Of(r))]
      /\ SleepQueues' = [r \in Locks \X Conds |-> ThreadsOf(cv, Of(r))']
  BY <1>3, AsleepWhenQuiet, AsleepWhenQuietNext DEF SleepQueues, ThreadsOf
<1>6. p \in Locks \X Conds /\ p[1] = l /\ p[2] = c
  OBVIOUS
<1>. HIDE DEF p
<1>7. /\ ThreadsOf(cv, Of(p)) # <<>>
      /\ ThreadsOf(cv, Of(p))' = Tail(ThreadsOf(cv, Of(p)))
  BY <1>1, <1>6, SleepLeaves
<1>8. ASSUME NEW r \in Locks \X Conds, r # p
      PROVE  ThreadsOf(cv, Of(r))' = ThreadsOf(cv, Of(r))
  <2>1. /\ r[1] \in Locks /\ r[2] \in Conds /\ r = <<r[1], r[2]>>
        /\ <<r[1], r[2]>> # <<l, c>>
    BY <1>8 DEF p
  <2>. QED BY <1>1, <2>1, SleepLeaves
<1>. HIDE DEF Of
<1>9. SleepQueues[p] # <<>> /\ SleepQueues' = [SleepQueues EXCEPT ![p] = Tail(@)]
  BY <1>5, <1>6, <1>7, <1>8
<1>. QED
  BY <1>1, <1>2, <1>4, <1>9, OwnersSame, LockQueuesSame, OverSame
     DEF Monitor!Wake, p

(* thread_broadcast wakes, for the monitor, everybody at once ...          *)
LEMMA BroadcastRefines ==
  ASSUME Inv, Inv', NEW l \in Locks, NEW c \in Conds, Broadcast(l, c)
  PROVE  Monitor!WakeAll(l, c)
<1>. DEFINE f == Frame("broadcast", l, c)
            p == <<l, c>>
<1>1. /\ TypeOK /\ running \in Threads /\ mode = "threads" /\ At(running) = "user"
      /\ frame' = [frame EXCEPT ![running] = f]
      /\ UNCHANGED <<mode, running, waiting, cv, locks, using>>
  BY DEF Inv, TypeOK, Broadcast, Enter
<1>2. Monitor!Active(running)
  BY RunningIsActive DEF Broadcast
<1>3. f.at = "broadcast" /\ f.lock = l /\ f.cond = c
  BY DEF Frame
<1>4. frame'[running'] = f
  BY <1>1 DEF TypeOK
<1>. HIDE DEF f
<1>5. Life' = Life
  BY <1>1, <1>3, FrameOfRunning
<1>6. ToTakeBack' = ToTakeBack
  <2>1. \A t \in Threads : frame'[t] = frame[t] \/ (At(t)' # "wait" /\ At(t) # "wait")
    BY <1>1, <1>3 DEF TypeOK, At
  <2>. QED BY <2>1, TakeBackSame
<1>7. Quiet
  BY <1>1 DEF Quiet
<1>8. \A m, d : Broadcasting(m, d)' <=> m = l /\ d = c
  BY <1>1, <1>3, <1>4 DEF Broadcasting, Frame, f
<1>9. Asleep(l, c)' = {}
  BY <1>8 DEF Asleep
<1>10. \A m, d : (m # l \/ d # c) => Asleep(m, d)' = Asleep(m, d)
  BY <1>1, <1>7, <1>8, AsleepWhenQuiet DEF Asleep, CvWaiters
<1>11. ThreadsOf(cv, Asleep(l, c))' = <<>>
  <2>1. cv \in Seq(CvEntry) /\ {} \subseteq DOMAIN cv
    BY <1>1 DEF TypeOK
  <2>2. ThreadsOf(cv, {}) = <<>>
    BY <1>1, <2>1, QueueTypes, QueueMembers
  <2>3. ThreadsOf(cv, Asleep(l, c))' = ThreadsOf(cv, {})
    BY <1>1, <1>9 DEF ThreadsOf
  <2>. QED BY <2>2, <2>3
<1>12. \A r \in Locks \X Conds : r # p =>
         ThreadsOf(cv, Asleep(r[1], r[2]))' = ThreadsOf(cv, Asleep(r[1], r[2]))
  <2>1. \A r \in Locks \X Conds : r # p => r[1] # l \/ r[2] # c
    OBVIOUS
  <2>. QED BY <1>1, <1>10, <2>1 DEF ThreadsOf
<1>13. SleepQueues' = [SleepQueues EXCEPT ![p] = <<>>]
  <2>1. p \in Locks \X Conds /\ p[1] = l /\ p[2] = c
    OBVIOUS
  <2>. HIDE DEF p
  <2>. QED BY <1>11, <1>12, <2>1 DEF SleepQueues
<1>. QED
  BY <1>1, <1>2, <1>5, <1>6, <1>13, OwnersSame, LockQueuesSame, OverSame
     DEF Monitor!WakeAll

(* ... so what its loop then does is no news.                              *)
LEMMA BroadcastWakeRefines ==
  ASSUME Inv, BroadcastWake
  PROVE  UNCHANGED Monitor!mvars
<1>. DEFINE l == frame[running].lock
            c == frame[running].cond
<1>1. /\ TypeOK /\ mode = "threads" /\ At(running) = "broadcast"
      /\ CvWaiters(l, c) # {} /\ cv' = RemoveAt(cv, First(CvWaiters(l, c)))
      /\ UNCHANGED <<mode, running, waiting, locks, using, frame>>
  BY DEF Inv, BroadcastWake, Inside, WakeOne
<1>2. l \in Locks /\ c \in Conds
  BY <1>1, BroadcastFrame
<1>3. Life' = Life /\ ToTakeBack' = ToTakeBack
  BY <1>1 DEF Life, ToTakeBack, At
<1>4. \A m, d : Broadcasting(m, d)' <=> Broadcasting(m, d)
  BY <1>1 DEF Broadcasting
<1>5. Broadcasting(l, c)
  <2>1. frame[running] = Frame("broadcast", l, c)
    BY <1>1, <1>2 DEF Inv, TypeOK, Frames, Frame, At
  <2>. QED BY <1>1, <2>1 DEF Broadcasting
<1>. HIDE DEF l, c
<1>6. ASSUME NEW m \in Locks, NEW d \in Conds
      PROVE  ThreadsOf(cv, Asleep(m, d))' = ThreadsOf(cv, Asleep(m, d))
  <2>1. CASE Broadcasting(m, d)
    <3>1. Asleep(m, d) = {} /\ Asleep(m, d)' = {}
      BY <1>4, <2>1 DEF Asleep
    <3>2. \A s : ThreadsOf(s, {}) = [k \in 1 .. 0 |-> s[InOrder({})[k]].ct]
      BY FS_EmptySet DEF ThreadsOf
    <3>3. ThreadsOf(cv, {}) = ThreadsOf(cv', {})
      BY <3>2
    <3>. QED BY <3>1, <3>3 DEF ThreadsOf
  <2>2. CASE ~ Broadcasting(m, d)
    <3>1. Asleep(m, d) = CvWaiters(m, d) /\ Asleep(m, d)' = CvWaiters(m, d)'
      BY <1>4, <2>2 DEF Asleep
    <3>2. <<m, d>> # <<l, c>>
      BY <1>5, <2>2
    <3>3. ThreadsOf(cv, CvWaiters(m, d))' = ThreadsOf(cv, CvWaiters(m, d))
      BY <1>1, <1>2, <3>2, SleepLeaves
    <3>. QED BY <3>1, <3>3 DEF ThreadsOf
  <2>. QED BY <2>1, <2>2
<1>7. SleepQueues' = SleepQueues
  BY <1>6 DEF SleepQueues
<1>. QED
  BY <1>1, <1>3, <1>7, OwnersSame, LockQueuesSame, OverSame DEF Monitor!mvars

-----------------------------------------------------------------------------
(* Refinement: the theorem.                                                *)

(* The library starts as the monitor does.                                 *)
LEMMA InitRefines ==
  ASSUME Init
  PROVE  Monitor!MInit
<1>. USE DEF Init, At, Frame
<1>1. Life = [t \in Threads |-> "unborn"] /\ ToTakeBack = [t \in Threads |-> None]
  BY DEF Life, ToTakeBack
<1>2. Owners = [l \in Locks |-> None] /\ LostLocks = {} /\ Over = FALSE
  BY DEF Owners, Owner, LostLocks, Over
<1>3. TypeOK
  BY InitInv DEF Inv
<1>4. LockQueues = [l \in Locks |-> <<>>]
  <2>1. ASSUME NEW l \in Locks PROVE ThreadsOf(waiting, Waiters(l)) = <<>>
    <3>1. waiting \in Seq(LockEntry) /\ Waiters(l) = {}
      BY <1>3 DEF TypeOK, Waiters
    <3>. QED BY <1>3, <3>1, QueueTypes, QueueMembers
  <2>. QED BY <2>1 DEF LockQueues
<1>5. SleepQueues = [p \in Locks \X Conds |-> <<>>]
  <2>1. ASSUME NEW p \in Locks \X Conds PROVE ThreadsOf(cv, Asleep(p[1], p[2])) = <<>>
    <3>1. cv \in Seq(CvEntry) /\ Asleep(p[1], p[2]) = {}
      BY <1>3 DEF TypeOK, Asleep, CvWaiters
    <3>. QED BY <1>3, <3>1, QueueTypes, QueueMembers
  <2>. QED BY <2>1 DEF SleepQueues
<1>. QED BY <1>1, <1>2, <1>4, <1>5 DEF Monitor!MInit

(* A step of the library is one of the monitor or leaves it as it is.      *)
LEMMA StepRefines ==
  ASSUME Inv, Inv', HasReleased, [Next]_vars
  PROVE  [Monitor!MNext]_(Monitor!mvars)
<1>1. TypeOK /\ QueuesMatchFrames
  BY DEF Inv
<1>2. ASSUME NEW t \in Threads, Libinit(t) \/ Create(t) PROVE Monitor!MNext
  BY <1>2, LibinitRefines, CreateRefines DEF Monitor!MNext
<1>3. CASE LibinitFails \/ UNCHANGED vars
  <2>1. UNCHANGED <<mode, running, waiting, cv, locks, using, frame>>
    BY <1>3 DEF LibinitFails, vars
  <2>2. Life' = Life /\ ToTakeBack' = ToTakeBack /\ SleepQueues' = SleepQueues
    BY <2>1 DEF Life, ToTakeBack, At, SleepQueues, Asleep, CvWaiters, Broadcasting,
                ThreadsOf
  <2>. QED
    BY <2>1, <2>2, OwnersSame, LockQueuesSame, OverSame DEF Monitor!mvars
<1>4. CASE MainReturns
  BY <1>4, MainReturnsRefines DEF Monitor!MNext
<1>5. CASE Exit
  <2>1. running \in Threads
    BY <1>1, <1>5 DEF Exit, Enter, TypeOK
  <2>. QED BY <1>5, <2>1, ExitRefines DEF Monitor!MNext
<1>6. CASE Yield
  BY <1>6, YieldRefines
<1>7. CASE Start \/ ResumeYield \/ BroadcastReturn
  BY <1>7, ReturnRefines DEF Start, ResumeYield, BroadcastReturn, Inside
<1>8. CASE ResumeLock \/ ResumeWait \/ ResumeRelock
  <2>. DEFINE l == frame[running].lock
  <2>1. mode = "threads" /\ running \in Threads /\ l \in Locks /\ UNCHANGED cv
    BY <1>1, <1>8
       DEF ResumeLock, ResumeWait, ResumeRelock, Inside, TypeOK, QueuesMatchFrames
  <2>2. CASE ResumeWait
    <3>1. At(running) = "wait" /\ LockLoop(l, "relock")
      BY <2>2 DEF ResumeWait, Inside
    <3>2. l \notin locks[running]
      BY <2>1, <3>1 DEF HasReleased
    <3>. QED BY <2>1, <3>1, <3>2, LockLoopRefines DEF Monitor!MNext
  <2>3. CASE ResumeLock \/ ResumeRelock
    <3>1. /\ At(running) \in {"lock", "relock"}
          /\ \E at \in {"lock", "relock"} : LockLoop(l, at)
      BY <2>3 DEF ResumeLock, ResumeRelock, Inside
    <3>. QED BY <2>1, <3>1, GrantedRefines
  <2>. QED BY <1>8, <2>2, <2>3
<1>9. CASE BroadcastWake
  BY <1>9, BroadcastWakeRefines
<1>10. ASSUME NEW l \in Locks, Lock(l) \/ Unlock(l) PROVE Monitor!MNext
  <2>1. running \in Threads /\ mode = "threads" /\ At(running) = "user"
    BY <1>1, <1>10 DEF Lock, Unlock, Enter, TypeOK
  <2>2. CASE Lock(l)
    <3>1. l \notin locks[running] /\ LockLoop(l, "lock") /\ UNCHANGED cv
      BY <2>2 DEF Lock
    <3>. QED BY <2>1, <3>1, LockLoopRefines DEF Monitor!MNext
  <2>3. CASE Unlock(l)
    BY <2>1, <2>3, UnlockRefines DEF Monitor!MNext
  <2>. QED BY <1>10, <2>2, <2>3
<1>11. ASSUME NEW l \in Locks, NEW c \in Conds,
              Wait(l, c) \/ Signal(l, c) \/ Broadcast(l, c)
       PROVE  Monitor!MNext
  <2>1. CASE Wait(l, c)
    <3>1. running \in Threads
      BY <1>1, <2>1 DEF Wait, Enter, TypeOK
    <3>. QED BY <2>1, <3>1, WaitRefines DEF Monitor!MNext
  <2>2. CASE Signal(l, c)
    BY <2>2, SignalRefines DEF Monitor!MNext
  <2>3. CASE Broadcast(l, c)
    BY <2>3, BroadcastRefines DEF Monitor!MNext
  <2>. QED BY <1>11, <2>1, <2>2, <2>3
<1>. QED
  BY <1>2, <1>3, <1>4, <1>5, <1>6, <1>7, <1>8, <1>9, <1>10, <1>11
     DEF Next, Resume, Exited

(* The library does what the monitor promises.                             *)
THEOREM LibraryIsAMonitor == Spec => ImplementsMonitor
<1>1. Init => HasReleased
  BY DEF Init, HasReleased, At, Frame
<1>2. Inv /\ HasReleased /\ [Next]_vars => HasReleased'
  BY HasReleasedStep
<1>3. Spec => [](Inv /\ HasReleased)
  BY <1>1, <1>2, Invariance, InitInv, NextInv, PTL DEF Spec
<1>4. Init => Monitor!MInit
  BY InitRefines
<1>5. Inv /\ Inv' /\ HasReleased /\ [Next]_vars => [Monitor!MNext]_(Monitor!mvars)
  BY StepRefines
<1>. QED
  BY <1>3, <1>4, <1>5, PTL DEF Spec, ImplementsMonitor, Monitor!MSpec
=============================================================================
