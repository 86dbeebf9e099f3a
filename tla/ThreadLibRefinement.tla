------------------------ MODULE ThreadLibRefinement ------------------------
(***************************************************************************)
(* thread.cc implements LockMonitor: the owner of a lock is the thread     *)
(* whose set holds it, the queues of the monitor are the entries of the    *)
(* two vectors for that lock and condition, and during the loop of         *)
(* thread_broadcast the entries still to be woken count as woken.          *)
(***************************************************************************)
EXTENDS ThreadLib, FiniteSets

Owner(l) ==
  IF \E t \in Threads : l \in locks[t]
  THEN CHOOSE t \in Threads : l \in locks[t]
  ELSE None

(* The positions in S, in order.                                           *)
InOrder(S) ==
  [k \in 1 .. Cardinality(S) |->
     CHOOSE i \in S : Cardinality({j \in S : j <= i}) = k]

(* The threads of the entries of s at the positions in S, oldest first.    *)
ThreadsOf(s, S) == [k \in 1 .. Cardinality(S) |-> s[InOrder(S)[k]].ct]

Broadcasting(l, c) ==
  mode = "threads" /\ frame[running] = Frame("broadcast", l, c)

Asleep(l, c) == IF Broadcasting(l, c) THEN {} ELSE CvWaiters(l, c)

Life == [t \in Threads |-> CASE At(t) = "none" -> "unborn"
                             [] At(t) = "done" -> "dead"
                             [] OTHER          -> "live"]

Owners      == [l \in Locks |-> Owner(l)]
LostLocks   == using \ UNION {locks[t] : t \in Threads}
LockQueues  == [l \in Locks |-> ThreadsOf(waiting, Waiters(l))]
SleepQueues == [p \in Locks \X Conds |-> ThreadsOf(cv, Asleep(p[1], p[2]))]

ToTakeBack ==
  [t \in Threads |-> IF At(t) = "wait" THEN frame[t].lock ELSE None]

Over == mode = "exited"

Monitor == INSTANCE LockMonitor WITH
  life <- Life, owner <- Owners, lost <- LostLocks, lockQ <- LockQueues,
  condQ <- SleepQueues, regain <- ToTakeBack, over <- Over

(* Every step of the library is a step of the monitor or invisible to it:  *)
(* per-lock and per-condition FIFO order, one owner per lock, a broadcast  *)
(* that wakes exactly the threads asleep when it began, and no end of the  *)
(* process while a thread could go on.                                     *)
ImplementsMonitor == Monitor!MSpec
=============================================================================
