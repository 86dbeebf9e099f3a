---------------------------- MODULE LockMonitor ----------------------------
(***************************************************************************)
(* What thread.h promises to a program, without run queue, contexts or     *)
(* interrupts: every lock has at most one owner and a FIFO queue of its    *)
(* own, every (lock, condition) pair has a FIFO queue of its own, a woken  *)
(* thread takes its lock back before it goes on, and the process ends only *)
(* when no thread can go on.  Any thread that is not blocked may act, so   *)
(* the order in which the library schedules threads is left open.          *)
(***************************************************************************)
EXTENDS Sequences, Functions

CONSTANTS
  Threads, Locks, Conds,
  None       (* no owner, no lock to take back                             *)

VARIABLES
  life,      (* "unborn", "live" or "dead"                                 *)
  owner,     (* of each lock: a thread or None                             *)
  lost,      (* the locks whose owner ended without releasing them         *)
  lockQ,     (* of each lock: the threads blocked on it                    *)
  condQ,     (* of each lock and condition: the threads asleep on it       *)
  regain,    (* of each thread: the lock to take back before it goes on    *)
  over       (* the process has ended                                      *)

mvars == <<life, owner, lost, lockQ, condQ, regain, over>>

MInit ==
  /\ life = [t \in Threads |-> "unborn"]
  /\ owner = [l \in Locks |-> None]
  /\ lost = {}
  /\ lockQ = [l \in Locks |-> <<>>]
  /\ condQ = [p \in Locks \X Conds |-> <<>>]
  /\ regain = [t \in Threads |-> None]
  /\ over = FALSE

Blocked(t) ==
  \/ \E l \in Locks : t \in Range(lockQ[l])
  \/ \E p \in Locks \X Conds : t \in Range(condQ[p])

Ready(t)  == ~over /\ life[t] = "live" /\ ~Blocked(t)
Active(t) == Ready(t) /\ regain[t] = None

(* t may ask for l: a call of its own, or the end of a thread_wait.        *)
Free(l)    == owner[l] = None /\ l \notin lost
Asks(t, l) == Ready(t) /\ regain[t] \in {None, l} /\ owner[l] # t

AllOthersBlocked(t) ==
  \A u \in Threads \ {t} : life[u] = "live" => Blocked(u)

(* The owner gives l up, to the front of its queue if there is one.        *)
PassOn(l) ==
  IF lockQ[l] = <<>>
  THEN owner' = [owner EXCEPT ![l] = None] /\ UNCHANGED lockQ
  ELSE /\ owner' = [owner EXCEPT ![l] = Head(lockQ[l])]
       /\ lockQ' = [lockQ EXCEPT ![l] = Tail(@)]

Begin(t) ==
  /\ ~over
  /\ life[t] = "unborn"
  /\ life' = [life EXCEPT ![t] = "live"]
  /\ UNCHANGED <<owner, lost, lockQ, condQ, regain, over>>

(* A thread that ends takes its locks with it; the last one that can run   *)
(* ends the process.                                                       *)
End(t) ==
  /\ Active(t)
  /\ life' = [life EXCEPT ![t] = "dead"]
  /\ owner' = [l \in Locks |-> IF owner[l] = t THEN None ELSE owner[l]]
  /\ lost' = lost \cup {l \in Locks : owner[l] = t}
  /\ over' = AllOthersBlocked(t)
  /\ UNCHANGED <<lockQ, condQ, regain>>

Take(t, l) ==
  /\ Asks(t, l)
  /\ Free(l)
  /\ owner' = [owner EXCEPT ![l] = t]
  /\ regain' = [regain EXCEPT ![t] = None]
  /\ UNCHANGED <<life, lost, lockQ, condQ, over>>

Block(t, l) ==
  /\ Asks(t, l)
  /\ ~Free(l)
  /\ lockQ' = [lockQ EXCEPT ![l] = Append(@, t)]
  /\ regain' = [regain EXCEPT ![t] = None]
  /\ UNCHANGED <<life, owner, lost, condQ, over>>

Give(t, l) ==
  /\ Active(t)
  /\ owner[l] = t
  /\ PassOn(l)
  /\ UNCHANGED <<life, lost, condQ, regain, over>>

Sleep(t, l, c) ==
  /\ Active(t)
  /\ owner[l] = t
  /\ PassOn(l)
  /\ condQ' = [condQ EXCEPT ![<<l, c>>] = Append(@, t)]
  /\ regain' = [regain EXCEPT ![t] = l]
  /\ UNCHANGED <<life, lost, over>>

Wake(l, c) ==
  /\ \E t \in Threads : Active(t)
  /\ condQ[l, c] # <<>>
  /\ condQ' = [condQ EXCEPT ![<<l, c>>] = Tail(@)]
  /\ UNCHANGED <<life, owner, lost, lockQ, regain, over>>

WakeAll(l, c) ==
  /\ \E t \in Threads : Active(t)
  /\ condQ' = [condQ EXCEPT ![<<l, c>>] = <<>>]
  /\ UNCHANGED <<life, owner, lost, lockQ, regain, over>>

(* The only thread that can go on asks for a lock that is taken, or goes   *)
(* to sleep on a lock that nobody waits for: the process ends instead.     *)
HaltBlocking(t, l) ==
  /\ Asks(t, l)
  /\ ~Free(l)
  /\ AllOthersBlocked(t)
  /\ over' = TRUE
  /\ UNCHANGED <<life, owner, lost, lockQ, condQ, regain>>

HaltSleeping(t, l) ==
  /\ Active(t)
  /\ owner[l] = t
  /\ lockQ[l] = <<>>
  /\ AllOthersBlocked(t)
  /\ PassOn(l)
  /\ over' = TRUE
  /\ UNCHANGED <<life, lost, condQ, regain>>

(* main() returns without any thread having begun.                         *)
HaltUnused ==
  /\ \A t \in Threads : life[t] = "unborn"
  /\ over' = TRUE
  /\ UNCHANGED <<life, owner, lost, lockQ, condQ, regain>>

MNext ==
  \/ \E t \in Threads : Begin(t) \/ End(t)
  \/ \E t \in Threads, l \in Locks :
       Take(t, l) \/ Block(t, l) \/ Give(t, l) \/ HaltBlocking(t, l)
         \/ HaltSleeping(t, l)
  \/ \E t \in Threads, l \in Locks, c \in Conds : Sleep(t, l, c)
  \/ \E l \in Locks, c \in Conds : Wake(l, c) \/ WakeAll(l, c)
  \/ HaltUnused

MSpec == MInit /\ [][MNext]_mvars
=============================================================================
