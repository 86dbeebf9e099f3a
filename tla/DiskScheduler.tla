--------------------------- MODULE DiskScheduler ---------------------------
(***************************************************************************)
(* The disk scheduler of main.cpp, a client of the thread library: one     *)
(* requester thread per file of track numbers puts its requests, one at a  *)
(* time, in a bounded list; a service thread waits until the list is as    *)
(* full as it can get and serves the request nearest to the current track. *)
(*                                                                         *)
(* Only thread_num is used without the lock: its increment and its use are *)
(* steps of their own.  Files that cannot be opened and threads that       *)
(* cannot be created are part of the model.                                *)
(***************************************************************************)
EXTENDS SchedulerThreads

VARIABLES
  threadNum, (* thread_num                                                 *)
  id,        (* cur_thread of each requester                               *)
  executed,  (* the file state of each requester's last task               *)
  current    (* cur_track                                                  *)

numbers == <<threadNum, id>>
data    == <<numbers, file, executed, queue, active, current>>
vars    == <<libVars, pc, data>>

Init ==
  /\ InitThreads
  /\ threadNum = -1
  /\ id = [p \in Requesters |-> -1]
  /\ executed = [p \in Requesters |-> FALSE]
  /\ current = [track |-> 0, id |-> -1, requester |-> None]

-----------------------------------------------------------------------------
(* ReadTxt.                                                                *)

(* thread_num++ loads, then stores; cur_thread reads it again.             *)
LoadNum(p) ==
  /\ Step(p, "open", "store")
  /\ id' = [id EXCEPT ![p] = threadNum + 1]
  /\ UNCHANGED <<libVars, threadNum, file, executed, queue, active, current>>

StoreNum(p) ==
  /\ Step(p, "store", "number")
  /\ threadNum' = id[p]
  /\ UNCHANGED <<libVars, id, file, executed, queue, active, current>>

ReadNum(p) ==
  /\ Step(p, "number", "read")
  /\ id' = [id EXCEPT ![p] = threadNum]
  /\ UNCHANGED <<libVars, threadNum, file, executed, queue, active, current>>

(* A file that was not opened is only reported; feof gets a null pointer.  *)
ReadNull(p) ==
  /\ pc[p] = "read" /\ file[p] = None
  /\ Die(p)
  /\ UNCHANGED data

(* The head of the loop over the file, up to the lock that follows.        *)
ReadLine(p) ==
  /\ file[p] # None
  /\ Step(p, "read", IF file[p] = <<>> THEN "leave" ELSE "room")
  /\ Lib!Lock(1)
  /\ UNCHANGED data

WaitForRoom(p) ==
  /\ Step(p, "room", "room") /\ IsFull(queue)
  /\ Lib!Wait(1, 1)
  /\ UNCHANGED data

(* Mutant: the task gets the number of the next requester.                 *)
TaskOfNext(p) == [track |-> Head(file[p]), id |-> id[p] + 1, requester |-> p]

Task(p) == [track |-> Head(file[p]), id |-> id[p], requester |-> p]

Request(p) ==
  /\ Step(p, "room", "await") /\ ~IsFull(queue)
  /\ queue' = Appended(queue, Task(p))
  /\ file' = [file EXCEPT ![p] = Tail(@)]
  /\ executed' = [executed EXCEPT ![p] = FALSE]
  /\ BroadcastCall(1)
  /\ UNCHANGED <<numbers, active, current>>

(* Mutant: the requester waits without giving up the lock.                 *)
SpinUntilServed(p) == Call(p) /\ pc[p] = "await" /\ UNCHANGED vars

WaitUntilServed(p) ==
  /\ Step(p, "await", "await") /\ ~executed[p]
  /\ Lib!Wait(1, id[p])
  /\ UNCHANGED data

(* Mutant: one wait, and no second look at the task.                       *)
NextRequestEarly(p) == Step(p, "await", "read") /\ Lib!Unlock(1) /\ UNCHANGED data

NextRequest(p) ==
  /\ Step(p, "await", "read") /\ executed[p]
  /\ Lib!Unlock(1)
  /\ UNCHANGED data

Leave(p) ==
  /\ Step(p, "leave", "last")
  /\ active' = active - 1
  /\ BroadcastCall(1)
  /\ UNCHANGED <<numbers, file, executed, queue, current>>

LastUnlock(p) ==
  /\ Step(p, "last", "end")
  /\ Lib!Unlock(1)
  /\ UNCHANGED data

-----------------------------------------------------------------------------
(* ServiceThread.                                                          *)

Begin ==
  /\ Step(Service, "begin", "loop")
  /\ Lib!Lock(1)
  /\ UNCHANGED data

(* The inner loop the service thread is in, or is about to enter: active   *)
(* is compared with max_size once, not again after each wait.              *)
Branch ==
  CASE pc[Service] # "loop" -> pc[Service]
    [] active > MaxSize     -> "full"
    [] OTHER                -> "all"

InLoop ==
  \/ pc[Service] = "loop" /\ (active > 0 \/ queue # <<>>)
  \/ pc[Service] \in {"full", "all"}

(* Mutant: the list is as long as there are requesters, but for one.       *)
TooFewLess ==
  \/ Branch = "full" /\ Len(queue) < MaxSize
  \/ Branch = "all"  /\ Len(queue) < active - 1

TooFew ==
  \/ Branch = "full" /\ Len(queue) < MaxSize
  \/ Branch = "all"  /\ Len(queue) < active

WaitForRequests ==
  /\ Step(Service, pc[Service], Branch) /\ InLoop /\ TooFew
  /\ Lib!Wait(1, 1)
  /\ UNCHANGED data

Serve ==
  /\ Step(Service, pc[Service], "signal") /\ InLoop /\ ~TooFew /\ active # 0
  /\ \E i \in PopChoices(queue, current.track) \ {0} :
       /\ queue' = RemoveAt(queue, i)
       /\ current' = queue[i]
       /\ executed' = [executed EXCEPT ![queue[i].requester] = TRUE]
  /\ BroadcastCall(1)
  /\ UNCHANGED <<numbers, file, active>>

(* pop found no nearest request, and returns an uninitialised pointer: its *)
(* use is fatal, or marks no request and signals anyone.                   *)
PopWild ==
  /\ InLoop /\ ~TooFew /\ active # 0
  /\ 0 \in PopChoices(queue, current.track)
  /\ \/ Die(Service) /\ UNCHANGED data
     \/ /\ Step(Service, pc[Service], "signal")
        /\ \E c \in Conds : current' = [track |-> 0, id |-> c, requester |-> None]
        /\ BroadcastCall(1)
        /\ UNCHANGED <<numbers, file, executed, queue, active>>

(* Mutant: the service thread gives up the lock after each request.        *)
SignalServedUnlocked ==
  /\ Step(Service, "signal", "begin")
  /\ Lib!Unlock(1)
  /\ UNCHANGED data

SignalServed ==
  /\ Step(Service, "signal", "loop")
  /\ SignalCall(current.id)
  /\ UNCHANGED data

LastRequestServed ==
  /\ Step(Service, "loop", "end") /\ ~InLoop
  /\ Lib!Unlock(1)
  /\ UNCHANGED data

(* Mutant: the service thread returns when one requester is left.          *)
ReturnLockedEarly ==
  Call(Service) /\ InLoop /\ active <= 1 /\ Lib!Exit /\ UNCHANGED <<pc, data>>

(* The last requester left during the wait: the function returns, with the *)
(* lock.                                                                   *)
ReturnLocked ==
  /\ Call(Service) /\ InLoop /\ ~TooFew /\ active = 0
  /\ Lib!Exit
  /\ UNCHANGED <<pc, data>>

-----------------------------------------------------------------------------
RequesterStep(p) ==
  \/ LoadNum(p) \/ StoreNum(p) \/ ReadNum(p) \/ ReadNull(p) \/ ReadLine(p)
  \/ WaitForRoom(p) \/ Request(p) \/ WaitUntilServed(p) \/ NextRequest(p)
  \/ Leave(p) \/ LastUnlock(p)

ServiceStep ==
  \/ Begin \/ WaitForRequests \/ Serve \/ PopWild \/ SignalServed
  \/ LastRequestServed \/ ReturnLocked

Exited == mode = "exited" /\ UNCHANGED vars

Next ==
  \/ ThreadStep /\ UNCHANGED data
  \/ \E p \in Requesters : RequesterStep(p)
  \/ ServiceStep
  \/ Exited

Spec == Init /\ [][Next]_vars

(* The processor finishes library calls; the timer lets a thread run for   *)
(* 10 ms before it preempts, so a thread that is dispatched again and      *)
(* again does not stay where it is.                                        *)
Fairness ==
  /\ WF_vars((Main \/ Finish) /\ UNCHANGED data)
  /\ WF_vars(Preempt /\ UNCHANGED data)
  /\ SF_vars(Create /\ UNCHANGED data)
  /\ SF_vars(ServiceStep \/ (Return(Service) /\ UNCHANGED data))
  /\ \A p \in Requesters :
       SF_vars(RequesterStep(p) \/ (Return(p) /\ UNCHANGED data))

FairSpec == Spec /\ Fairness
-----------------------------------------------------------------------------
(* Properties.                                                             *)

(* Two requesters have finished numbering themselves, with one number.     *)
Numbered(p) == pc[p] \notin {"open", "store", "number", "failed"}
Sharing ==
  \E p, q \in Requesters :
    p # q /\ Numbered(p) /\ Numbered(q) /\ id[p] = id[q]

TypeOK ==
  /\ Lib!TypeOK
  /\ pc \in [Threads -> {"begin", "open", "store", "number", "read", "room",
                         "await", "leave", "last", "end", "loop", "full",
                         "all", "signal", "failed", "died"}]
  /\ threadNum \in -1 .. N - 1
  /\ id \in [Requesters -> -1 .. N - 1]
  /\ executed \in [Requesters -> BOOLEAN]
  /\ active \in 0 .. N
  /\ Range(queue) \subseteq [track : Ints, id : 0 .. N - 1,
                             requester : Requesters]

(* The shared data is only touched by the thread that has lock 1: wherever *)
(* the code is between thread_lock(1) and thread_unlock(1), in every loop  *)
(* around thread_wait and thread_lock, the executing thread has it.        *)
CriticalSections ==
  mode = "threads" /\ Lib!At(running) = "user" =>
    (1 \in locks[running] <=>
      pc[running] \in {"room", "await", "leave", "last", "loop", "full",
                       "all", "signal"})

(* A requester has one request at a time: its task is in the list, once,   *)
(* from the append until the service thread takes and marks it.            *)
OneOutstanding ==
  /\ \A i, j \in DOMAIN queue : queue[i].requester = queue[j].requester => i = j
  /\ \A p \in Requesters :
       (pc[p] = "await" /\ ~executed[p]) <=>
         (\E i \in DOMAIN queue : queue[i].requester = p)

(* active_producer counts the requesters that have not yet said goodbye,   *)
(* and the list never holds more than that many requests, nor max_size     *)
(* (which may be negative: then it holds none).                            *)
ActiveCount ==
  /\ active = Cardinality({p \in Requesters : pc[p] \notin {"last", "end"}})
  /\ Len(queue) <= active
  /\ queue # <<>> => Len(queue) <= MaxSize

(* No lost wake-up: a requester that sleeps although its task was executed *)
(* is about to be signalled by the service thread, unless two requesters   *)
(* share a number.                                                         *)
NoMissedSignal ==
  \A p \in Requesters :
    pc[p] = "await" /\ executed[p] /\ Lib!CvBlocked(p) =>
      \/ Sharing
      \/ pc[Service] = "signal" /\ current.requester = p

(* When the process ends, every request was served and every requester     *)
(* left, except for a library that could not be initialised, a thread that *)
(* could not be created, a file that could not be opened, and two defects: *)
(* requesters that share a number, and a service thread that still waits   *)
(* for a full list although too few requesters are left to fill it.        *)
StrandedOnlyByKnownDefects ==
  mode = "exited" =>
    \/ \A p \in Requesters : file[p] = <<>> /\ Lib!At(p) = "done"
    \/ running = None \/ \E t \in Threads : pc[t] \in {"failed", "died"}
    \/ Sharing
    \/ pc[Service] = "full" /\ active < MaxSize

(* The lock the service thread keeps when it returns early is never asked  *)
(* for again.                                                              *)
LeakIsHarmless ==
  1 \in leaked => /\ \A p \in Requesters : pc[p] = "end"
                  /\ waiting = <<>>

(* What main.cpp does with its list and its head, seen without threads, is *)
(* what a nearest-first scheduler may do: each requester's tracks are      *)
(* asked for in order and once, and nothing is served before the list is   *)
(* as full as it can get.                                                  *)
Scheduler == INSTANCE NearestFirst WITH
  Unreadable <- None,
  todo       <- file,
  present    <- {p \in Requesters : pc[p] \notin {"last", "end"}},
  pending    <- [i \in DOMAIN queue |->
                   [track |-> queue[i].track, requester |-> queue[i].requester]],
  head       <- current.track

ImplementsNearestFirst == Scheduler!Spec

(* The service thread is the last to go: it ends only after every          *)
(* requester main() counted has made all its requests, has seen them       *)
(* served, and has left.  One that could not be created, or read its file, *)
(* never leaves, and the service thread waits for it.                      *)
ServiceOutlivesRequesters ==
  pc[Service] = "end" \/ Lib!At(Service) = "done" =>
    /\ queue = <<>>
    /\ \A p \in Requesters : file[p] = <<>> /\ pc[p] \in {"last", "end"}

(* pop always finds a request, because the list is never empty when it is  *)
(* called; that takes a list with room (max_size is atoi of an argument,   *)
(* 0 for one that is no number) and tracks whose distances fit an int.     *)
TracksFit ==
  \A f \in Files : \A p \in Requesters :
    f[p] # None => Range(f[p]) \subseteq 0 .. IntMax - 1

PopsARequest ==
  MaxSize > 0 /\ TracksFit =>
    /\ pc[Service] # "died"
    /\ pc[Service] = "signal" => current.requester # None

(* What the lock discipline that interrupt.h asks of applications would    *)
(* give main.cpp: no two requesters number their requests alike.           *)
UniqueNumbers == ~Sharing

(* A request in the list is served in the end, however near the other      *)
(* requests are, if the list has room for every requester, no two          *)
(* requesters share a number, and no thread is missing or takes the        *)
(* process down.                                                           *)
EveryRequestIsServed ==
  \A p \in Requesters :
    (\E i \in DOMAIN queue : queue[i].requester = p) ~>
      (executed[p] \/ Sharing \/ \E t \in Threads : pc[t] \in {"failed", "died"})

(* Without room in the list either no thread ever has a request, or the    *)
(* service thread dies, or it goes round its loop and keeps the lock.      *)
EndsOrSpins ==
  <>(mode = "exited") \/ <>[](queue = <<>> /\ 1 \in locks[Service])

(* The process ends: the last thread to block or return finds the run      *)
(* queue empty.  A crash, and main's return after a failed thread_libinit, *)
(* are ends too.                                                           *)
Terminates == <>(mode = "exited")
=============================================================================
