------------------------ MODULE DiskSchedulerProofs ------------------------
(***************************************************************************)
(* Theorems about DiskScheduler, for any number of requesters, any files,  *)
(* any max_size and any number of failures.                                *)
(***************************************************************************)
EXTENDS DiskScheduler, SchedulerThreadsProofs

Queue == INSTANCE WaitQueueProofs WITH list <- queue, current <- current.track

-----------------------------------------------------------------------------
(* The inductive invariant.                                                *)

(* A thread that dies takes the process with it; until then the invariant  *)
(* of the thread library holds.                                            *)
Died == \E t \in Threads : pc[t] = "died"

Library ==
  /\ Died => mode = "exited"
  /\ ~ Died => LibInv

(* Where the code has lock 1, and where it may wait inside a library call. *)
Locked == {"room", "await", "leave", "last", "loop", "full", "all", "signal"}
Blocks == {"room", "await", "leave", "loop", "full", "all"}

ServicePlaces   == {"begin", "loop", "full", "all", "signal", "end", "failed", "died"}
RequesterPlaces == {"open", "store", "number", "read", "room", "await", "leave",
                    "last", "end", "failed", "died"}

Places ==
  /\ pc[Boot] = "begin"
  /\ pc[Service] \in ServicePlaces
  /\ \A p \in Requesters : pc[p] \in RequesterPlaces

(* thread_num is less than the number of requesters that have stored it.   *)
Stored == {p \in Requesters : pc[p] \notin {"open", "store", "failed"}}

Numbering ==
  /\ threadNum < Cardinality(Stored)
  /\ Stored # {} => threadNum >= 0
  /\ \A p \in Requesters : pc[p] = "store" => id[p] \in 0 .. Cardinality(Stored)
  /\ \A p \in Stored : id[p] \in 0 .. N - 1

(* The requests in the list are those of the requesters that wait.         *)
Entry == [track : Ints, id : 0 .. N - 1, requester : Requesters]

Tasks ==
  /\ queue \in Seq(Entry)
  /\ \A i \in DOMAIN queue : queue[i].id = id[queue[i].requester]
  /\ OneOutstanding

Present  == {p \in Requesters : pc[p] \notin {"last", "end"}}
Counting == active = Cardinality(Present)

(* Nothing is appended to a full list.                                     *)
Bounded == queue # <<>> => Len(queue) <= MaxSize

(* What is left of the files, and that no track wraps if none was too big. *)
Tracks ==
  /\ file \in [Requesters -> Seq(Ints) \cup {None}]
  /\ \A p \in Requesters :
       /\ pc[p] = "room" => file[p] \notin {None, <<>>}
       /\ pc[p] \in {"leave", "last", "end"} => file[p] = <<>>
  /\ current \in [track : Ints, id : Conds, requester : Requesters \cup {None}]
  /\ TracksFit =>
       /\ \A p \in Requesters :
            file[p] # None => \A i \in DOMAIN file[p] : file[p][i] \in 0 .. IntMax - 1
       /\ \A i \in DOMAIN queue : queue[i].track \in 0 .. IntMax - 1
       /\ current.track \in {0} \cup (0 .. IntMax - 1)

(* Who waits for what.  Requesters wait for room, and the service thread   *)
(* for requests, on condition 1; a requester waits for its task on its own *)
(* number.  When the service thread is about to signal one, nobody waits   *)
(* on condition 1 any more.                                                *)
Conditions ==
  /\ \A i \in DOMAIN cv :
       \/ cv[i].cond = 1 /\ pc[cv[i].ct] \in {"room", "full", "all"}
       \/ cv[i].ct \in Requesters /\ pc[cv[i].ct] = "await" /\ cv[i].cond = id[cv[i].ct]
  /\ \A t \in Threads : Lib!At(t) = "broadcast" => frame[t].cond = 1
  /\ pc[Service] = "signal" =>
       /\ Lib!At(Service) # "broadcast" => \A i \in DOMAIN cv : cv[i].cond # 1
       /\ current.requester # None =>
            current.id = id[current.requester] /\ Numbered(current.requester)

(* Who waits on condition 1 still has to, until a broadcast is under way.  *)
Wakeups ==
  /\ (\A t \in Threads : Lib!At(t) # "broadcast") =>
       \A i \in DOMAIN cv :
         /\ pc[cv[i].ct] = "room" => IsFull(queue)
         /\ pc[cv[i].ct] = "full" => Len(queue) < MaxSize
         /\ pc[cv[i].ct] = "all"  => Len(queue) < active
  /\ pc[Service] = "all" => active <= MaxSize

(* Before thread_libinit nobody runs; after it, the first thread ends only *)
(* when it has tried to create the others, and a requester only when its   *)
(* function returns.                                                       *)
Lives ==
  /\ mode = "main" => running = None
  /\ mode = "threads" => Lib!At(Boot) # "none"
  /\ Lib!At(Boot) = "done" => Uncreated = {}
  /\ \A p \in Requesters : Lib!At(p) = "done" => pc[p] = "end"

Leaks == LeakIsHarmless /\ (1 \in leaked => Lib!At(Service) = "done")

IInv ==
  /\ TypeOK
  /\ Library
  /\ Sections(Locked, Blocks)
  /\ Places
  /\ Numbering
  /\ Tasks
  /\ Counting
  /\ Bounded
  /\ Tracks
  /\ PopsARequest
  /\ Conditions
  /\ NoMissedSignal
  /\ Wakeups
  /\ Lives
  /\ ServiceOutlivesRequesters
  /\ Leaks
  /\ StrandedOnlyByKnownDefects

-----------------------------------------------------------------------------
(* What every proof below needs of a state, and of a call.                 *)
PCs == ServicePlaces \cup RequesterPlaces

LEMMA Constants ==
  /\ N \in Nat /\ IntMax \in Nat /\ MaxSize \in Int
  /\ Boot \in Threads /\ Service \in Threads /\ Boot # Service
  /\ Boot \notin Requesters /\ Service \notin Requesters
  /\ Threads = Requesters \cup {Boot, Service}
  /\ \A p \in Requesters : p \in Threads /\ p # Boot /\ p # Service
  /\ None \notin Threads /\ 1 \in Locks /\ 1 \in Conds /\ \A k \in 0 .. N - 1 : k \in Conds
  /\ IsFiniteSet(Requesters) /\ Cardinality(Requesters) = N
<1>1. /\ N \in Nat /\ IntMax \in Nat /\ MaxSize \in Int
      /\ Boot # Service /\ {Boot, Service} \cap Requesters = {}
      /\ None \notin Threads
  BY SchedulerAssumption, IntMaxAssumption, MaxSizeAssumption
<1>2. IsFiniteSet(Requesters) /\ Cardinality(Requesters) = N
  BY <1>1, FS_Interval DEF Requesters
<1>. QED BY <1>1, <1>2 DEF Threads, Conds, Locks

LEMMA Basics ==
  ASSUME TypeOK, Places
  PROVE  /\ pc \in [Threads -> PCs]
         /\ threadNum \in -1 .. N - 1 /\ active \in 0 .. N
         /\ id \in [Requesters -> -1 .. N - 1]
         /\ executed \in [Requesters -> BOOLEAN]
         /\ frame \in [Threads -> Lib!Frames] /\ locks \in [Threads -> SUBSET Locks]
BY Constants DEF TypeOK, Lib!TypeOK, Places, PCs, ServicePlaces, RequesterPlaces

(* A thread that calls has lock 1 exactly where its code says so, and then *)
(* no other thread is in a critical section but inside a call that waits.  *)
LEMMA CallerFacts ==
  ASSUME IInv, NEW t, Call(t)
  PROVE  /\ Calling(t, PCs) /\ LibInv /\ ~ Died
         /\ t \in Threads /\ t = running /\ mode = "threads" /\ Lib!At(t) = "user"
         /\ 1 \in locks[t] <=> pc[t] \in Locked
         /\ \A u \in Threads \ {t} :
              /\ Lib!At(u) \notin {"user", "broadcast"}
              /\ pc[t] \in Locked /\ pc[u] \in Locked =>
                   Lib!At(u) \in {"lock", "wait", "relock", "done"}
<1>1. mode = "threads" /\ LibInv /\ ~ Died /\ Calling(t, PCs)
  BY Basics DEF IInv, Call, Lib!Enter, Library, Calling
<1>2. /\ t \in Threads /\ t = running /\ Lib!At(t) = "user"
      /\ Lib!MutualExclusion /\ Lib!TypeOK /\ Lib!MaskDiscipline
  BY <1>1, CallFacts, LibFacts
<1>3. \A u \in Threads : Lib!At(u) \in Lib!Points
  BY <1>2 DEF Lib!TypeOK, Lib!Frames, Lib!At
<1>4. 1 \in locks[t] <=> pc[t] \in Locked
  BY <1>1, <1>2 DEF IInv, Sections
<1>. QED
  BY <1>1, <1>2, <1>3, <1>4 DEF IInv, Sections, Lib!MutualExclusion, Lib!MaskDiscipline, Lib!Points

(* A step of main, of first_thread_start_function or of the library leaves *)
(* every thread's code where it is, or gives up one that never began.      *)
LEMMA ThreadStepFacts ==
  ASSUME IInv, ThreadStep
  PROVE  \/ pc' = pc
         \/ \E t \in Threads \ {Boot} :
              /\ pc[t] \in {"open", "begin"} /\ Lib!At(t) = "none"
              /\ pc' = [pc EXCEPT ![t] = "failed"]
<1>1. CASE CreateFails
  <2>1. Call(Boot) /\ Uncreated # {} /\ Goto(NextThread, "failed")
    BY <1>1 DEF CreateFails
  <2>2. Lib!TypeOK /\ Lib!At(Boot) = "user" /\ mode = "threads"
    BY <2>1, CallerFacts DEF IInv, TypeOK
  <2>3. NextThread \in Threads /\ Lib!At(NextThread) = "none" /\ pc[NextThread] # "failed"
    BY <2>1, <2>2, NextThreadIsUncreated DEF Uncreated
  <2>4. NextThread # Boot
    BY <2>2, <2>3
  <2>5. pc[NextThread] \in {"open", "begin"}
    BY <2>2, <2>3 DEF IInv, Sections
  <2>. QED BY <2>1, <2>3, <2>4, <2>5 DEF Goto
<1>2. CASE ThreadStep /\ ~ CreateFails
  BY <1>2 DEF ThreadStep, Main, Create, Libinit, LibinitFails, MainReturns, CreateNext,
              BootReturns, Preempt, Finish, Return
<1>. QED BY <1>1, <1>2

-----------------------------------------------------------------------------
LEMMA InitIInv == Init => IInv
<1>. SUFFICES ASSUME Init PROVE IInv
  OBVIOUS
<1>. USE Constants DEF Init, InitThreads
<1>1. LibInv /\ Lib!TypeOK
  BY LibInitInv, LibFacts
<1>2. /\ mode = "main" /\ running = None /\ leaked = {} /\ cv = <<>> /\ waiting = <<>>
      /\ \A t \in Threads : frame[t].at = "none" /\ locks[t] = {}
  BY DEF Lib!Init, Lib!Frame
<1>3. \A t \in Threads : pc[t] = IF t \in Requesters THEN "open" ELSE "begin"
  OBVIOUS
<1>4. Range(queue) = {}
  BY DEF Range
<1>5. TypeOK
  BY <1>1, <1>3, <1>4 DEF TypeOK
<1>6. Library
  BY <1>1, <1>3 DEF Library, Died
<1>7. Sections(Locked, Blocks)
  BY <1>2, <1>3 DEF Sections, Locked, Blocks, Lib!At
<1>8. Places
  BY <1>3 DEF Places, ServicePlaces, RequesterPlaces
<1>9. Numbering
  <2>1. Stored = {}
    BY <1>3 DEF Stored
  <2>. QED BY <1>3, <2>1, FS_EmptySet DEF Numbering
<1>10. Tasks
  BY <1>3, EmptySeq DEF Tasks, OneOutstanding
<1>11. Counting /\ Bounded
  <2>1. Present = Requesters
    BY <1>3 DEF Present
  <2>. QED BY <2>1 DEF Counting, Bounded
<1>12. Tracks
  <2>1. /\ file \in Files /\ Files \subseteq [Requesters -> Seq(Ints) \cup {None}]
        /\ current = [track |-> 0, id |-> -1, requester |-> None]
        /\ 0 \in Ints /\ -1 \in Conds
    BY SchedulerAssumption DEF Ints, IntMin, Conds
  <2>2. \A f \in Files : f \in [Requesters -> Seq(Ints) \cup {None}]
    BY <2>1
  <2>3. ASSUME TracksFit, NEW p \in Requesters, file[p] # None, NEW i \in DOMAIN file[p]
        PROVE  file[p][i] \in 0 .. IntMax - 1
    BY <2>1, <2>3 DEF TracksFit, Range
  <2>. QED BY <1>3, <2>1, <2>2, <2>3 DEF Tracks
<1>13. PopsARequest
  BY <1>3 DEF PopsARequest
<1>14. Conditions
  BY <1>2, <1>3 DEF Conditions, Lib!At
<1>15. NoMissedSignal /\ ServiceOutlivesRequesters /\ StrandedOnlyByKnownDefects
  BY <1>2, <1>3 DEF NoMissedSignal, ServiceOutlivesRequesters, StrandedOnlyByKnownDefects, Lib!At
<1>16. Wakeups /\ Lives /\ Leaks
  BY <1>2, <1>3 DEF Wakeups, Lives, Leaks, LeakIsHarmless, Lib!At
<1>. QED
  BY <1>5, <1>6, <1>7, <1>8, <1>9, <1>10, <1>11, <1>12, <1>13, <1>14, <1>15, <1>16 DEF IInv

-----------------------------------------------------------------------------
(* A step of the process: one that is not the stuttering of its end.       *)
Moves ==
  \/ ThreadStep /\ UNCHANGED data
  \/ \E p \in Requesters : RequesterStep(p)
  \/ ServiceStep

LEMMA MovesAlive ==
  ASSUME IInv, ThreadStep \/ \E t : Call(t)
  PROVE  mode # "exited" /\ ~ Died /\ LibInv
<1>1. mode # "exited"
  BY DEF ThreadStep, Main, Create, Libinit, LibinitFails, MainReturns, CreateNext,
         CreateFails, BootReturns, Preempt, Finish, Return, Call, Lib!Enter, Lib!Inside,
         Lib!Libinit, Lib!LibinitFails, Lib!MainReturns, Lib!Yield, Lib!Resume,
         Lib!Start, Lib!ResumeYield, Lib!ResumeLock, Lib!ResumeWait,
         Lib!ResumeRelock, Lib!BroadcastWake, Lib!BroadcastReturn
<1>. QED BY <1>1 DEF IInv, Library

(* Such steps are steps of the library, unless they are fatal.             *)
LEMMA LibraryMoves ==
  ASSUME IInv, Moves
  PROVE  \/ mode # "exited" /\ ~ Died' /\ (Lib!Next \/ UNCHANGED libVars)
         \/ \E t : Die(t)
<1>. DEFINE Goal == \/ mode # "exited" /\ ~ Died' /\ (Lib!Next \/ UNCHANGED libVars)
                    \/ \E t : Die(t)
<1>. USE Constants
<1>1. ASSUME mode # "exited", ~ Died', Lib!Next \/ UNCHANGED libVars PROVE Goal
  BY <1>1
<1>2. ASSUME NEW t, Die(t) PROVE Goal
  BY <1>2
<1>. HIDE DEF Goal
<1>3. ASSUME NEW t, Call(t), NEW to, Goto(t, to), to # "died" PROVE mode # "exited" /\ ~ Died'
  <2>1. t \in Threads /\ pc \in [Threads -> PCs] /\ ~ Died /\ mode = "threads"
    BY <1>3, CallerFacts, Basics DEF IInv
  <2>. QED BY <1>3, <2>1 DEF Goto, Died
<1>4. ASSUME NEW c \in Conds
      PROVE  /\ BroadcastCall(c) \/ SignalCall(c) => Lib!Next \/ UNCHANGED libVars
             /\ Lib!Lock(1) \/ Lib!Unlock(1) \/ Lib!Wait(1, c) \/ Lib!Exit => Lib!Next
  BY DEF BroadcastCall, SignalCall, Lib!Next
<1>5. ASSUME NEW t, NEW from, NEW to, NEW c \in Conds, Step(t, from, to), to # "died",
             \/ BroadcastCall(c) \/ SignalCall(c) \/ UNCHANGED libVars
             \/ Lib!Lock(1) \/ Lib!Unlock(1) \/ Lib!Wait(1, c)
      PROVE  Goal
  BY <1>1, <1>3, <1>4, <1>5 DEF Step
<1>6. ASSUME ThreadStep PROVE Goal
  <2>1. mode # "exited"
    BY <1>6, MovesAlive
  <2>2. ~ Died'
    BY <1>6, <2>1, ThreadStepFacts, Basics DEF IInv, Library, Died
  <2>3. ASSUME CreateNext PROVE Goal
    <3>1. Lib!TypeOK /\ Lib!At(Boot) # "none"
      BY <2>3 DEF IInv, TypeOK, CreateNext, Call, Lib!Enter
    <3>2. Lib!Next
      BY <2>3, <3>1, NextThreadIsUncreated DEF CreateNext, Lib!Next
    <3>. QED BY <1>1, <2>1, <2>2, <3>2
  <2>4. ASSUME ~ CreateNext PROVE Goal
    <3>1. Lib!Next \/ UNCHANGED libVars
      BY <1>6, <2>4 DEF ThreadStep, Main, Create, Libinit, LibinitFails, MainReturns,
                CreateFails, BootReturns, Preempt, Finish, Return, Lib!Next
    <3>. QED BY <1>1, <2>1, <2>2, <3>1
  <2>. QED BY <2>3, <2>4
<1>7. ASSUME NEW p \in Requesters, RequesterStep(p) PROVE Goal
  <2>1. ASSUME ReadNull(p) PROVE Goal
    BY <1>2, <2>1 DEF ReadNull
  <2>2. id[p] \in Conds
    BY Basics DEF IInv, Conds
  <2>3. ASSUME WaitUntilServed(p) PROVE Goal
    BY <1>5, <2>2, <2>3 DEF WaitUntilServed
  <2>4. ASSUME LoadNum(p) \/ StoreNum(p) \/ ReadNum(p) \/ Request(p) \/ Leave(p) PROVE Goal
    BY <1>5, <2>4 DEF LoadNum, StoreNum, ReadNum, Request, Leave
  <2>5. ASSUME ReadLine(p) \/ WaitForRoom(p) \/ NextRequest(p) \/ LastUnlock(p) PROVE Goal
    BY <1>5, <2>5 DEF ReadLine, WaitForRoom, NextRequest, LastUnlock
  <2>. QED BY <1>7, <2>1, <2>3, <2>4, <2>5 DEF RequesterStep
<1>8. ASSUME ServiceStep PROVE Goal
  <2>1. current.id \in Conds
    BY DEF IInv, Tracks
  <2>2. ASSUME SignalServed PROVE Goal
    BY <1>5, <2>1, <2>2 DEF SignalServed
  <2>3. ASSUME WaitForRequests PROVE Goal
    <3>1. Branch \in {"full", "all"}
      BY <2>3 DEF Branch, WaitForRequests, InLoop
    <3>. QED BY <1>5, <2>3, <3>1 DEF WaitForRequests
  <2>6. ASSUME Begin \/ LastRequestServed PROVE Goal
    BY <1>5, <2>6 DEF Begin, LastRequestServed
  <2>4. ASSUME Serve \/ PopWild PROVE Goal
    BY <1>2, <1>5, <2>4 DEF Serve, PopWild
  <2>5. ASSUME ReturnLocked PROVE Goal
    <3>1. mode # "exited" /\ ~ Died'
      <4>1. pc' = pc /\ Call(Service)
        BY <2>5 DEF ReturnLocked
      <4>. QED BY <4>1, CallerFacts DEF Died
    <3>. QED BY <1>1, <1>4, <2>5, <3>1 DEF ReturnLocked
  <2>. QED BY <1>8, <2>2, <2>3, <2>4, <2>5, <2>6 DEF ServiceStep
<1>. QED BY <1>6, <1>7, <1>8 DEF Moves, Goal

LEMMA LibraryStep ==
  ASSUME IInv, Moves
  PROVE  Library' /\ Lib!TypeOK'
<1>1. CASE mode # "exited" /\ ~ Died' /\ (Lib!Next \/ UNCHANGED libVars)
  <2>1. LibInv
    BY <1>1 DEF IInv, Library
  <2>. QED BY <1>1, <2>1, LibKept DEF Library
<1>2. ASSUME NEW t, Die(t) PROVE Library' /\ Lib!TypeOK'
  <2>1. t \in Threads /\ pc \in [Threads -> PCs]
    BY <1>2, CallerFacts, Basics DEF Die, IInv
  <2>2. Died' /\ mode' = "exited"
    BY <1>2, <2>1 DEF Die, Goto, Died
  <2>3. Lib!TypeOK'
    BY <1>2 DEF Die, IInv, TypeOK, Lib!TypeOK
  <2>. QED BY <2>2, <2>3 DEF Library
<1>. QED BY <1>1, <1>2, LibraryMoves

(* Each move of a thread's code, from where it was to where it is.         *)
LEMMA SectionsStep ==
  ASSUME IInv, Moves
  PROVE  Sections(Locked, Blocks)'
<1>. DEFINE S == Sections(Locked, Blocks)
<1>. USE Constants DEF Locked, Blocks
<1>1. S
  BY DEF IInv
<1>2. CASE ThreadStep
  <2>1. LibInv /\ pc \in [Threads -> PCs]
    BY <1>2, MovesAlive, Basics DEF IInv
  <2>. QED BY <1>1, <1>2, <2>1, SectionsThreads
<1>3. ASSUME NEW t, NEW from, NEW to \in PCs, Step(t, from, to)
      PROVE  /\ Lib!Lock(1) /\ to \in Blocks => S'
             /\ Lib!Unlock(1) /\ to \notin Locked => S'
             /\ \A c : Lib!Wait(1, c) /\ to \in Blocks => S'
             /\ \A c : Wakes(c) /\ (to \in Locked <=> from \in Locked) => S'
  <2>1. Calling(t, PCs) /\ Goto(t, to) /\ pc[t] = from
    BY <1>3, CallerFacts DEF Step
  <2>2. ASSUME Lib!Lock(1), to \in Blocks PROVE S'
    BY <1>1, <2>1, <2>2, SectionsLock
  <2>3. ASSUME Lib!Unlock(1), to \notin Locked PROVE S'
    BY <1>1, <2>1, <2>3, SectionsUnlock
  <2>4. ASSUME NEW c, Lib!Wait(1, c), to \in Blocks PROVE S'
    BY <1>1, <2>1, <2>4, SectionsWait
  <2>5. ASSUME NEW c, Wakes(c), to \in Locked <=> from \in Locked PROVE S'
    BY <1>1, <2>1, <2>5, SectionsWake
  <2>. QED BY <2>2, <2>3, <2>4, <2>5
<1>4. ASSUME NEW t, Die(t) PROVE S'
  BY <1>4 DEF Die, Sections
<1>5. ASSUME ReturnLocked PROVE S'
  <2>1. Lib!Exit /\ pc' = pc /\ Call(Service)
    BY <1>5 DEF ReturnLocked
  <2>2. Service = running /\ locks \in [Threads -> SUBSET Locks] /\ frame \in [Threads -> Lib!Frames]
    BY <2>1, CallerFacts, Basics DEF IInv
  <2>. QED
    BY <1>1, <1>5, <2>1, <2>2 DEF Sections, Lib!Exit, Lib!At, Lib!Frame, Lib!EndProcess
<1>. HIDE DEF S
<1>. USE DEF PCs, ServicePlaces, RequesterPlaces
<1>6. ASSUME NEW p \in Requesters, RequesterStep(p) PROVE S'
  <2>1. CASE LoadNum(p) \/ StoreNum(p) \/ ReadNum(p)
    BY <1>3, <2>1 DEF LoadNum, StoreNum, ReadNum, Wakes
  <2>2. CASE ReadNull(p)
    BY <1>4, <2>2 DEF ReadNull
  <2>3. CASE ReadLine(p)
    BY <1>3, <2>3 DEF ReadLine
  <2>4. CASE WaitForRoom(p) \/ WaitUntilServed(p)
    BY <1>3, <2>4 DEF WaitForRoom, WaitUntilServed
  <2>5. CASE Request(p) \/ Leave(p)
    BY <1>3, <2>5 DEF Request, Leave, Wakes
  <2>6. CASE NextRequest(p) \/ LastUnlock(p)
    BY <1>3, <2>6 DEF NextRequest, LastUnlock
  <2>. QED BY <1>6, <2>1, <2>2, <2>3, <2>4, <2>5, <2>6 DEF RequesterStep
<1>7. ASSUME ServiceStep PROVE S'
  <2>1. CASE Begin
    BY <1>3, <2>1 DEF Begin
  <2>2. CASE WaitForRequests
    <3>1. Branch \in {"full", "all"}
      BY <2>2 DEF Branch, WaitForRequests, InLoop
    <3>. QED BY <1>3, <2>2, <3>1 DEF WaitForRequests
  <2>3. InLoop => pc[Service] \in Locked
    BY DEF InLoop
  <2>4. CASE Serve
    BY <1>3, <2>3, <2>4 DEF Serve, Wakes
  <2>5. CASE PopWild
    BY <1>3, <1>4, <2>3, <2>5 DEF PopWild, Wakes
  <2>6. CASE SignalServed
    BY <1>3, <2>6 DEF SignalServed, Wakes
  <2>7. CASE LastRequestServed
    BY <1>3, <2>7 DEF LastRequestServed
  <2>. QED BY <1>5, <1>7, <2>1, <2>2, <2>4, <2>5, <2>6, <2>7 DEF ServiceStep
<1>. QED BY <1>2, <1>6, <1>7 DEF Moves, S

-----------------------------------------------------------------------------
(* Where the code of a thread is, and the data, whoever has the lock.      *)

LEMMA PlacesStep ==
  ASSUME IInv, Moves
  PROVE  Places' /\ pc' \in [Threads -> PCs]
<1>. USE Constants
<1>1. Places /\ pc \in [Threads -> PCs]
  BY Basics DEF IInv
<1>. USE DEF PCs, ServicePlaces, RequesterPlaces, Places
<1>2. CASE ThreadStep
  BY <1>1, <1>2, ThreadStepFacts
<1>3. ASSUME NEW p \in Requesters, NEW to \in RequesterPlaces, Goto(p, to)
      PROVE  Places' /\ pc' \in [Threads -> PCs]
  BY <1>1, <1>3 DEF Goto
<1>4. ASSUME NEW to \in ServicePlaces, Goto(Service, to)
      PROVE  Places' /\ pc' \in [Threads -> PCs]
  BY <1>1, <1>4 DEF Goto
<1>. USE DEF Step, Die
<1>5. ASSUME NEW p \in Requesters, RequesterStep(p) PROVE Places' /\ pc' \in [Threads -> PCs]
  BY <1>3, <1>5 DEF RequesterStep, LoadNum, StoreNum, ReadNum, ReadNull, ReadLine, WaitForRoom,
                    Request, WaitUntilServed, NextRequest, Leave, LastUnlock
<1>6. CASE ServiceStep
  <2>1. WaitForRequests => Branch \in {"full", "all"}
    BY DEF Branch, WaitForRequests, InLoop
  <2>. QED
    BY <1>1, <1>4, <1>6, <2>1 DEF ServiceStep, Begin, WaitForRequests, Serve, PopWild, SignalServed,
                             LastRequestServed, ReturnLocked
<1>. QED BY <1>2, <1>5, <1>6 DEF Moves

LEMMA NumberingStep ==
  ASSUME IInv, Moves
  PROVE  Numbering' /\ threadNum' \in -1 .. N - 1 /\ id' \in [Requesters -> -1 .. N - 1]
<1>. DEFINE Goal == Numbering' /\ threadNum' \in -1 .. N - 1 /\ id' \in [Requesters -> -1 .. N - 1]
            n == Cardinality(Stored)
<1>. USE Constants
<1>1. /\ pc \in [Threads -> PCs] /\ threadNum \in -1 .. N - 1
      /\ id \in [Requesters -> -1 .. N - 1] /\ Numbering
  BY Basics DEF IInv
<1>2. IsFiniteSet(Stored) /\ n \in Nat /\ n <= N
  BY FS_Subset, FS_CardinalityType DEF Stored
<1>3. ASSUME NEW p \in Requesters, p \notin Stored
      PROVE  /\ n <= N - 1
             /\ Cardinality(Stored \cup {p}) = n + 1
  <2>1. Cardinality(Stored \cup {p}) = n + 1
    BY <1>2, <1>3, FS_AddElement
  <2>2. Cardinality(Stored \cup {p}) <= N
    BY FS_Subset DEF Stored
  <2>. QED BY <1>2, <2>1, <2>2
<1>4. ASSUME UNCHANGED numbers, Stored' = Stored,
             \A p \in Requesters : pc'[p] = "store" => pc[p] = "store"
      PROVE  Goal
  BY <1>1, <1>4 DEF Numbering, numbers
<1>5. ASSUME UNCHANGED numbers, NEW t \in Threads, NEW to \in PCs, Goto(t, to), to # "store",
             pc[t] \in {"open", "store", "failed"} <=> to \in {"open", "store", "failed"}
      PROVE  Goal
  <2>1. \A p \in Requesters : pc'[p] = IF p = t THEN to ELSE pc[p]
    BY <1>1, <1>5 DEF Goto
  <2>2. Stored' = Stored
    BY <1>5, <2>1 DEF Stored
  <2>. QED BY <1>4, <1>5, <2>1, <2>2
<1>6. ASSUME UNCHANGED numbers, pc' = pc PROVE Goal
  BY <1>4, <1>6 DEF Stored
<1>7. ASSUME ThreadStep, UNCHANGED data PROVE Goal
  <2>1. UNCHANGED numbers
    BY <1>7 DEF data
  <2>2. \A p \in Requesters : pc'[p] = pc[p] \/ (pc[p] = "open" /\ pc'[p] = "failed")
    BY <1>1, <1>7, ThreadStepFacts DEF IInv, Places, RequesterPlaces
  <2>3. Stored' = Stored
    BY <2>2 DEF Stored
  <2>. QED BY <1>4, <2>1, <2>2, <2>3
<1>8. ASSUME NEW p \in Requesters, LoadNum(p) PROVE Goal
  <2>1. /\ pc[p] = "open" /\ pc' = [pc EXCEPT ![p] = "store"]
        /\ id' = [id EXCEPT ![p] = threadNum + 1] /\ threadNum' = threadNum
    BY <1>8 DEF LoadNum, Step, Goto
  <2>2. Stored' = Stored /\ p \notin Stored
    BY <1>1, <2>1 DEF Stored
  <2>3. n <= N - 1
    BY <1>3, <2>2
  <2>4. threadNum < n
    BY <1>1 DEF Numbering
  <2>5. threadNum + 1 \in 0 .. n /\ threadNum + 1 \in -1 .. N - 1
    BY <1>1, <1>2, <2>3, <2>4
  <2>6. id' \in [Requesters -> -1 .. N - 1] /\ \A q \in Requesters : q # p => id'[q] = id[q]
    BY <1>1, <2>1, <2>5
  <2>7. id'[p] \in 0 .. n /\ \A q \in Requesters : pc'[q] = "store" => q = p \/ pc[q] = "store"
    BY <1>1, <2>1, <2>5
  <2>8. \A q \in Stored' : q \in Stored /\ q # p /\ q \in Requesters
    BY <2>2 DEF Stored
  <2>. QED BY <1>1, <2>1, <2>2, <2>6, <2>7, <2>8 DEF Numbering
<1>9. ASSUME NEW p \in Requesters, StoreNum(p) PROVE Goal
  <2>1. /\ pc[p] = "store" /\ pc' = [pc EXCEPT ![p] = "number"]
        /\ threadNum' = id[p] /\ id' = id
    BY <1>9 DEF StoreNum, Step, Goto
  <2>2. Stored' = Stored \cup {p} /\ p \notin Stored
    BY <1>1, <2>1 DEF Stored
  <2>3. /\ id[p] \in 0 .. n /\ n <= N - 1
        /\ Cardinality(Stored') = n + 1
    BY <1>1, <1>3, <2>1, <2>2 DEF Numbering
  <2>. QED BY <1>1, <1>2, <2>1, <2>2, <2>3 DEF Numbering
<1>10. ASSUME NEW p \in Requesters, ReadNum(p) PROVE Goal
  <2>1. /\ pc[p] = "number" /\ pc' = [pc EXCEPT ![p] = "read"]
        /\ id' = [id EXCEPT ![p] = threadNum] /\ threadNum' = threadNum
    BY <1>10 DEF ReadNum, Step, Goto
  <2>2. Stored' = Stored /\ p \in Stored
    BY <1>1, <2>1 DEF Stored
  <2>3. threadNum \in 0 .. N - 1
    BY <1>1, <2>2 DEF Numbering
  <2>. QED BY <1>1, <1>2, <2>1, <2>2, <2>3 DEF Numbering
<1>. USE DEF Step, Die, data
<1>11. ASSUME NEW p \in Requesters, RequesterStep(p) PROVE Goal
  <2>1. CASE \/ ReadNull(p) \/ ReadLine(p) \/ WaitForRoom(p) \/ Request(p) \/ WaitUntilServed(p)
             \/ NextRequest(p) \/ Leave(p) \/ LastUnlock(p)
    BY <1>5, <2>1 DEF ReadNull, ReadLine, WaitForRoom, Request, WaitUntilServed, NextRequest, Leave,
                      LastUnlock, PCs, RequesterPlaces
  <2>. QED BY <1>8, <1>9, <1>10, <1>11, <2>1 DEF RequesterStep
<1>12. ASSUME ServiceStep PROVE Goal
  <2>1. UNCHANGED numbers /\ \A p \in Requesters : pc'[p] = pc[p]
    BY <1>1, <1>12 DEF ServiceStep, Begin, WaitForRequests, Serve, PopWild, SignalServed,
                       LastRequestServed, ReturnLocked, Goto
  <2>2. Stored' = Stored
    BY <2>1 DEF Stored
  <2>. QED BY <1>4, <2>1, <2>2
<1>. QED BY <1>7, <1>11, <1>12 DEF Moves

LEMMA CountingStep ==
  ASSUME IInv, Moves
  PROVE  Counting' /\ active' \in 0 .. N
<1>. DEFINE Goal == Counting' /\ active' \in 0 .. N
<1>. USE Constants
<1>1. pc \in [Threads -> PCs] /\ active \in 0 .. N /\ Counting
  BY Basics DEF IInv
<1>2. IsFiniteSet(Present)
  BY FS_Subset DEF Present
<1>3. ASSUME active' = active, Present' = Present PROVE Goal
  BY <1>1, <1>3 DEF Counting
<1>4. ASSUME active' = active, NEW t \in Threads, NEW to \in PCs, Goto(t, to),
             pc[t] \in {"last", "end"} <=> to \in {"last", "end"}
      PROVE  Goal
  <2>1. \A p \in Requesters : pc'[p] = IF p = t THEN to ELSE pc[p]
    BY <1>1, <1>4 DEF Goto
  <2>2. Present' = Present
    BY <1>4, <2>1 DEF Present
  <2>. QED BY <1>3, <1>4, <2>2
<1>5. ASSUME ThreadStep, UNCHANGED data PROVE Goal
  <2>1. CASE pc' = pc
    BY <1>3, <1>5, <2>1 DEF Present, data
  <2>. QED BY <1>4, <1>5, <2>1, ThreadStepFacts DEF Goto, PCs, ServicePlaces, RequesterPlaces, data
<1>6. ASSUME NEW p \in Requesters, Leave(p) PROVE Goal
  <2>1. pc[p] = "leave" /\ pc' = [pc EXCEPT ![p] = "last"] /\ active' = active - 1
    BY <1>6 DEF Leave, Step, Goto
  <2>2. p \in Present /\ Present' = Present \ {p}
    BY <1>1, <2>1 DEF Present
  <2>3. Cardinality(Present') = active - 1 /\ IsFiniteSet(Present')
    BY <1>1, <1>2, <2>2, FS_RemoveElement DEF Counting
  <2>4. Cardinality(Present') \in Nat
    BY <2>3, FS_CardinalityType
  <2>. QED BY <1>1, <2>1, <2>3, <2>4 DEF Counting
<1>. USE DEF Step, Die, data
<1>7. ASSUME NEW p \in Requesters, RequesterStep(p) PROVE Goal
  <2>1. CASE \/ LoadNum(p) \/ StoreNum(p) \/ ReadNum(p) \/ ReadNull(p) \/ ReadLine(p)
             \/ WaitForRoom(p) \/ Request(p) \/ WaitUntilServed(p) \/ NextRequest(p) \/ LastUnlock(p)
    BY <1>4, <2>1 DEF LoadNum, StoreNum, ReadNum, ReadNull, ReadLine, WaitForRoom, Request,
                      WaitUntilServed, NextRequest, LastUnlock, PCs, RequesterPlaces
  <2>. QED BY <1>6, <1>7, <2>1 DEF RequesterStep
<1>8. ASSUME ServiceStep PROVE Goal
  <2>1. active' = active /\ \A p \in Requesters : pc'[p] = pc[p]
    BY <1>1, <1>8 DEF ServiceStep, Begin, WaitForRequests, Serve, PopWild, SignalServed,
                      LastRequestServed, ReturnLocked, Goto
  <2>2. Present' = Present
    BY <2>1 DEF Present
  <2>. QED BY <1>3, <2>1, <2>2
<1>. QED BY <1>5, <1>7, <1>8 DEF Moves

(* The proofs about pop are about this list.                               *)
LEMMA PopFacts ==
  ASSUME queue \in Seq(Entry), current.track \in Ints
  PROVE  /\ PopChoices(queue, current.track) \subseteq {0} \cup DOMAIN queue
         /\ \A i \in DOMAIN queue : queue[i] \in Entry
         /\ queue # <<>> /\ (\A j \in DOMAIN queue : Distance(queue[j].track, current.track) < IntMax)
            => /\ 0 \notin PopChoices(queue, current.track)
               /\ \A i \in PopChoices(queue, current.track) : IsNearest(queue, current.track, i)
<1>1. /\ Len(queue) \in Nat /\ DOMAIN queue = 1 .. Len(queue)
      /\ \A i \in DOMAIN queue : queue[i] \in Entry
      /\ Len(queue) = 0 <=> queue = <<>>
  BY LenProperties, ElementOfSeq, EmptySeq
<1>2. Queue!Requests(queue)
  BY <1>1 DEF Queue!Requests, Entry, Queue!Ints, Ints, Queue!IntMin, IntMin
<1>3. \A a, b : Queue!Distance(a, b) = Distance(a, b) /\ Queue!Ints = Ints
  BY DEF Queue!Distance, Distance, Queue!Ints, Ints, Queue!IntMin, IntMin
<1>4. /\ \A i : Queue!IsNearest(queue, current.track, i) <=> IsNearest(queue, current.track, i)
  BY <1>3 DEF Queue!IsNearest, IsNearest
<1>5. Queue!PopChoices(queue, current.track) = PopChoices(queue, current.track)
  BY DEF Queue!PopChoices, PopChoices, Queue!Scan, Scan, Queue!Seek, Seek, Queue!CAbs, CAbs,
         Queue!Wrap, Wrap, Queue!IntMin, IntMin
<1>6. PopChoices(queue, current.track) \subseteq 0 .. Len(queue)
  BY <1>2, <1>3, <1>5, Queue!PopStaysInside, IntMaxAssumption, MaxSizeAssumption
<1>7. ASSUME queue # <<>>, \A j \in DOMAIN queue : Distance(queue[j].track, current.track) < IntMax
      PROVE  /\ 0 \notin PopChoices(queue, current.track)
             /\ \A i \in PopChoices(queue, current.track) : IsNearest(queue, current.track, i)
  BY <1>1, <1>2, <1>3, <1>4, <1>5, <1>7, Queue!PopIsNearest, IntMaxAssumption, MaxSizeAssumption
<1>. QED BY <1>1, <1>6, <1>7

LEMMA TasksStep ==
  ASSUME IInv, Moves
  PROVE  Tasks' /\ executed' \in [Requesters -> BOOLEAN]
<1>. DEFINE Goal == Tasks' /\ executed' \in [Requesters -> BOOLEAN]
            Waits(p) == pc[p] = "await" /\ ~ executed[p]
<1>. USE Constants
<1>1. /\ pc \in [Threads -> PCs] /\ id \in [Requesters -> -1 .. N - 1]
      /\ executed \in [Requesters -> BOOLEAN]
      /\ Tasks /\ Numbering /\ Tracks /\ \A p \in Requesters : pc[p] \in RequesterPlaces
  BY Basics DEF IInv, Places
<1>2. /\ queue \in Seq(Entry) /\ DOMAIN queue = 1 .. Len(queue) /\ Len(queue) \in Nat
      /\ \A i \in DOMAIN queue : /\ queue[i] \in Entry /\ queue[i].requester \in Requesters
                                 /\ queue[i].id = id[queue[i].requester]
      /\ \A i, j \in DOMAIN queue : queue[i].requester = queue[j].requester => i = j
      /\ \A p \in Requesters : Waits(p) <=> \E i \in DOMAIN queue : queue[i].requester = p
  <2>1. /\ queue \in Seq(Entry)
        /\ \A i \in DOMAIN queue : queue[i].id = id[queue[i].requester]
    BY <1>1 DEF Tasks
  <2>2. /\ DOMAIN queue = 1 .. Len(queue) /\ Len(queue) \in Nat
        /\ \A i \in DOMAIN queue : queue[i] \in Entry
    BY <2>1, LenProperties, ElementOfSeq
  <2>3. \A i \in DOMAIN queue : queue[i].requester \in Requesters
    BY <2>2 DEF Entry
  <2>. QED BY <1>1, <2>1, <2>2, <2>3 DEF Tasks, OneOutstanding
<1>3. ASSUME queue' = queue, executed' = executed,
             \A p \in Requesters : /\ pc'[p] = "await" <=> pc[p] = "await"
                                   /\ pc[p] = "await" => id'[p] = id[p]
      PROVE  Goal
  BY <1>1, <1>2, <1>3 DEF Tasks, OneOutstanding
<1>4. ASSUME ThreadStep, UNCHANGED data PROVE Goal
  BY <1>1, <1>3, <1>4, ThreadStepFacts DEF data, numbers
<1>5. ASSUME NEW p \in Requesters, Request(p) PROVE Goal
  <2>1. /\ pc[p] = "room" /\ pc' = [pc EXCEPT ![p] = "await"] /\ id' = id
        /\ executed' = [executed EXCEPT ![p] = FALSE]
        /\ queue' = Append(queue, Task(p))
    BY <1>5 DEF Request, Step, Goto, Appended, numbers
  <2>2. Task(p) \in Entry /\ Task(p).requester = p /\ Task(p).id = id[p]
    <3>1. file[p] \in Seq(Ints) \ {<<>>}
      BY <1>1, <2>1 DEF Tracks
    <3>2. Head(file[p]) \in Ints
      BY <3>1, HeadTailProperties
    <3>3. id[p] \in 0 .. N - 1
      BY <1>1, <2>1 DEF Numbering, Stored
    <3>. QED BY <3>2, <3>3 DEF Task, Entry
  <2>3. /\ queue' \in Seq(Entry) /\ DOMAIN queue' = 1 .. Len(queue) + 1
        /\ \A i \in DOMAIN queue : queue'[i] = queue[i]
        /\ queue'[Len(queue) + 1] = Task(p)
    BY <1>2, <2>1, <2>2, AppendProperties, LenProperties
  <2>4. \A i \in DOMAIN queue : queue[i].requester # p
    BY <1>2, <2>1
  <2>5. executed' \in [Requesters -> BOOLEAN] /\ ~ executed'[p] /\ pc'[p] = "await"
    BY <1>1, <2>1
  <2>6. \A q \in Requesters : q # p => pc'[q] = pc[q] /\ executed'[q] = executed[q]
    BY <1>1, <2>1
  <2>7. DOMAIN queue' = DOMAIN queue \cup {Len(queue) + 1} /\ Len(queue) + 1 \notin DOMAIN queue
    BY <1>2, <2>3
  <2>8. \A i \in DOMAIN queue' : queue'[i].id = id'[queue'[i].requester]
    BY <1>2, <2>1, <2>2, <2>3, <2>7
  <2>9. \A i, j \in DOMAIN queue' : queue'[i].requester = queue'[j].requester => i = j
    BY <1>2, <2>2, <2>3, <2>4, <2>7
  <2>10. \A q \in Requesters :
           (pc'[q] = "await" /\ ~ executed'[q]) <=> \E i \in DOMAIN queue' : queue'[i].requester = q
    BY <1>2, <2>2, <2>3, <2>4, <2>5, <2>6, <2>7
  <2>. QED BY <2>3, <2>5, <2>8, <2>9, <2>10 DEF Tasks, OneOutstanding
<1>6. ASSUME Serve PROVE Goal
  <2>1. PICK i \in PopChoices(queue, current.track) \ {0} :
          /\ queue' = RemoveAt(queue, i) /\ id' = id
          /\ executed' = [executed EXCEPT ![queue[i].requester] = TRUE]
          /\ \A p \in Requesters : pc'[p] = pc[p]
    BY <1>1, <1>6 DEF Serve, Step, Goto, numbers
  <2>2. i \in DOMAIN queue
    BY <1>1, <1>2, <2>1, PopFacts DEF Tracks
  <2>3. queue' \in Seq(Entry) /\ Without(queue', queue, i)
    BY <1>2, <2>1, <2>2, RemoveAtIsWithout
  <2>4. PICK h \in [DOMAIN queue' -> DOMAIN queue] :
             /\ \A k, j \in DOMAIN queue' : h[k] = h[j] => k = j
             /\ \A j \in DOMAIN queue' : queue'[j] = queue[h[j]] /\ h[j] # i
             /\ \A k \in DOMAIN queue \ {i} : \E j \in DOMAIN queue' : h[j] = k
    BY <2>3 DEF Without
  <2>5. executed' \in [Requesters -> BOOLEAN]
    BY <1>1, <1>2, <2>1, <2>2
  <2>6. \A j \in DOMAIN queue' : queue'[j].id = id'[queue'[j].requester]
    BY <1>2, <2>1, <2>4
  <2>7. \A k, j \in DOMAIN queue' : queue'[k].requester = queue'[j].requester => k = j
    BY <1>2, <2>4
  <2>8. ASSUME NEW p \in Requesters
        PROVE  (pc'[p] = "await" /\ ~ executed'[p]) <=> \E j \in DOMAIN queue' : queue'[j].requester = p
    <3>1. CASE p = queue[i].requester
      BY <1>1, <1>2, <2>1, <2>2, <2>4, <3>1
    <3>2. CASE p # queue[i].requester
      <4>1. (pc'[p] = "await" /\ ~ executed'[p]) <=> Waits(p)
        BY <1>1, <2>1, <3>2
      <4>2. (\E j \in DOMAIN queue' : queue'[j].requester = p)
              <=> \E k \in DOMAIN queue : queue[k].requester = p
        BY <2>2, <2>4, <3>2
      <4>. QED BY <1>2, <4>1, <4>2
    <3>. QED BY <3>1, <3>2
  <2>. QED BY <2>3, <2>5, <2>6, <2>7, <2>8 DEF Tasks, OneOutstanding
<1>. USE DEF Step, Die, data, numbers, Goto
<1>7. ASSUME NEW p \in Requesters, RequesterStep(p) PROVE Goal
  <2>1. CASE NextRequest(p)
    <3>1. /\ pc[p] = "await" /\ executed[p] /\ pc' = [pc EXCEPT ![p] = "read"]
          /\ id' = id /\ executed' = executed /\ queue' = queue
      BY <2>1 DEF NextRequest
    <3>. QED BY <1>1, <1>2, <3>1 DEF Tasks, OneOutstanding
  <2>2. CASE WaitUntilServed(p)
    BY <1>1, <1>3, <2>2 DEF WaitUntilServed
  <2>3. CASE LoadNum(p) \/ StoreNum(p) \/ ReadNum(p) \/ ReadNull(p) \/ ReadLine(p)
    BY <1>1, <1>3, <2>3 DEF LoadNum, StoreNum, ReadNum, ReadNull, ReadLine
  <2>4. CASE WaitForRoom(p) \/ Leave(p) \/ LastUnlock(p)
    BY <1>1, <1>3, <2>4 DEF WaitForRoom, Leave, LastUnlock
  <2>. QED BY <1>5, <1>7, <2>1, <2>2, <2>3, <2>4 DEF RequesterStep
<1>8. ASSUME ServiceStep, ~ Serve PROVE Goal
  <2>1. /\ id' = id /\ queue' = queue /\ executed' = executed
        /\ \A p \in Requesters : pc'[p] = pc[p]
    BY <1>1, <1>8 DEF ServiceStep, Begin, WaitForRequests, PopWild, SignalServed,
                      LastRequestServed, ReturnLocked
  <2>. QED BY <1>3, <2>1
<1>. QED BY <1>4, <1>6, <1>7, <1>8 DEF Moves

LEMMA TracksStep ==
  ASSUME IInv, Moves
  PROVE  Tracks'
<1>. DEFINE Fit(x) == x \in 0 .. IntMax - 1
            Sound(f, q, c) ==
              /\ \A p \in Requesters : f[p] # None => \A i \in DOMAIN f[p] : Fit(f[p][i])
              /\ \A i \in DOMAIN q : Fit(q[i].track)
              /\ c.track \in {0} \cup (0 .. IntMax - 1)
            Heads == [track : Ints, id : Conds, requester : Requesters \cup {None}]
<1>. USE Constants
<1>1. /\ pc \in [Threads -> PCs] /\ \A p \in Requesters : pc[p] \in RequesterPlaces
      /\ file \in [Requesters -> Seq(Ints) \cup {None}] /\ current \in Heads
      /\ queue \in Seq(Entry)
      /\ \A p \in Requesters :
           /\ pc[p] = "room" => file[p] \notin {None, <<>>}
           /\ pc[p] \in {"leave", "last", "end"} => file[p] = <<>>
      /\ TracksFit => Sound(file, queue, current)
  BY Basics DEF IInv, Places, Tracks, Tasks
<1>2. /\ DOMAIN queue = 1 .. Len(queue) /\ Len(queue) \in Nat
      /\ \A i \in DOMAIN queue : queue[i] \in Entry
  BY <1>1, LenProperties, ElementOfSeq
<1>3. ASSUME file' \in [Requesters -> Seq(Ints) \cup {None}], current' \in Heads,
             \A p \in Requesters :
                /\ pc'[p] = "room" => file'[p] \notin {None, <<>>}
                /\ pc'[p] \in {"leave", "last", "end"} => file'[p] = <<>>,
             TracksFit => Sound(file', queue', current')
      PROVE  Tracks'
  BY <1>3 DEF Tracks, TracksFit
<1>4. ASSUME UNCHANGED <<file, queue, current>>,
             \A p \in Requesters :
               /\ pc'[p] = "room" => pc[p] = "room"
               /\ pc'[p] \in {"leave", "last", "end"} => pc[p] \in {"leave", "last", "end"}
      PROVE  Tracks'
  BY <1>1, <1>3, <1>4
<1>5. ASSUME ThreadStep, UNCHANGED data PROVE Tracks'
  BY <1>1, <1>4, <1>5, ThreadStepFacts DEF data
<1>6. ASSUME NEW p \in Requesters, ReadLine(p) PROVE Tracks'
  <2>1. /\ UNCHANGED <<file, queue, current>> /\ file[p] # None
        /\ pc' = [pc EXCEPT ![p] = IF file[p] = <<>> THEN "leave" ELSE "room"]
    BY <1>6 DEF ReadLine, Step, Goto, data
  <2>. QED BY <1>1, <1>3, <2>1
<1>7. ASSUME NEW p \in Requesters, Request(p) PROVE Tracks'
  <2>1. /\ pc[p] = "room" /\ pc' = [pc EXCEPT ![p] = "await"]
        /\ file' = [file EXCEPT ![p] = Tail(@)] /\ current' = current
        /\ queue' = Append(queue, Task(p))
    BY <1>7 DEF Request, Step, Goto, Appended
  <2>2. file[p] \in Seq(Ints) /\ file[p] # <<>>
    BY <1>1, <2>1
  <2>3. /\ Tail(file[p]) \in Seq(Ints) /\ Head(file[p]) = file[p][1] /\ 1 \in DOMAIN file[p]
        /\ Head(file[p]) \in Ints
        /\ \A i \in DOMAIN Tail(file[p]) :
             i + 1 \in DOMAIN file[p] /\ Tail(file[p])[i] = file[p][i + 1]
    BY <2>2, HeadTailProperties, LenProperties, EmptySeq
  <2>4. /\ DOMAIN queue' = DOMAIN queue \cup {Len(queue) + 1}
        /\ \A i \in DOMAIN queue : queue'[i] = queue[i]
        /\ queue'[Len(queue) + 1] = Task(p)
    <3>1. id[p] \in 0 .. N - 1
      BY <1>1, <2>1 DEF IInv, Numbering, Stored
    <3>2. Task(p) \in Entry
      BY <2>3, <3>1 DEF Task, Entry
    <3>. QED BY <1>1, <1>2, <2>1, <3>2, AppendProperties, LenProperties
  <2>5. file' \in [Requesters -> Seq(Ints) \cup {None}]
    BY <1>1, <2>1, <2>3
  <2>6. ASSUME TracksFit PROVE Sound(file', queue', current')
    <3>1. \A q \in Requesters : file'[q] = IF q = p THEN Tail(file[p]) ELSE file[q]
      BY <1>1, <2>1
    <3>2. \A q \in Requesters : file'[q] # None => \A i \in DOMAIN file'[q] : Fit(file'[q][i])
      <4>. SUFFICES ASSUME NEW q \in Requesters, file'[q] # None, NEW i \in DOMAIN file'[q]
                    PROVE  Fit(file'[q][i])
        OBVIOUS
      <4>1. CASE q = p
        <5>1. file[p] # None /\ i + 1 \in DOMAIN file[p] /\ file'[q][i] = file[p][i + 1]
          BY <1>1, <2>1, <2>3, <3>1, <4>1
        <5>. QED BY <1>1, <2>6, <5>1
      <4>2. CASE q # p
        BY <1>1, <2>6, <3>1, <4>2
      <4>. QED BY <4>1, <4>2
    <3>3. Fit(Task(p).track)
      <4>1. Task(p).track = file[p][1] /\ file[p] # None
        BY <1>1, <2>1, <2>3 DEF Task
      <4>. QED BY <1>1, <2>3, <2>6, <4>1
    <3>4. \A i \in DOMAIN queue' : Fit(queue'[i].track)
      BY <1>1, <2>4, <2>6, <3>3
    <3>. QED BY <1>1, <2>1, <2>6, <3>2, <3>4
  <2>7. \A q \in Requesters :
           /\ pc'[q] = "room" => file'[q] \notin {None, <<>>}
           /\ pc'[q] \in {"leave", "last", "end"} => file'[q] = <<>>
    BY <1>1, <2>1
  <2>. QED BY <1>1, <1>3, <2>1, <2>5, <2>6, <2>7
<1>8. ASSUME Serve PROVE Tracks'
  <2>1. PICK i \in PopChoices(queue, current.track) \ {0} :
          /\ queue' = RemoveAt(queue, i) /\ file' = file
          /\ current' = queue[i]
          /\ \A p \in Requesters : pc'[p] = pc[p]
    BY <1>1, <1>8 DEF Serve, Step, Goto
  <2>2. i \in DOMAIN queue
    BY <1>1, <2>1, PopFacts
  <2>3. queue[i] \in Heads
    BY <1>2, <2>2 DEF Entry
  <2>4. \A j \in DOMAIN queue' : \E k \in DOMAIN queue : queue'[j] = queue[k]
    BY <1>1, <2>1, <2>2, RemoveAtIsWithout DEF Without
  <2>5. TracksFit => Sound(file', queue', current')
    BY <1>1, <2>1, <2>2, <2>4
  <2>. QED BY <1>1, <1>3, <2>1, <2>3, <2>5
<1>9. ASSUME PopWild PROVE Tracks'
  <2>1. /\ UNCHANGED <<file, queue>> /\ \A p \in Requesters : pc'[p] = pc[p]
        /\ current' \in Heads /\ (current' = current \/ current'.track = 0)
    BY <1>1, <1>9, IntMaxAssumption DEF PopWild, Step, Die, Goto, data, Ints, IntMin
  <2>. QED BY <1>1, <1>3, <2>1
<1>. USE DEF Step, Die, data, Goto
<1>10. ASSUME NEW p \in Requesters, RequesterStep(p) PROVE Tracks'
  <2>1. CASE LoadNum(p) \/ StoreNum(p) \/ ReadNum(p) \/ ReadNull(p)
    BY <1>1, <1>4, <2>1 DEF LoadNum, StoreNum, ReadNum, ReadNull
  <2>2. CASE WaitForRoom(p) \/ WaitUntilServed(p) \/ NextRequest(p) \/ Leave(p) \/ LastUnlock(p)
    BY <1>1, <1>4, <2>2 DEF WaitForRoom, WaitUntilServed, NextRequest, Leave, LastUnlock
  <2>. QED BY <1>6, <1>7, <1>10, <2>1, <2>2 DEF RequesterStep
<1>11. ASSUME ServiceStep, ~ Serve, ~ PopWild PROVE Tracks'
  <2>1. UNCHANGED <<file, queue, current>> /\ \A p \in Requesters : pc'[p] = pc[p]
    BY <1>1, <1>11 DEF ServiceStep, Begin, WaitForRequests, SignalServed,
                       LastRequestServed, ReturnLocked
  <2>. QED BY <1>4, <2>1
<1>. QED BY <1>5, <1>8, <1>9, <1>10, <1>11 DEF Moves

(* When pop is called the list is not empty, so it finds a request, and    *)
(* that is one of the nearest.                                             *)
LEMMA PopSucceeds ==
  ASSUME IInv, MaxSize > 0, TracksFit, InLoop, ~ TooFew, active # 0
  PROVE  /\ Len(queue) >= MaxSize \/ Len(queue) >= active
         /\ 0 \notin PopChoices(queue, current.track)
         /\ \A i \in PopChoices(queue, current.track) : IsNearest(queue, current.track, i)
<1>. USE Constants
<1>1. /\ queue \in Seq(Entry) /\ current.track \in Ints /\ active \in 0 .. N
      /\ \A i \in DOMAIN queue : queue[i].track \in 0 .. IntMax - 1
      /\ current.track \in {0} \cup (0 .. IntMax - 1)
  BY Basics DEF IInv, Tasks, Tracks
<1>2. Branch \in {"full", "all"}
  BY DEF Branch, InLoop
<1>3. /\ Len(queue) > 0 /\ Len(queue) \in Nat /\ DOMAIN queue = 1 .. Len(queue) /\ queue # <<>>
      /\ Len(queue) >= MaxSize \/ Len(queue) >= active
  BY <1>1, <1>2, LenProperties, EmptySeq DEF TooFew
<1>4. IntMax > 0
  BY <1>1, <1>3
<1>5. \A j \in DOMAIN queue : Distance(queue[j].track, current.track) < IntMax
  BY <1>1, <1>4 DEF Distance
<1>. QED BY <1>1, <1>3, <1>5, PopFacts

LEMMA PopsARequestStep ==
  ASSUME IInv, Moves
  PROVE  PopsARequest'
<1>. SUFFICES ASSUME MaxSize > 0, TracksFit
              PROVE  /\ pc'[Service] # "died"
                     /\ pc'[Service] = "signal" => current'.requester # None
  BY DEF PopsARequest, TracksFit
<1>. USE Constants
<1>1. /\ pc \in [Threads -> PCs] /\ pc[Service] # "died"
      /\ pc[Service] = "signal" => current.requester # None
      /\ queue \in Seq(Entry) /\ current.track \in Ints /\ active \in 0 .. N
      /\ \A i \in DOMAIN queue : queue[i].track \in 0 .. IntMax - 1
      /\ current.track \in {0} \cup (0 .. IntMax - 1)
  BY Basics DEF IInv, PopsARequest, Tasks, Tracks
<1>2. ~ PopWild
  BY PopSucceeds DEF PopWild
<1>3. CASE Serve
  <2>1. PICK i \in PopChoices(queue, current.track) \ {0} : current' = queue[i]
    BY <1>3 DEF Serve
  <2>2. i \in DOMAIN queue /\ queue[i] \in Entry
    BY <1>1, <2>1, PopFacts
  <2>3. current'.requester # None
    BY <2>1, <2>2 DEF Entry
  <2>. QED BY <1>1, <1>3, <2>3 DEF Serve, Step, Goto
<1>4. CASE ServiceStep /\ ~ Serve
  <2>1. current' = current /\ (pc'[Service] = pc[Service] \/ pc'[Service] \in {"loop", "end", "full", "all"})
    <3>1. InLoop => Branch \in {"full", "all"}
      BY DEF Branch, InLoop
    <3>. QED
      BY <1>1, <1>2, <1>4, <3>1 DEF ServiceStep, Begin, WaitForRequests, SignalServed, LastRequestServed,
                                ReturnLocked, Step, Goto, data
  <2>. QED BY <1>1, <2>1
<1>5. CASE ThreadStep /\ UNCHANGED data
  BY <1>1, <1>5, ThreadStepFacts DEF data
<1>6. ASSUME NEW p \in Requesters, RequesterStep(p)
      PROVE  current' = current /\ pc'[Service] = pc[Service]
  <2>. USE <1>1 DEF Step, Goto, data, Die
  <2>1. CASE LoadNum(p) \/ StoreNum(p) \/ ReadNum(p) \/ ReadNull(p) \/ ReadLine(p) \/ Request(p)
    BY <2>1 DEF LoadNum, StoreNum, ReadNum, ReadNull, ReadLine, Request
  <2>2. CASE WaitForRoom(p) \/ WaitUntilServed(p) \/ NextRequest(p) \/ Leave(p) \/ LastUnlock(p)
    BY <2>2 DEF WaitForRoom, WaitUntilServed, NextRequest, Leave, LastUnlock
  <2>. QED BY <1>6, <2>1, <2>2 DEF RequesterStep
<1>. QED BY <1>1, <1>3, <1>4, <1>5, <1>6 DEF Moves

-----------------------------------------------------------------------------
(* Who sleeps, and who wakes whom.                                         *)

(* A thread is moved by nobody but itself, or was never created.           *)
LEMMA OthersStay ==
  ASSUME IInv, Moves, NEW u \in Threads, u # running \/ Lib!At(u) # "user"
  PROVE  /\ u # running /\ Lib!At(u) # "none" => frame'[u] = frame[u]
         /\ pc'[u] = pc[u] \/ (Lib!At(u) = "none" /\ pc'[u] = "failed")
         /\ u \in Requesters => id'[u] = id[u]
<1>. DEFINE Goal == /\ pc'[u] = pc[u] \/ (Lib!At(u) = "none" /\ pc'[u] = "failed")
                    /\ u \in Requesters => id'[u] = id[u]
<1>. USE Constants
<1>1. pc \in [Threads -> PCs] /\ id \in [Requesters -> -1 .. N - 1]
  BY Basics DEF IInv
<1>2. u # running /\ Lib!At(u) # "none" => frame'[u] = frame[u]
  <2>1. CASE mode # "exited" /\ (Lib!Next \/ UNCHANGED libVars)
    BY <2>1, FrameFacts DEF IInv, Library
  <2>2. CASE \E t : Die(t)
    BY <2>2 DEF Die
  <2>. QED BY <2>1, <2>2, LibraryMoves
<1>. USE DEF Step, Goto, Call, Lib!Enter, Die, data, numbers
<1>3. ASSUME NEW p \in Requesters, RequesterStep(p) PROVE Goal
  <2>1. CASE LoadNum(p) \/ StoreNum(p) \/ ReadNum(p) \/ ReadNull(p) \/ ReadLine(p) \/ Request(p)
    BY <1>1, <2>1 DEF LoadNum, StoreNum, ReadNum, ReadNull, ReadLine, Request
  <2>2. CASE WaitForRoom(p) \/ WaitUntilServed(p) \/ NextRequest(p) \/ Leave(p) \/ LastUnlock(p)
    BY <1>1, <2>2 DEF WaitForRoom, WaitUntilServed, NextRequest, Leave, LastUnlock
  <2>. QED BY <1>3, <2>1, <2>2 DEF RequesterStep
<1>4. ASSUME ServiceStep PROVE Goal
  BY <1>1, <1>4 DEF ServiceStep, Begin, WaitForRequests, Serve, PopWild, SignalServed,
                    LastRequestServed, ReturnLocked
<1>5. ASSUME ThreadStep, UNCHANGED data PROVE Goal
  BY <1>1, <1>5, ThreadStepFacts
<1>. QED BY <1>2, <1>3, <1>4, <1>5 DEF Moves

(* A number is for ever.                                                   *)
LEMMA NumbersStay ==
  ASSUME IInv, Moves
  PROVE  /\ \A p \in Requesters : Numbered(p) => Numbered(p)' /\ id'[p] = id[p]
         /\ Sharing => Sharing'
<1>. USE Constants
<1>1. pc \in [Threads -> PCs] /\ id \in [Requesters -> -1 .. N - 1]
  BY Basics DEF IInv
<1>. USE DEF Step, Goto, Die, data, numbers, Numbered
<1>2. ASSUME NEW q \in Requesters, Numbered(q) PROVE Numbered(q)' /\ id'[q] = id[q]
  <2>1. ASSUME NEW p \in Requesters, RequesterStep(p)
        PROVE  Numbered(q)' /\ id'[q] = id[q]
    <3>1. CASE LoadNum(p) \/ StoreNum(p) \/ ReadNum(p) \/ ReadNull(p) \/ ReadLine(p) \/ Request(p)
      BY <1>1, <1>2, <3>1 DEF LoadNum, StoreNum, ReadNum, ReadNull, ReadLine, Request
    <3>2. CASE WaitForRoom(p) \/ WaitUntilServed(p) \/ NextRequest(p) \/ Leave(p) \/ LastUnlock(p)
      BY <1>1, <1>2, <3>2 DEF WaitForRoom, WaitUntilServed, NextRequest, Leave, LastUnlock
    <3>. QED BY <2>1, <3>1, <3>2 DEF RequesterStep
  <2>2. CASE ServiceStep
    BY <1>1, <1>2, <2>2 DEF ServiceStep, Begin, WaitForRequests, Serve, PopWild, SignalServed,
                      LastRequestServed, ReturnLocked
  <2>3. CASE ThreadStep /\ UNCHANGED data
    BY <1>1, <1>2, <2>3, ThreadStepFacts DEF IInv, Places, RequesterPlaces
  <2>. QED BY <2>1, <2>2, <2>3 DEF Moves
<1>. QED BY <1>2 DEF Sharing

(* A thread ends only by returning.                                        *)
LEMMA EndsByReturning ==
  ASSUME IInv, Moves, NEW u \in Threads, frame'[u].at = "done", Lib!At(u) # "done"
  PROVE  /\ u = running /\ Lib!Exit
         /\ \/ (BootReturns \/ Return(u)) /\ UNCHANGED data
            \/ ReturnLocked
<1>. USE Constants DEF Lib!At, Lib!Frame
<1>1. frame \in [Threads -> Lib!Frames] /\ frame'[u] # frame[u]
  BY Basics DEF IInv
<1>2. ~ \E t : Die(t)
  BY <1>1 DEF Die
<1>3. u = running
  BY <1>1, OthersStay, LibraryMoves, <1>2, FrameFacts DEF IInv, Library
<1>4. LibInv
  BY <1>2, LibraryMoves DEF IInv, Library
<1>5. CASE ThreadStep /\ UNCHANGED data
  <2>1. CASE Main \/ Preempt
    BY <1>1, <1>3, <2>1 DEF Main, Libinit, LibinitFails, MainReturns, Preempt, Lib!Libinit,
       Lib!LibinitFails, Lib!MainReturns, Lib!Yield
  <2>2. CASE CreateNext \/ CreateFails
    BY <1>1, <1>3, <2>2 DEF CreateNext, CreateFails, Lib!Create, libVars
  <2>3. CASE Finish
    BY <1>1, <1>3, <1>4, <2>3, ResumeFacts DEF Finish
  <2>4. CASE BootReturns \/ \E t \in Threads : Return(t)
    BY <1>3, <1>5, <2>4 DEF BootReturns, Return, Call
  <2>. QED BY <1>5, <2>1, <2>2, <2>3, <2>4 DEF ThreadStep, Create
<1>6. ASSUME NEW t, Call(t), NEW c,
             \/ Lib!Lock(1) \/ Lib!Unlock(1) \/ Lib!Wait(1, c)
             \/ SignalCall(c) \/ BroadcastCall(c) \/ UNCHANGED libVars
      PROVE  FALSE
  <2>1. Calling(t, PCs) /\ t = running
    BY <1>6, CallerFacts
  <2>2. CASE UNCHANGED libVars
    BY <1>1, <2>2 DEF libVars
  <2>3. CASE Lib!Lock(1) \/ Lib!Unlock(1) \/ Lib!Wait(1, c)
    BY <1>1, <1>3, <2>1, <2>3, CallEffects
  <2>4. CASE SignalCall(c) \/ BroadcastCall(c)
    BY <1>1, <1>3, <2>1, <2>4, CallEffects
  <2>. QED BY <1>6, <2>2, <2>3, <2>4
<1>7. ASSUME NEW p \in Requesters, RequesterStep(p) PROVE FALSE
  <2>. USE DEF Step
  <2>1. CASE LoadNum(p) \/ StoreNum(p) \/ ReadNum(p) \/ ReadNull(p) \/ ReadLine(p) \/ Request(p)
    BY <1>2, <1>6, <2>1 DEF LoadNum, StoreNum, ReadNum, ReadNull, ReadLine, Request
  <2>2. CASE WaitForRoom(p) \/ WaitUntilServed(p) \/ NextRequest(p) \/ Leave(p) \/ LastUnlock(p)
    BY <1>6, <2>2 DEF WaitForRoom, WaitUntilServed, NextRequest, Leave, LastUnlock
  <2>. QED BY <1>7, <2>1, <2>2 DEF RequesterStep
<1>8. CASE ServiceStep
  <2>1. CASE ReturnLocked
    BY <1>3, <2>1 DEF ReturnLocked
  <2>2. ~ (Begin \/ WaitForRequests \/ Serve \/ PopWild \/ SignalServed \/ LastRequestServed)
    BY <1>2, <1>6 DEF Begin, WaitForRequests, Serve, PopWild, SignalServed, LastRequestServed, Step
  <2>. QED BY <1>8, <2>1, <2>2 DEF ServiceStep
<1>. QED BY <1>5, <1>7, <1>8 DEF Moves

LEMMA LivesStep ==
  ASSUME IInv, Moves
  PROVE  Lives'
<1>. USE Constants
<1>1. /\ pc \in [Threads -> PCs] /\ Lives /\ Places /\ Lib!TypeOK
  BY Basics DEF IInv, TypeOK
<1>2. mode' = "main" => running' = None
  <2>1. CASE LibInv /\ (Lib!Next \/ UNCHANGED libVars)
    BY <1>1, <2>1, ModeFacts DEF Lives
  <2>. QED BY <2>1, LibraryMoves DEF IInv, Library, Die
<1>3. ASSUME mode' = "threads" PROVE frame'[Boot].at # "none"
  <2>1. LibInv /\ (Lib!Next \/ UNCHANGED libVars)
    BY <1>3, LibraryMoves DEF IInv, Library, Die
  <2>2. CASE mode = "threads"
    BY <1>1, <2>1, <2>2, FrameFacts DEF Lives
  <2>3. CASE Libinit
    BY <1>1, <2>3 DEF Libinit, Lib!Libinit, Lib!TypeOK, Lib!Frame
  <2>4. CASE mode # "threads" /\ ~ Libinit
    <3>1. ~ \E t : Call(t)
      BY <2>4 DEF Call, Lib!Enter
    <3>2. ~ Finish /\ ~ Preempt
      BY <2>1, <2>4, ResumeFacts DEF Finish, Preempt, Lib!Yield, Lib!Enter
    <3>3. ~ (\E p \in Requesters : RequesterStep(p)) /\ ~ ServiceStep
      BY <3>1 DEF RequesterStep, LoadNum, StoreNum, ReadNum, ReadNull, ReadLine, WaitForRoom, Request,
         WaitUntilServed, NextRequest, Leave, LastUnlock, ServiceStep, Begin, WaitForRequests, Serve,
         PopWild, SignalServed, LastRequestServed, ReturnLocked, Step, Die
    <3>4. LibinitFails \/ MainReturns
      BY <2>4, <3>1, <3>2, <3>3 DEF Moves, ThreadStep, Main, Create, CreateNext, CreateFails,
         BootReturns, Return
    <3>. QED BY <1>3, <2>4, <3>4 DEF LibinitFails, MainReturns, Lib!LibinitFails, Lib!MainReturns
  <2>. QED BY <2>2, <2>3, <2>4
<1>4. \A u \in Threads : frame'[u].at = "none" => Lib!At(u) = "none"
  <2>1. CASE LibInv /\ (Lib!Next \/ UNCHANGED libVars)
    BY <2>1, FrameFacts
  <2>. QED BY <2>1, LibraryMoves DEF IInv, Library, Die, Lib!At
<1>5. ASSUME frame'[Boot].at = "done" PROVE Uncreated' = {}
  <2>1. Uncreated = {}
    <3>1. CASE Lib!At(Boot) # "done"
      <4>1. Boot = running /\ (BootReturns \/ Return(Boot) \/ ReturnLocked)
        BY <1>5, <3>1, EndsByReturning
      <4>. QED BY <1>1, <4>1 DEF BootReturns, Return, ReturnLocked, Call, Places
    <3>. QED BY <1>1, <3>1 DEF Lives
  <2>2. ASSUME NEW u \in Threads, frame'[u].at = "none" PROVE pc'[u] = "failed"
    <3>1. Lib!At(u) = "none" /\ pc[u] = "failed"
      BY <1>4, <2>1, <2>2 DEF Uncreated
    <3>. QED BY <3>1, OthersStay
  <2>. QED BY <2>2 DEF Uncreated, Lib!At
<1>6. ASSUME NEW p \in Requesters, frame'[p].at = "done" PROVE pc'[p] = "end"
  <2>1. CASE Lib!At(p) = "done"
    BY <1>1, <2>1, OthersStay DEF Lives
  <2>2. CASE Lib!At(p) # "done"
    <3>1. p = running /\ (BootReturns \/ Return(p) \/ ReturnLocked)
      BY <1>6, <2>2, EndsByReturning
    <3>. QED BY <3>1 DEF BootReturns, Return, ReturnLocked, Call
  <2>. QED BY <2>1, <2>2
<1>. QED BY <1>2, <1>3, <1>5, <1>6 DEF Lives, Lib!At

(* While the service thread has a request to signal, no requester is in a  *)
(* critical section.                                                       *)
LEMMA SignalAlone ==
  ASSUME IInv, NEW p \in Requesters, Call(p), pc[p] \in {"room", "await", "leave"}
  PROVE  pc[Service] # "signal"
<1>. USE Constants
<1>1. /\ pc[Service] \in Locked => Lib!At(Service) \in {"lock", "wait", "relock", "done"}
      /\ mode = "threads"
  BY CallerFacts DEF Locked
<1>2. Lib!At(Service) # "done"
  BY DEF IInv, ServiceOutlivesRequesters
<1>. QED BY <1>1, <1>2 DEF IInv, Sections, Locked, Blocks

(* What a move does to those that wait on a condition, and to those that   *)
(* wake them.                                                              *)
Quiet ==
  /\ UNCHANGED <<cv, queue, active, executed, current>>
  /\ \A t \in Threads :
       /\ frame'[t].at = "broadcast" <=> Lib!At(t) = "broadcast"
       /\ Lib!At(t) = "broadcast" => frame'[t] = frame[t]
  /\ pc'[Service] = "signal" <=> pc[Service] = "signal"
  /\ pc'[Service] = "all" => pc[Service] = "all"
  /\ \A p \in Requesters : pc'[p] = "await" => pc[p] = "await"

Waking ==
  /\ running \in Threads /\ Lib!At(running) = "broadcast" /\ UNCHANGED <<pc, data>>
  /\ \/ frame' = frame /\ Leaves(1)
     \/ /\ cv' = cv /\ Nobody(1) /\ frame'[running].at = "user"
        /\ \A t \in Threads \ {running} : frame'[t] = frame[t]

Waiting(t, c) ==
  /\ UNCHANGED data
  /\ \/ UNCHANGED <<cv, frame>>
     \/ Joins(t, c) /\ frame' = [frame EXCEPT ![t] = Lib!Frame("wait", 1, None)]

Telling(t) ==
  /\ cv' = cv
  /\ \/ frame' = frame /\ Nobody(1)
     \/ frame' = [frame EXCEPT ![t] = Lib!Frame("broadcast", 1, 1)]

Kinds ==
  \/ Quiet \/ Waking
  \/ \E p \in Requesters :
       \/ WaitForRoom(p) /\ Waiting(p, 1)
       \/ WaitUntilServed(p) /\ Waiting(p, id[p])
       \/ (Request(p) \/ Leave(p)) /\ Telling(p)
  \/ WaitForRequests /\ Waiting(Service, 1)
  \/ (Serve \/ PopWild) /\ Step(Service, pc[Service], "signal") /\ Telling(Service)
  \/ SignalServed /\ frame' = frame /\ ((cv' = cv /\ Nobody(current.id)) \/ Leaves(current.id))

LEMMA MovesAreOfAKind ==
  ASSUME IInv, Moves
  PROVE  Kinds
<1>. USE Constants
<1>1. /\ pc \in [Threads -> PCs] /\ frame \in [Threads -> Lib!Frames]
      /\ Places /\ Conditions
  BY Basics DEF IInv
<1>2. ASSUME NEW t, Call(t)
      PROVE  /\ Calling(t, PCs) /\ t \in Threads /\ Lib!At(t) = "user"
             /\ \A u \in Threads : Lib!At(u) # "broadcast"
  BY <1>2, CallerFacts
<1>3. ASSUME NEW t, NEW to, Call(t), Goto(t, to), to \notin {"signal", "all", "await"},
             t = Service => pc[t] # "signal",
             UNCHANGED <<queue, active, executed, current>>,
             Lib!Lock(1) \/ Lib!Unlock(1) \/ UNCHANGED libVars
      PROVE  Quiet
  <2>1. CASE UNCHANGED libVars
    BY <1>1, <1>2, <1>3, <2>1 DEF libVars, Quiet, Goto, Lib!At
  <2>2. CASE Lib!Lock(1) \/ Lib!Unlock(1)
    <3>1. /\ cv' = cv /\ \A u \in Threads \ {t} : frame'[u] = frame[u]
          /\ frame'[t].at # "broadcast"
      BY <1>2, <1>3, <2>2, CallEffects
    <3>. QED BY <1>1, <1>2, <1>3, <3>1 DEF Quiet, Goto, Lib!At
  <2>. QED BY <1>3, <2>1, <2>2
<1>4. ASSUME NEW t, Die(t), UNCHANGED data, t = Service => pc[t] # "signal" PROVE Quiet
  BY <1>1, <1>2, <1>4 DEF Quiet, Die, Goto, data, Lib!At
<1>5. ASSUME Lib!Exit, pc' = pc, UNCHANGED data, NEW t, Call(t) PROVE Quiet
  <2>1. t = running
    BY <1>5 DEF Call
  <2>. QED BY <1>1, <1>2, <1>5, <2>1 DEF Quiet, Lib!Exit, Lib!Frame, Lib!At, data
<1>6. ASSUME NEW t, NEW c, Lib!Wait(1, c), Call(t), UNCHANGED data PROVE Waiting(t, c)
  BY <1>2, <1>6, CallEffects DEF Waiting
<1>7. ASSUME NEW t, BroadcastCall(1), Call(t) PROVE Telling(t)
  BY <1>2, <1>7, CallEffects DEF Telling
<1>8. ASSUME ThreadStep, UNCHANGED data PROVE Quiet \/ Waking
  <2>1. UNCHANGED <<queue, active, executed, current>>
    BY <1>8 DEF data
  <2>2. LibInv /\ mode # "exited"
    BY <1>8, MovesAlive
  <2>3. \/ pc' = pc
        \/ \E t \in Threads : pc[t] \in {"open", "begin"} /\ pc' = [pc EXCEPT ![t] = "failed"]
    BY <1>8, ThreadStepFacts
  <2>4. /\ pc'[Service] = "signal" <=> pc[Service] = "signal"
        /\ pc'[Service] = "all" => pc[Service] = "all"
        /\ \A p \in Requesters : pc'[p] = "await" => pc[p] = "await"
    BY <1>1, <2>3
  <2>5. CASE Main \/ Preempt
    <3>1. cv' = cv
      BY <2>5 DEF Main, Libinit, LibinitFails, MainReturns, Preempt, Lib!Libinit,
         Lib!LibinitFails, Lib!MainReturns, Lib!Yield
    <3>2. mode = "main" => \A t \in Threads : Lib!At(t) = "none"
      BY <2>2, LibFacts
    <3>3. \A t \in Threads :
            /\ frame'[t].at = "broadcast" <=> Lib!At(t) = "broadcast"
            /\ Lib!At(t) = "broadcast" => frame'[t] = frame[t]
      BY <1>1, <2>5, <3>2 DEF Main, Libinit, LibinitFails, MainReturns, Preempt, Lib!Libinit,
         Lib!LibinitFails, Lib!MainReturns, Lib!Yield, Lib!Frame, Lib!At, Lib!Enter
    <3>. QED BY <2>1, <2>4, <3>1, <3>3 DEF Quiet
  <2>6. CASE CreateNext
    BY <1>1, <2>1, <2>4, <2>6 DEF CreateNext, Lib!Create, Lib!Frame, Lib!At, Quiet
  <2>7. CASE CreateFails
    BY <1>1, <2>1, <2>4, <2>7 DEF CreateFails, libVars, Lib!At, Quiet
  <2>8. CASE BootReturns \/ \E t \in Threads : Return(t)
    BY <1>5, <1>8, <2>8 DEF BootReturns, Return
  <2>9. CASE Finish
    <3>1. Lib!Resume /\ pc' = pc /\ running \in Threads
      BY <2>2, <2>9, ResumeFacts DEF Finish
    <3>2. \A u \in Threads \ {running} : frame'[u] = frame[u]
      BY <2>2, <3>1, ResumeFacts
    <3>3. CASE /\ cv' = cv /\ Lib!At(running) # "broadcast"
               /\ frame'[running].at # "broadcast"
      BY <2>1, <2>4, <3>2, <3>3 DEF Quiet, Lib!At
    <3>4. CASE Lib!At(running) = "broadcast"
      <4>1. frame[running].cond = 1
        BY <1>1, <3>1, <3>4 DEF Conditions
      <4>. QED BY <1>8, <2>2, <3>1, <3>2, <3>4, <4>1, ResumeEffects DEF Waking
    <3>. QED BY <2>2, <3>1, <3>3, <3>4, ResumeEffects
  <2>. QED BY <1>8, <2>5, <2>6, <2>7, <2>8, <2>9 DEF ThreadStep, Create
<1>. USE DEF Step
<1>9. ASSUME NEW p \in Requesters, RequesterStep(p) PROVE Kinds
  <2>1. CASE LoadNum(p) \/ StoreNum(p) \/ ReadNum(p)
    BY <1>3, <2>1 DEF LoadNum, StoreNum, ReadNum, Kinds
  <2>2. CASE ReadNull(p)
    BY <1>4, <2>2 DEF ReadNull, Kinds
  <2>3. CASE ReadLine(p) \/ NextRequest(p) \/ LastUnlock(p)
    BY <1>3, <2>3 DEF ReadLine, NextRequest, LastUnlock, Kinds, data
  <2>4. CASE WaitForRoom(p)
    BY <1>6, <2>4 DEF WaitForRoom, Kinds
  <2>5. CASE WaitUntilServed(p)
    BY <1>6, <2>5 DEF WaitUntilServed, Kinds
  <2>6. CASE Request(p) \/ Leave(p)
    BY <1>7, <2>6 DEF Request, Leave, Kinds
  <2>. QED BY <1>9, <2>1, <2>2, <2>3, <2>4, <2>5, <2>6 DEF RequesterStep
<1>10. ASSUME ServiceStep PROVE Kinds
  <2>1. CASE Begin \/ LastRequestServed
    BY <1>3, <2>1 DEF Begin, LastRequestServed, Kinds, data
  <2>2. CASE WaitForRequests
    BY <1>6, <2>2 DEF WaitForRequests, Kinds
  <2>3. CASE Serve
    BY <1>7, <2>3 DEF Serve, Kinds
  <2>4. CASE PopWild
    BY <1>4, <1>7, <2>4 DEF PopWild, Kinds, InLoop
  <2>5. CASE SignalServed
    BY <1>2, <2>5, CallEffects DEF SignalServed, Kinds
  <2>6. CASE ReturnLocked
    BY <1>5, <2>6 DEF ReturnLocked, Kinds
  <2>. QED BY <1>10, <2>1, <2>2, <2>3, <2>4, <2>5, <2>6 DEF ServiceStep
<1>. QED BY <1>8, <1>9, <1>10 DEF Moves, Kinds

(* Who sleeps stays where it is.                                           *)
LEMMA SleepersStay ==
  ASSUME IInv, Moves, mode # "exited", NEW i \in DOMAIN cv
  PROVE  /\ cv[i].ct \in Threads /\ cv[i].cond \in Conds /\ cv[i].ct # running
         /\ pc'[cv[i].ct] = pc[cv[i].ct]
         /\ cv[i].ct \in Requesters => id'[cv[i].ct] = id[cv[i].ct]
<1>1. LibInv
  BY DEF IInv, Library
<1>2. /\ cv[i].ct \in Threads /\ cv[i].cond \in Conds /\ cv[i].ct # running
      /\ Lib!At(cv[i].ct) = "wait"
  BY <1>1, Sleepers
<1>. QED BY <1>2, OthersStay

LEMMA MovesStart == ASSUME IInv, Moves PROVE mode # "exited" /\ LibInv
<1>1. CASE ThreadStep
  BY <1>1, MovesAlive
<1>2. ASSUME NEW p \in Requesters, RequesterStep(p) PROVE Call(p)
  BY <1>2 DEF RequesterStep, LoadNum, StoreNum, ReadNum, ReadNull, ReadLine, WaitForRoom, Request,
         WaitUntilServed, NextRequest, Leave, LastUnlock, Step, Die
<1>3. ASSUME ServiceStep PROVE Call(Service)
  BY <1>3 DEF ServiceStep, Begin, WaitForRequests, Serve,
         PopWild, SignalServed, LastRequestServed, ReturnLocked, Step, Die
<1>. QED BY <1>1, <1>2, <1>3, MovesAlive DEF Moves

(* What a thread sleeps on.                                                *)
SleepsWell(i) ==
  \/ cv[i].cond = 1 /\ pc[cv[i].ct] \in {"room", "full", "all"}
  \/ cv[i].ct \in Requesters /\ pc[cv[i].ct] = "await" /\ cv[i].cond = id[cv[i].ct]

LEMMA ConditionsStep ==
  ASSUME IInv, Moves
  PROVE  Conditions'
<1>. DEFINE Early == {"open", "store", "number", "failed"}
<1>. USE Constants
<1>1. /\ pc \in [Threads -> PCs] /\ id \in [Requesters -> -1 .. N - 1]
      /\ frame \in [Threads -> Lib!Frames]
      /\ Conditions /\ Places /\ Tasks
      /\ mode # "exited" /\ LibInv
  BY Basics, MovesStart DEF IInv
<1>2. \A i \in DOMAIN cv :
        /\ cv[i].ct \in Threads /\ cv[i].ct # running /\ SleepsWell(i)
        /\ pc'[cv[i].ct] = pc[cv[i].ct]
        /\ cv[i].ct \in Requesters => id'[cv[i].ct] = id[cv[i].ct]
  BY <1>1, SleepersStay DEF Conditions, SleepsWell
<1>3. ASSUME NEW e, \E i \in DOMAIN cv : e = cv[i]
      PROVE  \/ e.cond = 1 /\ pc'[e.ct] \in {"room", "full", "all"}
             \/ e.ct \in Requesters /\ pc'[e.ct] = "await" /\ e.cond = id'[e.ct]
  BY <1>2, <1>3 DEF SleepsWell
<1>4. ASSUME NEW p \in Requesters, Numbered(p) PROVE pc'[p] \notin Early /\ id'[p] = id[p]
  BY <1>4, NumbersStay DEF Numbered
<1>5. current.requester # None => current.requester \in Requesters
  BY DEF IInv, Tracks
(* The conjuncts, one by one.                                              *)
<1>. DEFINE Sleeping == \A j \in DOMAIN cv' :
              \/ cv'[j].cond = 1 /\ pc'[cv'[j].ct] \in {"room", "full", "all"}
              \/ /\ cv'[j].ct \in Requesters /\ pc'[cv'[j].ct] = "await"
                 /\ cv'[j].cond = id'[cv'[j].ct]
            Telling1 == \A t \in Threads : frame'[t].at = "broadcast" => frame'[t].cond = 1
            Signalling == pc'[Service] = "signal" =>
              /\ frame'[Service].at # "broadcast" => \A j \in DOMAIN cv' : cv'[j].cond # 1
              /\ current'.requester # None =>
                   current'.id = id'[current'.requester] /\ pc'[current'.requester] \notin Early
<1>6. SUFFICES Sleeping /\ Telling1 /\ Signalling
  BY <1>6 DEF Conditions, Lib!At, Numbered
<1>7. ASSUME \A j \in DOMAIN cv' : \E i \in DOMAIN cv : cv'[j] = cv[i] PROVE Sleeping
  BY <1>3, <1>7
<1>8. CASE Quiet
  <2>1. Sleeping
    BY <1>7, <1>8 DEF Quiet
  <2>2. Telling1
    BY <1>1, <1>8 DEF Quiet, Conditions, Lib!At
  <2>3. Signalling
    BY <1>1, <1>4, <1>5, <1>8 DEF Quiet, Conditions, Lib!At, Numbered
  <2>. QED BY <2>1, <2>2, <2>3
<1>9. CASE Waking
  <2>1. Sleeping
    BY <1>7, <1>9 DEF Waking, Leaves
  <2>2. Telling1
    BY <1>1, <1>9 DEF Waking, Conditions, Lib!At
  <2>3. /\ pc' = pc /\ current' = current /\ id' = id
        /\ \A j \in DOMAIN cv' : \E i \in DOMAIN cv : cv'[j] = cv[i]
        /\ frame'[Service].at # "broadcast" => Nobody(1) \/ Lib!At(Service) # "broadcast"
    BY <1>9 DEF Waking, Lib!At, Leaves, data, numbers
  <2>4. Signalling
    BY <1>1, <2>3 DEF Conditions, Nobody, Numbered
  <2>. QED BY <2>1, <2>2, <2>4
<1>10. ASSUME NEW p \in Requesters, NEW c,
              (WaitForRoom(p) /\ c = 1) \/ (WaitUntilServed(p) /\ c = id[p]), Waiting(p, c)
       PROVE  Sleeping /\ Telling1 /\ Signalling
  <2>1. /\ Call(p) /\ id' = id
        /\ WaitForRoom(p) => pc'[p] = "room" /\ c = 1 /\ pc[p] = "room"
        /\ WaitUntilServed(p) => pc'[p] = "await" /\ c = id[p] /\ pc[p] = "await"
        /\ pc'[Service] = pc[Service]
    BY <1>1, <1>10 DEF WaitForRoom, WaitUntilServed, Step, Goto, data, numbers
  <2>2. Sleeping
    BY <1>3, <1>10, <2>1 DEF Waiting, Joins
  <2>3. \A t \in Threads : Lib!At(t) # "broadcast"
    BY <2>1, CallerFacts
  <2>4. Telling1
    BY <1>1, <1>10, <2>3 DEF Waiting, Lib!Frame, Lib!At
  <2>5. pc'[Service] # "signal"
    BY <1>10, <2>1, SignalAlone
  <2>. QED BY <2>2, <2>4, <2>5
<1>11. ASSUME NEW t \in Threads, Telling(t), Call(t),
              pc'[Service] # "signal" \/ (t = Service /\ (Serve \/ PopWild))
       PROVE  Sleeping /\ Telling1 /\ Signalling
  <2>1. \A u \in Threads : Lib!At(u) # "broadcast"
    BY <1>11, CallerFacts
  <2>2. Sleeping
    BY <1>7, <1>11 DEF Telling
  <2>3. Telling1
    BY <1>1, <1>11, <2>1 DEF Telling, Lib!Frame, Lib!At
  <2>4. Signalling
    <3>1. CASE pc'[Service] # "signal"
      BY <3>1
    <3>2. CASE Serve /\ t = Service
      <4>1. PICK i \in PopChoices(queue, current.track) \ {0} : current' = queue[i]
        BY <3>2 DEF Serve
      <4>2. i \in DOMAIN queue /\ queue[i] \in Entry
        BY <1>1, <4>1, PopFacts DEF IInv, Tasks, Tracks
      <4>3. /\ current'.requester \in Requesters /\ current'.id = id[current'.requester]
            /\ pc[current'.requester] = "await"
        BY <1>1, <4>1, <4>2 DEF Tasks, Entry, OneOutstanding
      <4>4. pc'[current'.requester] \notin Early /\ id'[current'.requester] = id[current'.requester]
        BY <1>4, <4>3 DEF Numbered
      <4>5. frame'[Service].at # "broadcast" => \A j \in DOMAIN cv' : cv'[j].cond # 1
        BY <1>1, <1>11, <3>2 DEF Telling, Nobody, Lib!Frame
      <4>. QED BY <4>3, <4>4, <4>5
    <3>3. CASE PopWild /\ pc'[Service] = "signal" /\ t = Service
      <4>1. current'.requester = None
        BY <1>1, <3>3 DEF PopWild, Die, Goto
      <4>2. frame'[Service].at # "broadcast" => \A j \in DOMAIN cv' : cv'[j].cond # 1
        BY <1>1, <1>11, <3>3 DEF Telling, Nobody, Lib!Frame
      <4>. QED BY <4>1, <4>2
    <3>. QED BY <1>11, <3>1, <3>2, <3>3
  <2>. QED BY <2>2, <2>3, <2>4
<1>12. ASSUME NEW p \in Requesters, Request(p) \/ Leave(p), Telling(p)
       PROVE  Sleeping /\ Telling1 /\ Signalling
  <2>1. Call(p) /\ pc[p] \in {"room", "leave"} /\ pc'[Service] = pc[Service]
    BY <1>1, <1>12 DEF Request, Leave, Step, Goto
  <2>2. pc'[Service] # "signal"
    BY <2>1, SignalAlone
  <2>. QED BY <1>11, <1>12, <2>1, <2>2
<1>13. CASE WaitForRequests /\ Waiting(Service, 1)
  <2>1. /\ Call(Service) /\ id' = id /\ pc'[Service] = Branch /\ Branch \in {"full", "all"}
    BY <1>1, <1>13 DEF WaitForRequests, Step, Goto, Branch, InLoop, data, numbers
  <2>2. Sleeping
    BY <1>3, <1>13, <2>1 DEF Waiting, Joins
  <2>3. \A t \in Threads : Lib!At(t) # "broadcast"
    BY <2>1, CallerFacts
  <2>4. Telling1
    BY <1>1, <1>13, <2>3 DEF Waiting, Lib!Frame, Lib!At
  <2>. QED BY <2>1, <2>2, <2>4
<1>14. CASE (Serve \/ PopWild) /\ Step(Service, pc[Service], "signal") /\ Telling(Service)
  BY <1>11, <1>14 DEF Serve, Step
<1>15. CASE /\ SignalServed /\ frame' = frame
            /\ ((cv' = cv /\ Nobody(current.id)) \/ Leaves(current.id))
  <2>1. pc'[Service] = "loop"
    BY <1>1, <1>15 DEF SignalServed, Step, Goto
  <2>2. Sleeping
    BY <1>7, <1>15 DEF Leaves
  <2>3. Telling1
    BY <1>1, <1>15 DEF Conditions, Lib!At
  <2>. QED BY <2>1, <2>2, <2>3
<1>. QED BY <1>8, <1>9, <1>10, <1>12, <1>13, <1>14, <1>15, MovesAreOfAKind DEF Kinds

LEMMA WakeupsStep ==
  ASSUME IInv, Moves
  PROVE  Wakeups'
<1>. USE Constants
<1>1. /\ pc \in [Threads -> PCs] /\ frame \in [Threads -> Lib!Frames]
      /\ Conditions /\ Wakeups /\ active \in 0 .. N /\ MaxSize \in Int
      /\ mode # "exited" /\ LibInv
  BY Basics, MovesStart DEF IInv
<1>2. \A i \in DOMAIN cv :
        /\ cv[i].ct \in Threads /\ cv[i].ct # running /\ pc'[cv[i].ct] = pc[cv[i].ct]
        /\ cv[i].cond = 1 \/ pc[cv[i].ct] = "await"
  BY <1>1, SleepersStay DEF Conditions
<1>. DEFINE Awake == \A t \in Threads : Lib!At(t) # "broadcast"
            Right(u) == /\ pc[u] = "room" => IsFull(queue)
                        /\ pc[u] = "full" => Len(queue) < MaxSize
                        /\ pc[u] = "all"  => Len(queue) < active
            RightNext(u) == /\ pc'[u] = "room" => IsFull(queue')
                            /\ pc'[u] = "full" => Len(queue') < MaxSize
                            /\ pc'[u] = "all"  => Len(queue') < active'
            Sleeping == (\A t \in Threads : frame'[t].at # "broadcast") =>
                          \A j \in DOMAIN cv' : RightNext(cv'[j].ct)
            Branching == pc'[Service] = "all" => active' <= MaxSize
<1>3. SUFFICES Sleeping /\ Branching
  BY <1>3 DEF Wakeups, Lib!At
<1>4. Awake => \A i \in DOMAIN cv : Right(cv[i].ct)
  BY <1>1 DEF Wakeups
<1>5. pc[Service] = "all" => active <= MaxSize
  BY <1>1 DEF Wakeups
<1>6. ASSUME Awake, queue' = queue, active' = active, NEW u, \E i \in DOMAIN cv : u = cv[i].ct
      PROVE  RightNext(u)
  BY <1>2, <1>4, <1>6
<1>7. ASSUME Nobody(1), cv' = cv PROVE Sleeping
  BY <1>2, <1>7 DEF Nobody
<1>8. ASSUME NEW t, Call(t) PROVE Awake /\ t \in Threads /\ t = running
  BY <1>8, CallerFacts
<1>9. CASE Quiet
  <2>1. Sleeping
    BY <1>6, <1>9 DEF Quiet, Lib!At
  <2>. QED BY <1>5, <1>9, <2>1 DEF Quiet
<1>10. CASE Waking
  <2>1. Branching
    BY <1>5, <1>10 DEF Waking, data
  <2>2. Sleeping
    BY <1>7, <1>10 DEF Waking, Lib!At
  <2>. QED BY <2>1, <2>2
<1>11. ASSUME NEW t, Call(t), NEW c, Waiting(t, c), RightNext(t) PROVE Sleeping
  <2>1. queue' = queue /\ active' = active
    BY <1>11 DEF Waiting, data
  <2>2. Awake
    BY <1>8, <1>11
  <2>3. \A j \in DOMAIN cv' : cv'[j].ct = t \/ \E i \in DOMAIN cv : cv'[j].ct = cv[i].ct
    BY <1>11 DEF Waiting, Joins
  <2>. QED BY <1>6, <1>11, <2>1, <2>2, <2>3
<1>12. ASSUME NEW t, Call(t), Telling(t) PROVE Sleeping
  <2>1. CASE frame' = [frame EXCEPT ![t] = Lib!Frame("broadcast", 1, 1)]
    BY <1>1, <1>8, <1>12, <2>1 DEF Lib!Frame
  <2>. QED BY <1>7, <1>12, <2>1 DEF Telling
<1>. USE DEF Step, Goto
<1>13. ASSUME NEW p \in Requesters, \/ WaitForRoom(p) /\ Waiting(p, 1)
                                    \/ WaitUntilServed(p) /\ Waiting(p, id[p])
       PROVE  Sleeping /\ Branching
  <2>1. /\ Call(p) /\ pc'[Service] = pc[Service] /\ active' = active /\ queue' = queue
        /\ \/ pc'[p] = "room" /\ IsFull(queue)
           \/ pc'[p] = "await"
    BY <1>1, <1>13 DEF WaitForRoom, WaitUntilServed, data
  <2>2. RightNext(p)
    BY <2>1
  <2>. QED BY <1>5, <1>11, <1>13, <2>1, <2>2
<1>14. ASSUME NEW p \in Requesters, (Request(p) \/ Leave(p)) /\ Telling(p)
       PROVE  Sleeping /\ Branching
  <2>1. Call(p) /\ pc'[Service] = pc[Service] /\ (active' = active \/ active' = active - 1)
    BY <1>1, <1>14 DEF Request, Leave
  <2>. QED BY <1>1, <1>5, <1>12, <1>14, <2>1
<1>15. CASE WaitForRequests /\ Waiting(Service, 1)
  <2>1. /\ Call(Service) /\ pc'[Service] = Branch /\ active' = active /\ queue' = queue /\ TooFew
        /\ InLoop
    BY <1>1, <1>15 DEF WaitForRequests, data
  <2>2. /\ Branch \in {"full", "all"}
        /\ Branch = "full" => Len(queue) < MaxSize
        /\ Branch = "all"  => Len(queue) < active /\ active <= MaxSize
    BY <1>1, <1>5, <2>1 DEF Branch, InLoop, TooFew
  <2>3. RightNext(Service)
    BY <2>1, <2>2
  <2>. QED BY <1>11, <1>15, <2>1, <2>2, <2>3
<1>16. CASE (Serve \/ PopWild) /\ Step(Service, pc[Service], "signal") /\ Telling(Service)
  BY <1>1, <1>12, <1>16
<1>17. CASE /\ SignalServed /\ frame' = frame
            /\ ((cv' = cv /\ Nobody(current.id)) \/ Leaves(current.id))
  <2>1. Call(Service) /\ pc'[Service] = "loop" /\ active' = active /\ queue' = queue
    BY <1>1, <1>17 DEF SignalServed, data
  <2>2. \A j \in DOMAIN cv' : \E i \in DOMAIN cv : cv'[j].ct = cv[i].ct
    BY <1>17 DEF Leaves
  <2>3. Sleeping
    BY <1>6, <1>8, <2>1, <2>2
  <2>. QED BY <2>1, <2>3
<1>. QED BY <1>9, <1>10, <1>13, <1>14, <1>15, <1>16, <1>17, MovesAreOfAKind DEF Kinds

LEMMA NoMissedSignalStep ==
  ASSUME IInv, Moves
  PROVE  NoMissedSignal'
<1>. DEFINE Missed(p)     == pc[p] = "await" /\ executed[p] /\ \E i \in DOMAIN cv : cv[i].ct = p
            Coming(p)     == Sharing \/ (pc[Service] = "signal" /\ current.requester = p)
            ComingNext(p) == Sharing' \/ (pc'[Service] = "signal" /\ current'.requester = p)
<1>. USE Constants
<1>1. /\ pc \in [Threads -> PCs] /\ frame \in [Threads -> Lib!Frames]
      /\ executed \in [Requesters -> BOOLEAN]
      /\ Conditions /\ mode # "exited" /\ LibInv
  BY Basics, MovesStart DEF IInv
<1>2. SUFFICES ASSUME NEW p \in Requesters, pc'[p] = "await", executed'[p],
                      NEW k \in DOMAIN cv', cv'[k].ct = p
               PROVE  ComingNext(p)
  BY DEF NoMissedSignal, Lib!CvBlocked
<1>3. Missed(p) => Coming(p)
  BY DEF IInv, NoMissedSignal, Lib!CvBlocked
<1>4. Sharing => Sharing'
  BY NumbersStay
<1>5. ASSUME \E i \in DOMAIN cv : cv'[k] = cv[i], executed'[p] = executed[p],
             pc[Service] = "signal" => pc'[Service] = "signal" /\ current' = current
      PROVE  ComingNext(p)
  <2>1. pc[p] = "await"
    BY <1>1, <1>2, <1>5, SleepersStay
  <2>. QED BY <1>2, <1>3, <1>4, <1>5, <2>1
<1>6. ASSUME NEW t, Call(t) PROVE t = running /\ ~ \E i \in DOMAIN cv : cv[i].ct = t
  BY <1>1, <1>6, Sleepers, CallerFacts
<1>. USE DEF Step, Goto
<1>7. CASE Quiet
  BY <1>2, <1>5, <1>7 DEF Quiet
<1>8. CASE Waking
  <2>1. \E i \in DOMAIN cv : cv'[k] = cv[i]
    BY <1>2, <1>8 DEF Waking, Leaves
  <2>. QED BY <1>5, <1>8, <2>1 DEF Waking, data
<1>9. ASSUME NEW q \in Requesters, \/ WaitForRoom(q) /\ Waiting(q, 1)
                                   \/ WaitUntilServed(q) /\ Waiting(q, id[q])
      PROVE  ComingNext(p)
  <2>1. /\ Call(q) /\ pc'[Service] = pc[Service] /\ current' = current /\ executed' = executed
        /\ \/ pc'[q] = "room"
           \/ ~ executed[q]
    BY <1>1, <1>9 DEF WaitForRoom, WaitUntilServed, data
  <2>2. cv'[k].ct = q \/ \E i \in DOMAIN cv : cv'[k] = cv[i]
    BY <1>2, <1>9 DEF Waiting, Joins
  <2>. QED BY <1>2, <1>5, <2>1, <2>2
<1>10. ASSUME NEW q \in Requesters, (Request(q) \/ Leave(q)) /\ Telling(q)
       PROVE  ComingNext(p)
  <2>1. /\ Call(q) /\ pc'[Service] = pc[Service] /\ current' = current
        /\ \A r \in Requesters \ {q} : executed'[r] = executed[r]
    BY <1>1, <1>10 DEF Request, Leave
  <2>2. \E i \in DOMAIN cv : cv'[k] = cv[i]
    BY <1>2, <1>10 DEF Telling
  <2>3. p # q
    BY <1>2, <1>6, <2>1, <2>2
  <2>. QED BY <1>5, <2>1, <2>2, <2>3
<1>11. CASE WaitForRequests /\ Waiting(Service, 1)
  <2>1. pc[Service] # "signal" /\ executed' = executed
    BY <1>11 DEF WaitForRequests, InLoop, data
  <2>2. cv'[k].ct = Service \/ \E i \in DOMAIN cv : cv'[k] = cv[i]
    BY <1>2, <1>11 DEF Waiting, Joins
  <2>. QED BY <1>2, <1>5, <2>1, <2>2
<1>12. CASE (Serve \/ PopWild) /\ Step(Service, pc[Service], "signal") /\ Telling(Service)
  <2>1. pc[Service] # "signal" /\ pc'[Service] = "signal"
    BY <1>1, <1>12 DEF Serve, PopWild, InLoop
  <2>2. \E i \in DOMAIN cv : cv'[k] = cv[i]
    BY <1>2, <1>12 DEF Telling
  <2>3. executed'[p] = executed[p] \/ current'.requester = p
    <3>1. CASE Serve
      BY <1>1, <3>1 DEF Serve
    <3>2. CASE PopWild
      BY <1>1, <3>2 DEF PopWild, data
    <3>. QED BY <1>12, <3>1, <3>2
  <2>. QED BY <1>5, <2>1, <2>2, <2>3
<1>13. CASE /\ SignalServed /\ frame' = frame
            /\ ((cv' = cv /\ Nobody(current.id)) \/ Leaves(current.id))
  <2>1. Call(Service) /\ pc[Service] = "signal" /\ executed' = executed
    BY <1>13 DEF SignalServed, data
  <2>2. PICK i \in DOMAIN cv : cv'[k] = cv[i]
    BY <1>2, <1>13 DEF Leaves
  <2>3. pc[p] = "await" /\ cv[i].ct = p /\ SleepsWell(i)
    BY <1>1, <1>2, <2>2, SleepersStay DEF Conditions, SleepsWell
  <2>4. Coming(p)
    BY <1>2, <1>3, <2>1, <2>3
  <2>5. CASE ~ Sharing
    <3>1. current.requester = p /\ current.id = id[p] /\ cv[i].cond = id[p]
      BY <1>1, <2>1, <2>3, <2>4, <2>5 DEF Conditions, SleepsWell
    <3>2. Lib!At(Service) # "broadcast"
      BY <2>1, CallerFacts
    <3>3. PICK m \in DOMAIN cv : cv[m].cond = id[p] /\ cv[m].ct # p
      BY <1>2, <1>13, <2>2, <2>3, <3>1 DEF Nobody, Leaves
    <3>4. cv[m].ct \in Requesters /\ pc[cv[m].ct] = "await" /\ id[cv[m].ct] = id[p]
      BY <1>1, <2>1, <3>2, <3>3 DEF Conditions
    <3>. QED BY <2>3, <2>5, <3>3, <3>4 DEF Sharing, Numbered
  <2>. QED BY <1>4, <2>5
<1>. QED BY <1>7, <1>8, <1>9, <1>10, <1>11, <1>12, <1>13, MovesAreOfAKind DEF Kinds

-----------------------------------------------------------------------------
(* When the last requester has said goodbye, nothing is left to serve, and *)
(* nothing will be.                                                        *)
NothingLeft ==
  /\ queue = <<>>
  /\ \A p \in Requesters : file[p] = <<>> /\ pc[p] \in {"last", "end"}

LEMMA NoneActive ==
  ASSUME IInv
  PROVE  active = 0 <=> \A p \in Requesters : pc[p] \in {"last", "end"}
<1>1. IsFiniteSet(Present)
  BY Constants, FS_Subset DEF Present
<1>2. active = 0 <=> Present = {}
  BY <1>1, FS_EmptySet DEF IInv, Counting
<1>. QED BY <1>2 DEF Present

LEMMA NobodyLeftStep ==
  ASSUME IInv, Moves, active = 0
  PROVE  active' = 0 /\ NothingLeft'
<1>. USE Constants
<1>1. \A p \in Requesters : pc[p] \in {"last", "end"}
  BY NoneActive
<1>2. active' = 0
  BY <1>1 DEF Moves, data, RequesterStep, LoadNum, StoreNum, ReadNum, ReadNull, ReadLine, WaitForRoom,
              Request, WaitUntilServed, NextRequest, Leave, LastUnlock, Step, ServiceStep, Begin,
              WaitForRequests, Serve, PopWild, SignalServed, LastRequestServed, ReturnLocked
<1>3. Counting' /\ Tasks' /\ Tracks'
  BY CountingStep, TasksStep, TracksStep
<1>4. Present' = {}
  <2>1. IsFiniteSet(Present')
    BY FS_Subset DEF Present
  <2>. QED BY <1>2, <1>3, <2>1, FS_EmptySet DEF Counting
<1>5. \A p \in Requesters : pc'[p] \in {"last", "end"}
  BY <1>4 DEF Present
<1>6. \A p \in Requesters : file'[p] = <<>>
  BY <1>3, <1>5 DEF Tracks
<1>7. queue' = <<>>
  <2>1. /\ queue' \in Seq(Entry)
        /\ \A p \in Requesters : (pc'[p] = "await" /\ ~ executed'[p]) <=>
             \E i \in DOMAIN queue' : queue'[i].requester = p
    BY <1>3 DEF Tasks, OneOutstanding
  <2>2. \A i \in DOMAIN queue' : queue'[i].requester \in Requesters
    <3>1. DOMAIN queue' = 1 .. Len(queue') /\ \A i \in 1 .. Len(queue') : queue'[i] \in Entry
      BY <2>1, ElementOfSeq, LenProperties
    <3>. QED BY <3>1 DEF Entry
  <2>3. DOMAIN queue' = {}
    BY <1>5, <2>1, <2>2
  <2>. QED BY <2>1, <2>3, LenProperties, EmptySeq
<1>. QED BY <1>2, <1>5, <1>6, <1>7 DEF NothingLeft

LEMMA ServiceOutlivesStep ==
  ASSUME IInv, Moves
  PROVE  ServiceOutlivesRequesters'
<1>. USE Constants
<1>1. pc \in [Threads -> PCs] /\ frame \in [Threads -> Lib!Frames] /\ active \in 0 .. N
  BY Basics DEF IInv
<1>2. pc[Service] = "end" \/ Lib!At(Service) = "done" => active = 0
  BY NoneActive DEF IInv, ServiceOutlivesRequesters
<1>3. ASSUME pc'[Service] = "end", pc[Service] # "end" PROVE active = 0
  <2>. USE DEF Step, Goto, Die
  <2>1. CASE ThreadStep
    BY <1>1, <1>3, <2>1, ThreadStepFacts
  <2>2. ASSUME NEW p \in Requesters, RequesterStep(p) PROVE FALSE
    BY <1>1, <1>3, <2>2 DEF RequesterStep, LoadNum, StoreNum, ReadNum, ReadNull, ReadLine, WaitForRoom,
              Request, WaitUntilServed, NextRequest, Leave, LastUnlock
  <2>3. ASSUME ServiceStep PROVE LastRequestServed
    BY <1>1, <1>3, <2>3 DEF ServiceStep, Begin, WaitForRequests, Branch, InLoop, Serve, PopWild,
              SignalServed, ReturnLocked
  <2>4. ASSUME LastRequestServed PROVE active = 0
    BY <1>1, <2>4 DEF LastRequestServed, InLoop
  <2>. QED BY <2>1, <2>2, <2>3, <2>4 DEF Moves
<1>4. ASSUME frame'[Service].at = "done", Lib!At(Service) # "done" PROVE active = 0
  <2>1. \/ BootReturns \/ Return(Service)
        \/ ReturnLocked
    BY <1>4, EndsByReturning
  <2>2. Service = running
    BY <1>4, EndsByReturning
  <2>. QED BY <1>2, <2>1, <2>2 DEF BootReturns, Call, Return, ReturnLocked
<1>5. active = 0 => NothingLeft'
  BY NobodyLeftStep
<1>. QED
  BY <1>2, <1>3, <1>4, <1>5 DEF ServiceOutlivesRequesters, NothingLeft, Lib!At

LEMMA BoundedStep ==
  ASSUME IInv, Moves
  PROVE  Bounded'
<1>. USE Constants
<1>1. /\ queue \in Seq(Entry) /\ Len(queue) \in Nat /\ Bounded
      /\ Len(queue) = 0 <=> queue = <<>>
  <2>1. queue \in Seq(Entry) /\ Bounded
    BY DEF IInv, Tasks
  <2>. QED BY <2>1, LenProperties, EmptySeq
<1>2. CASE queue' = queue
  BY <1>1, <1>2 DEF Bounded
<1>3. ASSUME NEW p \in Requesters, Request(p) PROVE Bounded'
  <2>1. queue' = Append(queue, Task(p)) /\ Len(queue) < MaxSize
    BY <1>1, <1>3 DEF Request, Appended, IsFull
  <2>2. Task(p) \in Entry \cup {Task(p)} /\ queue \in Seq(Entry \cup {Task(p)})
    BY <1>1, LenProperties, ElementOfSeq
  <2>3. Len(queue') = Len(queue) + 1
    BY <2>1, <2>2, AppendProperties
  <2>. QED BY <1>1, <2>1, <2>3 DEF Bounded
<1>4. ASSUME Serve PROVE Bounded'
  <2>1. PICK i \in PopChoices(queue, current.track) \ {0} : queue' = RemoveAt(queue, i)
    BY <1>4 DEF Serve
  <2>2. i \in DOMAIN queue
    BY <1>1, <2>1, PopFacts DEF IInv, Tracks
  <2>3. i \in 1 .. Len(queue)
    BY <1>1, <2>2, LenProperties
  <2>4. Len(queue') = Len(queue) - 1
    BY <1>1, <2>1, <2>3, RemoveAtProperties
  <2>5. queue # <<>>
    BY <1>1, <2>3
  <2>. QED BY <1>1, <2>4, <2>5 DEF Bounded
<1>5. (\E p \in Requesters : Request(p)) \/ Serve \/ queue' = queue
  BY DEF Moves, data, RequesterStep, LoadNum, StoreNum, ReadNum, ReadNull, ReadLine, WaitForRoom,
         WaitUntilServed, NextRequest, Leave, LastUnlock, ServiceStep, Begin, WaitForRequests,
         PopWild, SignalServed, LastRequestServed, ReturnLocked
<1>. QED BY <1>2, <1>3, <1>4, <1>5

-----------------------------------------------------------------------------
(* Once the service thread has returned with the lock, the others are done *)
(* with it: their code is at its end, and nobody waits for the lock.       *)
LEMMA LeaksStep ==
  ASSUME IInv, Moves
  PROVE  Leaks'
<1>. USE Constants
<1>1. /\ pc \in [Threads -> PCs] /\ frame \in [Threads -> Lib!Frames]
      /\ locks \in [Threads -> SUBSET Locks]
      /\ mode # "exited" /\ LibInv /\ Sections(Locked, Blocks) /\ Places
      /\ waiting \in Seq(Lib!LockEntry)
  <2>1. mode # "exited" /\ LibInv
    BY MovesStart
  <2>. QED BY <2>1, Basics, LibFacts DEF IInv, Lib!TypeOK
<1>2. ASSUME \A p \in Requesters : pc[p] = "end", Lib!At(Service) \in {"user", "done"}
      PROVE  /\ waiting = <<>>
             /\ \A t \in Threads : Lib!At(t) \notin {"lock", "relock", "wait"}
  <2>1. \A t \in Threads : Lib!At(t) \notin {"lock", "relock", "wait"}
    BY <1>1, <1>2 DEF Sections, Blocks, Places
  <2>2. /\ DOMAIN waiting = 1 .. Len(waiting)
        /\ \A i \in DOMAIN waiting : waiting[i] \in Lib!LockEntry
    BY <1>1, LenProperties, ElementOfSeq
  <2>3. \A i \in DOMAIN waiting :
          waiting[i].ct \in Threads /\ Lib!At(waiting[i].ct) \in {"lock", "relock"}
    BY <1>1, <2>2, LibFacts DEF Lib!LockEntry, Lib!QueuesMatchFrames
  <2>4. DOMAIN waiting = {}
    BY <2>1, <2>3
  <2>. QED BY <1>1, <2>1, <2>4, LenProperties, EmptySeq
<1>3. ASSUME 1 \in leaked PROVE Leaks'
  <2>1. /\ \A p \in Requesters : pc[p] = "end"
        /\ Lib!At(Service) = "done" /\ waiting = <<>>
        /\ \A t \in Threads : Lib!At(t) \notin {"lock", "relock", "wait"}
    BY <1>2, <1>3 DEF IInv, Leaks, LeakIsHarmless
  <2>2. ThreadStep
    <3>1. ~ \E p \in Requesters : RequesterStep(p)
      BY <2>1 DEF RequesterStep, LoadNum, StoreNum, ReadNum, ReadNull, ReadLine, WaitForRoom,
                  Request, WaitUntilServed, NextRequest, Leave, LastUnlock, Step
    <3>2. ~ ServiceStep
      <4>1. ~ Call(Service)
        BY <2>1, CallerFacts
      <4>. QED BY <4>1 DEF ServiceStep, Begin, WaitForRequests, Serve, PopWild, SignalServed,
                       LastRequestServed, ReturnLocked, Step, Die
    <3>. QED BY <3>1, <3>2 DEF Moves
  <2>3. \A p \in Requesters : pc'[p] = "end"
    BY <1>1, <2>1, <2>2, ThreadStepFacts
  <2>4. waiting' = <<>>
    <3>1. CASE Finish
      <4>1. Lib!Resume
        BY <3>1 DEF Finish
      <4>. QED BY <1>1, <2>1, <4>1, ResumeFacts
    <3>. QED BY <2>1, <2>2, <3>1 DEF ThreadStep, Main, Libinit, LibinitFails, MainReturns, Create,
                CreateNext, CreateFails, BootReturns, Preempt, Return, libVars, Lib!Libinit,
                Lib!LibinitFails, Lib!MainReturns, Lib!Create, Lib!Exit, Lib!Yield
  <2>5. frame'[Service] = frame[Service]
    <3>1. CASE Service # running
      BY <2>1, <3>1, OthersStay
    <3>2. CASE Service = running
      <4>1. ~ Finish
        BY <1>1, <2>1, <3>2, ResumeFacts DEF Finish
      <4>2. ~ (Create \/ Preempt \/ \E t \in Threads : Return(t))
        BY <2>1, <3>2 DEF Create, CreateNext, CreateFails, BootReturns, Preempt, Return, Call,
                          Lib!Enter, Lib!Yield
      <4>3. mode # "main"
        BY <1>1, <2>1, LibFacts
      <4>. QED BY <2>2, <4>1, <4>2, <4>3 DEF ThreadStep, Main, Libinit, LibinitFails, MainReturns,
                  Lib!Libinit, Lib!LibinitFails, Lib!MainReturns
    <3>. QED BY <3>1, <3>2
  <2>. QED BY <2>1, <2>3, <2>4, <2>5 DEF Leaks, LeakIsHarmless, Lib!At
<1>4. ASSUME 1 \notin leaked, 1 \in leaked' PROVE Leaks'
  <2>1. /\ Lib!Exit /\ 1 \in locks[running] /\ running \in Threads
        /\ frame'[running].at = "done" /\ Lib!At(running) = "user"
    <3>1. Lib!Next \/ UNCHANGED libVars
      BY <1>4, LibraryMoves DEF Die
    <3>2. Lib!Exit /\ leaked' = leaked \cup locks[running]
      BY <1>1, <1>4, <3>1, LeakFacts
    <3>3. running \in Threads /\ Lib!At(running) = "user"
      BY <1>1, <3>2, LibFacts DEF Lib!TypeOK, Lib!Exit, Lib!Enter
    <3>. QED BY <1>1, <1>4, <3>2, <3>3 DEF Lib!Exit, Lib!Frame
  <2>2. \/ (BootReturns \/ Return(running)) /\ UNCHANGED data
        \/ ReturnLocked
    BY <2>1, EndsByReturning
  <2>3. pc[running] \in Locked
    BY <1>1, <2>1 DEF Sections
  <2>4. ReturnLocked
    BY <1>1, <2>2, <2>3 DEF BootReturns, Return, Call, Places, Locked
  <2>5. /\ Call(Service) /\ running = Service /\ active = 0 /\ pc' = pc
        /\ waiting' = waiting /\ pc[Service] \in Locked
    BY <2>3, <2>4 DEF ReturnLocked, Lib!Exit, Call
  <2>6. \A p \in Requesters : pc[p] = "end"
    <3>1. SUFFICES ASSUME NEW p \in Requesters, pc[p] = "last" PROVE FALSE
      BY <2>5, NoneActive
    <3>2. Lib!At(p) \in {"lock", "wait", "relock", "done"}
      BY <2>5, <3>1, CallerFacts DEF Locked
    <3>3. Lib!At(p) = "done"
      BY <1>1, <3>1, <3>2 DEF Sections, Blocks
    <3>. QED BY <3>1, <3>3 DEF IInv, Lives
  <2>. QED BY <1>2, <2>1, <2>5, <2>6 DEF Leaks, LeakIsHarmless, Lib!At
<1>. QED BY <1>3, <1>4 DEF Leaks, LeakIsHarmless

-----------------------------------------------------------------------------
(* How many requests the list holds: at most one of each requester that    *)
(* has not left, and one of each if every such requester waits for its     *)
(* task.                                                                   *)
LEMMA ListHoldsPresent ==
  ASSUME IInv
  PROVE  /\ Len(queue) \in Nat /\ Len(queue) <= active
         /\ (\A p \in Present : pc[p] = "await" /\ ~ executed[p]) => active <= Len(queue)
<1>. USE Constants
<1>. DEFINE asks == [i \in 1 .. Len(queue) |-> queue[i].requester]
            n    == Len(queue)
<1>1. /\ IsFiniteSet(Present) /\ active = Cardinality(Present)
      /\ n \in Nat /\ DOMAIN queue = 1 .. n
      /\ \A i \in 1 .. n : queue[i] \in Entry
      /\ \A i, j \in 1 .. n : queue[i].requester = queue[j].requester => i = j
      /\ \A p \in Requesters : (pc[p] = "await" /\ ~ executed[p]) <=>
           \E i \in 1 .. n : queue[i].requester = p
  <2>1. queue \in Seq(Entry) /\ OneOutstanding /\ active = Cardinality(Present)
    BY DEF IInv, Tasks, Counting
  <2>2. n \in Nat /\ DOMAIN queue = 1 .. n /\ \A i \in 1 .. n : queue[i] \in Entry
    BY <2>1, LenProperties, ElementOfSeq
  <2>3. IsFiniteSet(Present)
    BY FS_Subset DEF Present
  <2>. QED BY <2>1, <2>2, <2>3 DEF OneOutstanding
<1>2. \A i \in 1 .. n : queue[i].requester \in Present
  <2>1. \A i \in 1 .. n : queue[i].requester \in Requesters
    BY <1>1 DEF Entry
  <2>. QED BY <1>1, <2>1 DEF Present
<1>3. IsFiniteSet(1 .. n) /\ Cardinality(1 .. n) = n
  <2>1. \A m \in Nat : IsFiniteSet(1 .. m) /\ Cardinality(1 .. m) = m
    BY FS_Interval
  <2>. QED BY <1>1, <2>1
<1>4. asks \in Injection(1 .. n, Present)
  BY <1>1, <1>2 DEF Injection, IsInjective
<1>5. n <= active
  BY <1>1, <1>3, <1>4, FS_Injection
<1>6. ASSUME \A p \in Present : pc[p] = "await" /\ ~ executed[p] PROVE active <= n
  <2>1. \A p \in Present : \E i \in 1 .. n : queue[i].requester = p
    BY <1>1, <1>6 DEF Present
  <2>2. asks \in Surjection(1 .. n, Present)
    BY <1>2, <2>1 DEF Surjection
  <2>. QED BY <1>1, <1>3, <2>2, FS_Surjection
<1>. QED BY <1>1, <1>5, <1>6

(* With no thread to run, the lock can only be the running thread's.       *)
LEMMA LockIsRunning ==
  ASSUME IInv, mode = "threads", ~ Died, runnable = <<>>, 1 \notin leaked
  PROVE  /\ 1 \notin using \ locks[running]
         /\ 1 \notin locks[running] => waiting = <<>>
<1>. USE Constants
<1>1. /\ LibInv /\ Sections(Locked, Blocks) /\ running \in Threads
      /\ \A t \in Threads : Lib!At(t) \in Lib!Points
      /\ waiting \in Seq(Lib!LockEntry) /\ locks \in [Threads -> SUBSET Locks]
  BY LibFacts DEF IInv, Library, Lib!TypeOK, Lib!Frames, Lib!At
<1>2. ASSUME NEW t \in Threads, t # running PROVE 1 \notin locks[t]
  <2>1. ~ Lib!Runnable(t)
    BY EmptySeq, LenProperties DEF Lib!Runnable
  <2>2. CASE Lib!At(t) \in {"none", "done"}
    BY <1>1, <2>2 DEF Sections
  <2>3. CASE Lib!CvBlocked(t)
    BY <1>1, <2>3, Sleepers DEF Lib!CvBlocked, Sections
  <2>4. CASE Lib!LockBlocked(t)
    <3>1. PICK i \in DOMAIN waiting : waiting[i].ct = t
      BY <2>4 DEF Lib!LockBlocked
    <3>2. waiting[i].lock = 1
      <4>1. waiting[i] \in Lib!LockEntry
        BY <1>1, <3>1, LenProperties, ElementOfSeq
      <4>. QED BY <4>1 DEF Lib!LockEntry, Locks
    <3>. QED BY <1>1, <3>1, <3>2, LibFacts DEF Lib!WaitsForUsedLock
  <2>. QED BY <1>1, <1>2, <2>1, <2>2, <2>3, <2>4, LibFacts DEF Lib!NoThreadLost
<1>3. 1 \in using => 1 \in locks[running]
  BY <1>1, <1>2, LibFacts DEF Lib!LockAccounting
<1>4. ASSUME waiting # <<>> PROVE 1 \in using
  <2>1. 1 \in DOMAIN waiting /\ waiting[1] \in Lib!LockEntry
    BY <1>1, <1>4, LenProperties, ElementOfSeq, EmptySeq
  <2>. QED BY <1>1, <2>1, LibFacts DEF Lib!WaitsForUsedLock, Lib!LockEntry, Locks
<1>. QED BY <1>3, <1>4

(* How the process ends, if no thread takes it down: the function of a     *)
(* thread returns, or a thread waits, and everybody else has ended, or     *)
(* sleeps on a condition.                                                  *)
Stops(t) ==
  \/ (BootReturns \/ Return(t)) /\ UNCHANGED data /\ frame'[t].at = "done"
  \/ ReturnLocked /\ frame'[t].at = "done"
  \/ t \in Requesters /\ (WaitForRoom(t) \/ WaitUntilServed(t))
  \/ WaitForRequests

LEMMA HowItEnds ==
  ASSUME IInv, Moves, mode' = "exited", ~ Died'
  PROVE  \/ running' = None
         \/ /\ mode = "threads" /\ running \in Threads /\ cv' = cv
            /\ Lib!At(running) = "user" /\ Stops(running)
            /\ \A t \in Threads \ {running} :
                 /\ Lib!At(t) \in {"none", "done"} \/ Lib!CvBlocked(t)
                 /\ frame'[t] = frame[t]
<1>. USE Constants
<1>1. /\ mode # "exited" /\ LibInv /\ ~ Died
      /\ Lib!Next \/ UNCHANGED libVars
      /\ pc \in [Threads -> PCs] /\ frame \in [Threads -> Lib!Frames]
      /\ locks \in [Threads -> SUBSET Locks] /\ Places /\ Sections(Locked, Blocks)
  <2>1. mode # "exited" /\ LibInv
    BY MovesStart
  <2>2. ASSUME NEW t, Die(t) PROVE FALSE
    <3>1. t \in Threads /\ pc \in [Threads -> PCs]
      BY <2>2, CallerFacts, Basics DEF Die, IInv
    <3>. QED BY <2>2, <3>1 DEF Die, Goto, Died
  <2>. QED BY <2>1, <2>2, LibraryMoves, Basics DEF IInv, Library
<1>2. CASE Lib!MainReturns
  BY <1>2 DEF Lib!MainReturns, IInv, Lives
<1>3. ASSUME ~ Lib!MainReturns
      PROVE  /\ mode = "threads" /\ running \in Threads /\ runnable = <<>> /\ cv' = cv
             /\ \/ Lib!Exit
                \/ /\ waiting = <<>> /\ frame' = frame
                   /\ Lib!Enter /\ \E c \in Conds : Lib!Wait(1, c)
                \/ /\ 1 \in using \ locks[running] /\ frame' = frame
                   /\ Lib!Lock(1) \/ Lib!Resume
  BY <1>1, <1>3, EndFacts
<1>. SUFFICES ASSUME ~ Lib!MainReturns
              PROVE  /\ cv' = cv /\ Lib!At(running) = "user" /\ Stops(running)
                     /\ \A t \in Threads \ {running} :
                          /\ Lib!At(t) \in {"none", "done"} \/ Lib!CvBlocked(t)
                          /\ frame'[t] = frame[t]
  BY <1>2, <1>3
<1>4. 1 \in leaked =>
        /\ \A p \in Requesters : pc[p] = "end"
        /\ Lib!At(Service) = "done" /\ waiting = <<>>
  BY DEF IInv, Leaks, LeakIsHarmless
<1>5. CASE Lib!Exit
  <2>1. Lib!At(running) = "user" /\ frame'[running].at = "done"
    BY <1>1, <1>3, <1>5 DEF Lib!Exit, Lib!Enter, Lib!Frame
  <2>2. Stops(running)
    BY <1>3, <2>1, EndsByReturning DEF Stops
  <2>3. /\ waiting' = waiting /\ leaked' = leaked \cup locks[running]
        /\ \A t \in Threads \ {running} : frame'[t] = frame[t]
    BY <1>1, <1>5 DEF Lib!Exit
  <2>4. waiting = <<>>
    <3>1. 1 \in locks[running] => waiting = <<>>
      BY <2>3, LeaksStep DEF Leaks, LeakIsHarmless
    <3>. QED BY <1>1, <1>3, <1>4, <3>1, LockIsRunning
  <2>5. \A t \in Threads : ~ Lib!Runnable(t) /\ ~ Lib!LockBlocked(t)
    BY <1>3, <2>4, EmptySeq, LenProperties DEF Lib!Runnable, Lib!LockBlocked
  <2>. QED BY <1>1, <1>3, <2>1, <2>2, <2>3, <2>5, LibFacts DEF Lib!NoThreadLost
<1>6. CASE waiting = <<>> /\ frame' = frame /\ Lib!Enter /\ \E c \in Conds : Lib!Wait(1, c)
  <2>1. Lib!At(running) = "user"
    BY <1>6 DEF Lib!Enter
  <2>2. mode' # mode /\ mode # "main" /\ ~ Died'
    BY <1>3
  <2>3. ~ (Lib!Exit \/ Lib!Resume \/ Lib!Yield)
    <3>1. ~ Lib!Exit
      BY <1>1, <1>3, <1>6, <2>1 DEF Lib!Exit, Lib!Frame, Lib!At
    <3>2. ~ Lib!Yield
      BY <2>2 DEF Lib!Yield
    <3>3. ~ Lib!Resume
      BY <1>1, <2>1, ResumeFacts
    <3>. QED BY <3>1, <3>2, <3>3
  <2>4. ~ Lib!Lock(1)
    BY <1>6 DEF Lib!Wait, Lib!Lock
  <2>5. ~ Lib!Unlock(1) /\ \A c : ~ SignalCall(c) /\ ~ BroadcastCall(c)
    BY <2>2 DEF Lib!Unlock, SignalCall, BroadcastCall, Lib!Signal, Lib!Broadcast, libVars
  <2>6. \A t : ~ Die(t)
    <3>1. ASSUME NEW t, Die(t) PROVE FALSE
      <4>1. t \in Threads
        BY <3>1, CallerFacts DEF Die
      <4>. QED BY <1>1, <2>2, <3>1, <4>1 DEF Die, Goto, Died
    <3>. QED BY <3>1
  <2>7. ~ ThreadStep
    BY <2>2, <2>3 DEF ThreadStep, Main, Libinit, LibinitFails, MainReturns, Create, CreateNext,
       CreateFails, BootReturns, Preempt, Finish, Return, libVars, Lib!Libinit, Lib!LibinitFails,
       Lib!MainReturns, Lib!Create
  <2>8. ASSUME NEW p \in Requesters, RequesterStep(p)
        PROVE  p = running /\ (WaitForRoom(p) \/ WaitUntilServed(p))
    <3>1. WaitForRoom(p) \/ WaitUntilServed(p)
      BY <2>2, <2>4, <2>5, <2>6, <2>8 DEF RequesterStep, LoadNum, StoreNum, ReadNum, ReadNull,
         ReadLine, Request, NextRequest, Leave, LastUnlock, libVars
    <3>. QED BY <3>1 DEF WaitForRoom, WaitUntilServed, Step, Call
  <2>9. ASSUME ServiceStep PROVE WaitForRequests
    BY <2>3, <2>4, <2>5, <2>6, <2>9 DEF ServiceStep, Begin, Serve, PopWild, SignalServed,
       LastRequestServed, ReturnLocked
  <2>10. Stops(running)
    BY <2>7, <2>8, <2>9 DEF Moves, Stops
  <2>11. \A t \in Threads : ~ Lib!Runnable(t) /\ ~ Lib!LockBlocked(t)
    BY <1>3, <1>6, EmptySeq, LenProperties DEF Lib!Runnable, Lib!LockBlocked
  <2>. QED BY <1>1, <1>3, <1>6, <2>1, <2>10, <2>11, LibFacts DEF Lib!NoThreadLost
<1>7. CASE 1 \in using \ locks[running] /\ (Lib!Lock(1) \/ Lib!Resume)
  <2>1. 1 \in leaked
    BY <1>1, <1>3, <1>7, LockIsRunning
  <2>2. \A t \in Threads : Lib!At(t) \notin {"lock", "wait", "relock"}
    BY <1>1, <1>4, <2>1 DEF Sections, Blocks, Places
  <2>3. ~ Lib!Resume
    BY <1>1, <1>3, <2>2, ResumeFacts
  <2>4. Lib!Lock(1) /\ mode' # mode /\ mode # "main" /\ 1 \notin locks[running] /\ waiting' = waiting
    BY <1>3, <1>7, <2>3 DEF Lib!Lock, Lib!LockLoop
  <2>5. Lib!At(running) = "user" /\ frame' = frame
    BY <1>3, <1>7, <2>4 DEF Lib!Lock, Lib!LockLoop, Lib!Enter
  <2>6. ~ (Lib!Exit \/ Lib!Yield)
    BY <1>1, <1>3, <2>4, <2>5 DEF Lib!Exit, Lib!Yield, Lib!Frame, Lib!At
  <2>7. ~ ThreadStep
    BY <2>3, <2>4, <2>6 DEF ThreadStep, Main, Libinit, LibinitFails, MainReturns, Create, CreateNext,
       CreateFails, BootReturns, Preempt, Finish, Return, libVars, Lib!Libinit, Lib!LibinitFails,
       Lib!MainReturns, Lib!Create
  <2>8. ~ \E p \in Requesters : RequesterStep(p)
    BY <1>4, <2>1 DEF RequesterStep, LoadNum, StoreNum, ReadNum, ReadNull, ReadLine, WaitForRoom,
                Request, WaitUntilServed, NextRequest, Leave, LastUnlock, Step
  <2>9. ~ ServiceStep
    <3>1. ~ Call(Service)
      BY <1>4, <2>1, CallerFacts
    <3>. QED BY <3>1 DEF ServiceStep, Begin, WaitForRequests, Serve, PopWild, SignalServed,
                     LastRequestServed, ReturnLocked, Step, Die
  <2>. QED BY <2>7, <2>8, <2>9 DEF Moves
<1>. QED BY <1>3, <1>5, <1>6, <1>7

(* A thread that sleeps when the process ends sleeps for the right reason: *)
(* nobody is left who would have woken it.                                 *)
LEMMA SleepersAreStuck ==
  ASSUME IInv, mode = "threads", ~ Died, running \in Threads, Lib!At(running) = "user",
         NEW t \in Threads, Lib!CvBlocked(t),
         ~ Sharing,
         \/ pc[Service] # "signal"
         \/ Lib!At(Service) \in {"none", "done"} \/ Lib!CvBlocked(Service)
  PROVE  \/ t \in Requesters /\ pc[t] = "room" /\ IsFull(queue)
         \/ t \in Requesters /\ pc[t] = "await" /\ ~ executed[t]
         \/ t = Service /\ pc[t] = "full" /\ Len(queue) < MaxSize
         \/ t = Service /\ pc[t] = "all" /\ Len(queue) < active /\ active <= MaxSize
<1>. USE Constants
<1>1. LibInv /\ Places /\ Conditions /\ Wakeups /\ Sections(Locked, Blocks)
  BY DEF IInv, Library
<1>2. PICK i \in DOMAIN cv : cv[i].ct = t
  BY DEF Lib!CvBlocked
<1>3. Lib!At(t) = "wait" /\ t # running /\ pc[t] \in {"room", "full", "all", "await"}
  BY <1>1, <1>2, Sleepers DEF Conditions
<1>4. \A u \in Threads : Lib!At(u) # "broadcast"
  BY <1>1, LibFacts DEF Lib!MaskDiscipline
<1>5. /\ pc[t] = "room" => IsFull(queue)
      /\ pc[t] = "full" => Len(queue) < MaxSize
      /\ pc[t] = "all"  => Len(queue) < active
      /\ pc[Service] = "all" => active <= MaxSize
  BY <1>1, <1>2, <1>4 DEF Wakeups
<1>6. t \in Requesters \/ t = Service
  BY <1>1, <1>3 DEF Places
<1>7. CASE t = Service
  <2>1. pc[t] \in {"full", "all"}
    BY <1>1, <1>3, <1>7 DEF Places, ServicePlaces
  <2>. QED BY <1>5, <1>7, <2>1
<1>8. CASE t \in Requesters
  <2>1. pc[t] \in {"room", "await"}
    BY <1>1, <1>3, <1>8 DEF Places, RequesterPlaces
  <2>2. ASSUME pc[t] = "await", executed[t] PROVE FALSE
    <3>1. pc[Service] = "signal"
      BY <1>2, <1>8, <2>2 DEF IInv, NoMissedSignal, Lib!CvBlocked
    <3>2. Lib!At(Service) \notin {"lock", "wait", "relock", "none"}
      BY <1>1, <3>1 DEF Sections, Blocks
    <3>3. Lib!At(Service) # "done"
      BY <1>8, <2>2 DEF IInv, ServiceOutlivesRequesters
    <3>. QED BY <1>1, <3>1, <3>2, <3>3, Sleepers DEF Lib!CvBlocked
  <2>. QED BY <1>5, <1>8, <2>1, <2>2
<1>. QED BY <1>6, <1>7, <1>8

(* The same of the thread whose wait ends the process.                     *)
LEMMA LastWaiterIsStuck ==
  ASSUME IInv, NEW t,
         (t \in Requesters /\ (WaitForRoom(t) \/ WaitUntilServed(t))) \/ WaitForRequests
  PROVE  /\ UNCHANGED data
         /\ \A p \in Requesters : pc'[p] = pc[p]
         /\ \/ t \in Requesters /\ running = t /\ pc[t] = "room" /\ IsFull(queue)
            \/ t \in Requesters /\ running = t /\ pc[t] = "await" /\ ~ executed[t]
            \/ running = Service /\ pc'[Service] = "full" /\ Len(queue) < MaxSize
            \/ /\ running = Service /\ pc'[Service] = "all" /\ Len(queue) < active
               /\ active <= MaxSize
         /\ running = Service => pc[Service] # "signal"
         /\ running # Service => pc'[Service] = pc[Service]
<1>. USE Constants
<1>1. /\ pc \in [Threads -> PCs] /\ active \in 0 .. N /\ Wakeups
  BY Basics DEF IInv
<1>2. CASE t \in Requesters /\ (WaitForRoom(t) \/ WaitUntilServed(t))
  BY <1>1, <1>2 DEF WaitForRoom, WaitUntilServed, Step, Goto, Call
<1>3. CASE WaitForRequests
  <2>1. /\ UNCHANGED data /\ running = Service /\ InLoop /\ TooFew
        /\ pc' = [pc EXCEPT ![Service] = Branch]
    BY <1>3 DEF WaitForRequests, Step, Goto, Call
  <2>2. Branch \in {"full", "all"} /\ pc[Service] # "signal"
    BY <2>1 DEF Branch, InLoop
  <2>3. Branch = "all" => active <= MaxSize
    BY <1>1, <2>1 DEF Branch, InLoop, Wakeups
  <2>. QED BY <1>1, <2>1, <2>2, <2>3 DEF TooFew
<1>. QED BY <1>2, <1>3

LEMMA StrandedStep ==
  ASSUME IInv, Moves
  PROVE  StrandedOnlyByKnownDefects'
<1>. USE Constants
<1>1. SUFFICES ASSUME mode' = "exited", running' # None,
                      \A t \in Threads : pc'[t] \notin {"failed", "died"},
                      ~ Sharing', ~ (pc'[Service] = "full" /\ active' < MaxSize)
               PROVE  \A p \in Requesters : file'[p] = <<>> /\ frame'[p].at = "done"
  BY DEF StrandedOnlyByKnownDefects, Lib!At
<1>2. /\ pc \in [Threads -> PCs] /\ active \in 0 .. N /\ LibInv /\ ~ Died /\ ~ Sharing
      /\ Places /\ Lives /\ Sections(Locked, Blocks)
  <2>1. LibInv /\ ~ Died
    BY MovesStart DEF IInv, Library
  <2>2. ~ Sharing
    BY <1>1, NumbersStay
  <2>. QED BY <2>1, <2>2, Basics DEF IInv
<1>3. /\ mode = "threads" /\ running \in Threads
      /\ Lib!At(running) = "user" /\ Stops(running)
      /\ \A t \in Threads \ {running} :
           /\ Lib!At(t) \in {"none", "done"} \/ Lib!CvBlocked(t)
           /\ frame'[t] = frame[t]
  BY <1>1, HowItEnds DEF Died
<1>. DEFINE Waits(t) == (t \in Requesters /\ (WaitForRoom(t) \/ WaitUntilServed(t))) \/ WaitForRequests
<1>4. /\ active' = active
      /\ ~ Waits(running) => /\ pc' = pc /\ frame'[running].at = "done"
                             /\ BootReturns \/ Return(running) \/ ReturnLocked
  BY <1>3, LastWaiterIsStuck DEF Stops, BootReturns, Return, ReturnLocked, data
<1>5. \A t \in Threads : pc[t] # "failed"
  <2>1. CASE Waits(running)
    <3>1. \A p \in Requesters : pc[p] # "failed"
      BY <1>1, <2>1, LastWaiterIsStuck
    <3>2. pc[Service] # "failed"
      <4>1. CASE WaitForRequests
        BY <4>1 DEF WaitForRequests, InLoop
      <4>2. CASE ~ WaitForRequests
        BY <1>1, <1>2, <2>1, <4>2 DEF WaitForRoom, WaitUntilServed, Step, Goto
      <4>. QED BY <4>1, <4>2
    <3>. QED BY <1>2, <3>1, <3>2 DEF Places
  <2>. QED BY <1>1, <1>4, <2>1
<1>6. \A t \in Threads \ {running} : Lib!At(t) = "done" \/ Lib!CvBlocked(t)
  <2>1. Uncreated = {}
    <3>1. CASE Boot = running
      <4>1. ~ Waits(Boot) /\ ~ Return(Boot) /\ ~ ReturnLocked
        BY <1>2, <3>1 DEF WaitForRequests, Return, ReturnLocked, Places, Step, Call
      <4>. QED BY <1>4, <3>1, <4>1 DEF BootReturns
    <3>2. CASE Boot # running
      <4>1. ~ Lib!CvBlocked(Boot)
        BY <1>2, <1>3, Sleepers DEF Lib!CvBlocked, Sections, Places, Blocks
      <4>. QED BY <1>2, <1>3, <3>2, <4>1 DEF Lives
    <3>. QED BY <3>1, <3>2
  <2>. QED BY <1>3, <1>5, <2>1 DEF Uncreated
<1>7. CASE active = 0
  <2>1. \A p \in Requesters : file'[p] = <<>>
    BY <1>7, NobodyLeftStep DEF NothingLeft
  <2>2. \A p \in Requesters : pc[p] \in {"last", "end"}
    BY <1>7, NoneActive
  <2>3. ASSUME NEW p \in Requesters, p # running PROVE frame'[p].at = "done"
    <3>1. ~ Lib!CvBlocked(p)
      BY <1>2, <1>3, <2>2, Sleepers DEF Lib!CvBlocked, Sections, Blocks
    <3>. QED BY <1>3, <1>6, <2>3, <3>1 DEF Lib!At
  <2>4. ASSUME running \in Requesters PROVE frame'[running].at = "done"
    <3>1. ~ Waits(running)
      BY <2>2, <2>4 DEF WaitForRoom, WaitUntilServed, WaitForRequests, Step, Call
    <3>. QED BY <1>4, <3>1
  <2>. QED BY <2>1, <2>3, <2>4
<1>8. CASE active # 0
  <2>1. pc[Service] # "end" /\ Lib!At(Service) # "done"
    BY <1>8, NoneActive DEF IInv, ServiceOutlivesRequesters
  <2>2. ~ (running = Service /\ ~ Waits(running))
    BY <1>4, <1>8, <2>1 DEF BootReturns, Return, ReturnLocked, Call
  <2>3. \/ pc[Service] # "signal"
        \/ Lib!At(Service) \in {"none", "done"} \/ Lib!CvBlocked(Service)
    BY <1>3, <2>2, LastWaiterIsStuck
  <2>4. ASSUME NEW t \in Threads \ {running}, Lib!CvBlocked(t)
        PROVE  \/ t \in Requesters /\ pc[t] = "room" /\ IsFull(queue)
               \/ t \in Requesters /\ pc[t] = "await" /\ ~ executed[t]
               \/ t = Service /\ pc[t] = "full" /\ Len(queue) < MaxSize
               \/ t = Service /\ pc[t] = "all" /\ Len(queue) < active /\ active <= MaxSize
    BY <1>2, <1>3, <2>3, <2>4, SleepersAreStuck
  <2>5. \/ pc'[Service] = "full" /\ Len(queue) < MaxSize
        \/ pc'[Service] = "all" /\ Len(queue) < active /\ active <= MaxSize
    <3>1. CASE running = Service
      BY <2>2, <3>1, LastWaiterIsStuck
    <3>2. CASE running # Service
      <4>1. pc'[Service] = pc[Service]
        BY <1>4, <3>2, LastWaiterIsStuck
      <4>2. Lib!CvBlocked(Service)
        BY <1>6, <2>1, <3>2
      <4>. QED BY <2>4, <3>2, <4>1, <4>2
    <3>. QED BY <3>1, <3>2
  <2>6. Len(queue) \in Nat /\ Len(queue) < MaxSize /\ Len(queue) < active
    BY <1>1, <1>2, <1>4, <2>5, ListHoldsPresent
  <2>7. ~ IsFull(queue)
    BY <2>6 DEF IsFull
  <2>8. ASSUME NEW p \in Present PROVE pc[p] = "await" /\ ~ executed[p]
    <3>1. p \in Requesters /\ pc[p] \notin {"last", "end"}
      BY <2>8 DEF Present
    <3>2. CASE p # running
      <4>1. Lib!CvBlocked(p)
        BY <1>2, <1>6, <3>1, <3>2 DEF Lives
      <4>. QED BY <2>4, <2>7, <3>1, <3>2, <4>1
    <3>3. CASE p = running
      <4>1. Waits(running)
        BY <1>4, <3>1, <3>3 DEF BootReturns, Return, ReturnLocked, Call
      <4>. QED BY <2>7, <3>1, <3>3, <4>1, LastWaiterIsStuck
    <3>. QED BY <3>2, <3>3
  <2>9. active <= Len(queue)
    BY <2>8, ListHoldsPresent
  <2>. QED BY <1>2, <2>6, <2>9
<1>. QED BY <1>7, <1>8

-----------------------------------------------------------------------------
(* The invariant holds of every state the scheduler can reach.             *)

LEMMA TypesStep ==
  ASSUME IInv, Moves
  PROVE  TypeOK'
<1>1. /\ Lib!TypeOK' /\ pc' \in [Threads -> PCs]
      /\ threadNum' \in -1 .. N - 1 /\ id' \in [Requesters -> -1 .. N - 1]
      /\ executed' \in [Requesters -> BOOLEAN] /\ active' \in 0 .. N
  BY LibraryStep, PlacesStep, NumberingStep, TasksStep, CountingStep
<1>2. Range(queue') \subseteq Entry
  <2>1. queue' \in Seq(Entry)
    BY TasksStep DEF Tasks
  <2>2. \A i \in DOMAIN queue' : queue'[i] \in Entry
    BY <2>1, LenProperties, ElementOfSeq
  <2>. QED BY <2>2 DEF Range
<1>. QED BY <1>1, <1>2 DEF TypeOK, Entry, PCs, ServicePlaces, RequesterPlaces

LEMMA MovesInv == IInv /\ Moves => IInv'
<1>. SUFFICES ASSUME IInv, Moves PROVE IInv'
  OBVIOUS
<1>1. TypeOK' /\ Library' /\ Sections(Locked, Blocks)' /\ Places'
  BY TypesStep, LibraryStep, SectionsStep, PlacesStep
<1>2. Numbering' /\ Tasks' /\ Counting' /\ Bounded' /\ Tracks' /\ PopsARequest'
  BY NumberingStep, TasksStep, CountingStep, BoundedStep, TracksStep, PopsARequestStep
<1>3. Conditions' /\ NoMissedSignal' /\ Wakeups' /\ Lives'
  BY ConditionsStep, NoMissedSignalStep, WakeupsStep, LivesStep
<1>4. ServiceOutlivesRequesters' /\ Leaks' /\ StrandedOnlyByKnownDefects'
  BY ServiceOutlivesStep, LeaksStep, StrandedStep
<1>. QED BY <1>1, <1>2, <1>3, <1>4 DEF IInv

LEMMA StutterInv == IInv /\ UNCHANGED vars => IInv'
<1>. SUFFICES ASSUME IInv, UNCHANGED vars PROVE IInv'
  OBVIOUS
<1>. USE DEF vars, libVars, data, numbers, IInv
<1>1. TypeOK'
  BY DEF TypeOK, Lib!TypeOK
<1>2. Library'
  BY LibKept DEF Library, Died
<1>3. Sections(Locked, Blocks)' /\ Places'
  BY DEF Sections, Places, Lib!At
<1>4. Numbering' /\ Tasks' /\ Counting' /\ Bounded'
  BY DEF Numbering, Stored, Tasks, OneOutstanding, Counting, Present, Bounded
<1>5. Tracks' /\ PopsARequest'
  BY DEF Tracks, TracksFit, PopsARequest
<1>6. Conditions' /\ Wakeups' /\ Lives'
  BY DEF Conditions, Wakeups, Lives, Numbered, Uncreated, Lib!At, IsFull
<1>7. NoMissedSignal' /\ StrandedOnlyByKnownDefects'
  BY DEF NoMissedSignal, StrandedOnlyByKnownDefects, Sharing, Numbered, Lib!CvBlocked, Lib!At
<1>8. ServiceOutlivesRequesters' /\ Leaks'
  BY DEF ServiceOutlivesRequesters, Leaks, LeakIsHarmless, Lib!At
<1>. QED BY <1>1, <1>2, <1>3, <1>4, <1>5, <1>6, <1>7, <1>8

LEMMA StepInv == IInv /\ [Next]_vars => IInv'
BY MovesInv, StutterInv DEF Next, Moves, Exited

LEMMA Invariance == Spec => []IInv
BY InitIInv, StepInv, PTL DEF Spec

-----------------------------------------------------------------------------
(* The theorems.                                                           *)

(* Every variable of main.cpp has its type; no thread_num and no           *)
(* cur_thread exceeds the number of requesters.                            *)
THEOREM SchedulerTypes == Spec => []TypeOK
BY Invariance, PTL DEF IInv

(* Wherever main.cpp is between thread_lock(1) and thread_unlock(1), and   *)
(* nowhere else, the thread that executes has the lock.                    *)
THEOREM SchedulerHasTheLock == Spec => []CriticalSections
<1>1. IInv => CriticalSections
  <2>. SUFFICES ASSUME IInv, mode = "threads", Lib!At(running) = "user"
                PROVE  1 \in locks[running] <=> pc[running] \in Locked
    BY DEF CriticalSections, Locked
  <2>1. running \in Threads /\ Sections(Locked, Blocks)
    BY DEF IInv, TypeOK, Lib!TypeOK
  <2>. QED BY <2>1 DEF Sections
<1>. QED BY <1>1, Invariance, PTL

(* A requester never has two requests in the list, and has one exactly     *)
(* from its append to the mark of the service thread.                      *)
THEOREM RequestersAskOnce == Spec => []OneOutstanding
<1>1. IInv => OneOutstanding
  BY DEF IInv, Tasks
<1>. QED BY <1>1, Invariance, PTL

(* active_producer is the number of requesters that have not said goodbye, *)
(* and bounds the list, as max_size does.                                  *)
THEOREM CountIsRight == Spec => []ActiveCount
<1>1. IInv => ActiveCount
  BY ListHoldsPresent DEF IInv, ActiveCount, Counting, Present, Bounded
<1>. QED BY <1>1, Invariance, PTL

(* A requester whose task was executed does not sleep, but for the signal  *)
(* that is on its way, or for another requester with its number.           *)
THEOREM NoLostWakeup == Spec => []NoMissedSignal
<1>1. IInv => NoMissedSignal
  BY DEF IInv
<1>. QED BY <1>1, Invariance, PTL

(* The process ends with all work done, or for one of the known reasons.   *)
THEOREM StrandsOnlyAsKnown == Spec => []StrandedOnlyByKnownDefects
<1>1. IInv => StrandedOnlyByKnownDefects
  BY DEF IInv
<1>. QED BY <1>1, Invariance, PTL

(* The lock the service thread may return with is asked for by nobody.     *)
THEOREM LeakedLockIsUnused == Spec => []LeakIsHarmless
<1>1. IInv => LeakIsHarmless
  BY DEF IInv, Leaks
<1>. QED BY <1>1, Invariance, PTL

(* pop finds a request whenever the service thread calls it.               *)
THEOREM PopFindsARequest == Spec => []PopsARequest
<1>1. IInv => PopsARequest
  BY DEF IInv
<1>. QED BY <1>1, Invariance, PTL

(* The service thread ends after everything was requested and served.      *)
THEOREM ServiceEndsLast == Spec => []ServiceOutlivesRequesters
<1>1. IInv => ServiceOutlivesRequesters
  BY DEF IInv
<1>. QED BY <1>1, Invariance, PTL

-----------------------------------------------------------------------------
(* main.cpp implements NearestFirst: the list of the abstract scheduler is *)
(* the list without the numbers.                                           *)
Pending(q) == [i \in DOMAIN q |-> [track |-> q[i].track, requester |-> q[i].requester]]
Asked      == [track : Ints, requester : Requesters]

LEMMA PendingIsASeq ==
  ASSUME NEW q \in Seq(Entry)
  PROVE  /\ Pending(q) \in Seq(Asked) /\ Len(Pending(q)) = Len(q)
         /\ DOMAIN Pending(q) = 1 .. Len(q)
         /\ \A i \in 1 .. Len(q) :
              Pending(q)[i] = [track |-> q[i].track, requester |-> q[i].requester]
<1>1. Len(q) \in Nat /\ DOMAIN q = 1 .. Len(q) /\ \A i \in 1 .. Len(q) : q[i] \in Entry
  BY LenProperties, ElementOfSeq
<1>2. Pending(q) \in [1 .. Len(q) -> Asked]
  BY <1>1 DEF Pending, Entry, Asked
<1>3. Pending(q) \in Seq(Asked)
  BY <1>1, <1>2, SeqDef
<1>4. DOMAIN Pending(q) = 1 .. Len(Pending(q)) /\ Len(Pending(q)) \in Nat
  BY <1>3, LenProperties
<1>5. Len(Pending(q)) = Len(q)
  BY <1>1, <1>2, <1>4
<1>. QED BY <1>1, <1>2, <1>3, <1>5 DEF Pending

LEMMA PendingAppend ==
  ASSUME NEW q \in Seq(Entry), NEW e \in Entry
  PROVE  Pending(Append(q, e)) = Append(Pending(q), [track |-> e.track, requester |-> e.requester])
<1>. DEFINE a == [track |-> e.track, requester |-> e.requester]
            r == Append(q, e)
            s == Append(Pending(q), a)
<1>1. /\ Len(q) \in Nat /\ r \in Seq(Entry) /\ Len(r) = Len(q) + 1
      /\ \A i \in 1 .. Len(q) : r[i] = q[i]
      /\ r[Len(q) + 1] = e
  BY LenProperties, AppendProperties
<1>2. a \in Asked
  BY DEF Entry, Asked
<1>3. /\ Pending(q) \in Seq(Asked) /\ Len(Pending(q)) = Len(q)
      /\ \A i \in 1 .. Len(q) :
           Pending(q)[i] = [track |-> q[i].track, requester |-> q[i].requester]
  BY PendingIsASeq
<1>4. /\ s \in Seq(Asked) /\ Len(s) = Len(q) + 1
      /\ \A i \in 1 .. Len(q) : s[i] = Pending(q)[i]
      /\ s[Len(q) + 1] = a
  BY <1>2, <1>3, AppendProperties
<1>. HIDE DEF r, s
<1>5. /\ Pending(r) \in Seq(Asked) /\ Len(Pending(r)) = Len(r)
      /\ \A i \in 1 .. Len(r) :
           Pending(r)[i] = [track |-> r[i].track, requester |-> r[i].requester]
  BY <1>1, PendingIsASeq
<1>6. \A i \in 1 .. Len(Pending(r)) : Pending(r)[i] = s[i]
  <2>. TAKE i \in 1 .. Len(Pending(r))
  <2>1. CASE i \in 1 .. Len(q)
    BY <1>1, <1>3, <1>4, <1>5, <2>1
  <2>2. CASE i = Len(q) + 1
    BY <1>1, <1>4, <1>5, <2>2
  <2>. QED BY <1>1, <1>5, <2>1, <2>2
<1>7. Pending(r) = s
  BY <1>1, <1>4, <1>5, <1>6, SeqEqual
<1>. QED BY <1>7 DEF r, s

LEMMA PendingRemove ==
  ASSUME NEW q \in Seq(Entry), NEW i \in 1 .. Len(q)
  PROVE  Pending(RemoveAt(q, i)) = RemoveAt(Pending(q), i)
<1>. DEFINE r == RemoveAt(q, i)
            s == RemoveAt(Pending(q), i)
<1>1. /\ Len(q) \in Nat /\ r \in Seq(Entry) /\ Len(r) = Len(q) - 1
      /\ \A j \in 1 .. Len(q) - 1 : r[j] = IF j < i THEN q[j] ELSE q[j + 1]
  BY LenProperties, RemoveAtProperties
<1>2. /\ Pending(q) \in Seq(Asked) /\ Len(Pending(q)) = Len(q)
      /\ \A j \in 1 .. Len(q) :
           Pending(q)[j] = [track |-> q[j].track, requester |-> q[j].requester]
  BY PendingIsASeq
<1>3. /\ s \in Seq(Asked) /\ Len(s) = Len(q) - 1
      /\ \A j \in 1 .. Len(q) - 1 : s[j] = IF j < i THEN Pending(q)[j] ELSE Pending(q)[j + 1]
  BY <1>2, RemoveAtProperties
<1>. HIDE DEF r, s
<1>4. /\ Pending(r) \in Seq(Asked) /\ Len(Pending(r)) = Len(r)
      /\ \A j \in 1 .. Len(r) :
           Pending(r)[j] = [track |-> r[j].track, requester |-> r[j].requester]
  BY <1>1, PendingIsASeq
<1>5. \A j \in 1 .. Len(Pending(r)) : Pending(r)[j] = s[j]
  <2>. TAKE j \in 1 .. Len(Pending(r))
  <2>1. j \in 1 .. Len(q) - 1 /\ j \in 1 .. Len(q) /\ j + 1 \in 1 .. Len(q)
    BY <1>1, <1>4
  <2>. QED BY <1>1, <1>2, <1>3, <1>4, <2>1
<1>6. Pending(r) = s
  BY <1>1, <1>3, <1>4, <1>5, SeqEqual
<1>. QED BY <1>6 DEF r, s

(* What the steps do to what NearestFirst is about.                        *)
Unseen == UNCHANGED <<file, queue>> /\ Present' = Present /\ current'.track = current.track

LEMMA MovesOnTheList ==
  ASSUME IInv, Moves, MaxSize > 0, TracksFit
  PROVE  Unseen \/ Serve \/ \E p \in Requesters : Request(p) \/ Leave(p)
<1>. USE Constants
<1>1. pc \in [Threads -> PCs]
  BY Basics DEF IInv
<1>2. ASSUME UNCHANGED <<file, queue, current>>, NEW t \in Threads, NEW to \in PCs, Goto(t, to),
             pc[t] \in {"last", "end"} <=> to \in {"last", "end"}
      PROVE  Unseen
  <2>1. \A p \in Requesters : pc'[p] = IF p = t THEN to ELSE pc[p]
    BY <1>1, <1>2 DEF Goto
  <2>2. Present' = Present
    BY <1>2, <2>1 DEF Present
  <2>. QED BY <1>2, <2>2 DEF Unseen
<1>3. ASSUME ThreadStep, UNCHANGED data PROVE Unseen
  <2>1. CASE pc' = pc
    BY <1>3, <2>1 DEF Present, data, Unseen
  <2>. QED BY <1>2, <1>3, <2>1, ThreadStepFacts DEF Goto, PCs, ServicePlaces, RequesterPlaces, data
<1>. USE DEF Step, Die, data
<1>4. ASSUME NEW p \in Requesters, RequesterStep(p)
      PROVE  Unseen \/ Request(p) \/ Leave(p)
  <2>1. CASE \/ LoadNum(p) \/ StoreNum(p) \/ ReadNum(p) \/ ReadNull(p) \/ ReadLine(p)
             \/ WaitForRoom(p) \/ WaitUntilServed(p) \/ NextRequest(p) \/ LastUnlock(p)
    BY <1>2, <2>1 DEF LoadNum, StoreNum, ReadNum, ReadNull, ReadLine, WaitForRoom,
                      WaitUntilServed, NextRequest, LastUnlock, PCs, RequesterPlaces
  <2>. QED BY <1>4, <2>1 DEF RequesterStep
<1>5. ASSUME ServiceStep PROVE Unseen \/ Serve
  <2>1. ~ PopWild
    BY PopSucceeds DEF PopWild
  <2>2. \A p \in Requesters : pc'[p] = pc[p]
    BY <1>1, <1>5, <2>1 DEF ServiceStep, Begin, WaitForRequests, Serve, SignalServed,
                      LastRequestServed, ReturnLocked, Goto
  <2>3. Present' = Present
    BY <2>2 DEF Present
  <2>. QED BY <1>5, <2>1, <2>3 DEF ServiceStep, Begin, WaitForRequests, SignalServed,
                      LastRequestServed, ReturnLocked, Unseen
<1>. QED BY <1>3, <1>4, <1>5 DEF Moves

LEMMA StepImplements ==
  ASSUME IInv, [Next]_vars, MaxSize > 0, TracksFit
  PROVE  [Scheduler!Next]_(Scheduler!vars)
<1>. USE Constants
<1>1. /\ pc \in [Threads -> PCs] /\ queue \in Seq(Entry) /\ current.track \in Ints
      /\ active = Cardinality(Present) /\ OneOutstanding
      /\ \A p \in Requesters : /\ pc[p] = "room" => file[p] \notin {None, <<>>}
                               /\ pc[p] \in {"leave", "last", "end"} => file[p] = <<>>
      /\ file \in [Requesters -> Seq(Ints) \cup {None}]
  BY Basics DEF IInv, Tasks, Counting, Tracks
<1>2. /\ Len(queue) \in Nat /\ DOMAIN queue = 1 .. Len(queue)
      /\ Len(Pending(queue)) = Len(queue) /\ DOMAIN Pending(queue) = DOMAIN queue
      /\ \A i \in DOMAIN queue :
           Pending(queue)[i] = [track |-> queue[i].track, requester |-> queue[i].requester]
  BY <1>1, LenProperties, PendingIsASeq
<1>3. ASSUME Unseen \/ UNCHANGED vars PROVE UNCHANGED Scheduler!vars
  <2>1. /\ UNCHANGED <<file, queue>> /\ current'.track = current.track
        /\ {p \in Requesters : pc'[p] \notin {"last", "end"}} = {p \in Requesters : pc[p] \notin {"last", "end"}}
    BY <1>3 DEF Unseen, Present, vars, data
  <2>. QED BY <2>1 DEF Scheduler!vars
<1>4. ASSUME NEW p \in Requesters, Request(p) PROVE Scheduler!Ask(p)
  <2>1. /\ pc[p] = "room" /\ pc' = [pc EXCEPT ![p] = "await"] /\ ~ IsFull(queue)
        /\ queue' = Append(queue, Task(p)) /\ file' = [file EXCEPT ![p] = Tail(@)]
        /\ current' = current
    BY <1>4 DEF Request, Step, Goto, Appended
  <2>2. file[p] \notin {None, <<>>} /\ file[p] \in Seq(Ints)
    BY <1>1, <2>1
  <2>3. Task(p) \in Entry
    <3>1. queue' \in Seq(Entry) /\ Task(p) = queue'[Len(queue) + 1] /\ Len(queue') = Len(queue) + 1
      <4>1. queue' \in Seq(Entry)
        BY <1>4, TasksStep DEF Tasks, Moves, RequesterStep
      <4>2. queue \in Seq(Entry \cup {Task(p)}) /\ Task(p) \in Entry \cup {Task(p)}
        BY <1>1, <1>2, LenProperties, ElementOfSeq
      <4>. QED BY <2>1, <4>1, <4>2, AppendProperties
    <3>. QED BY <1>2, <3>1, ElementOfSeq
  <2>4. Pending(queue') = Append(Pending(queue), [track |-> Head(file[p]), requester |-> p])
    BY <1>1, <2>1, <2>3, PendingAppend DEF Task
  <2>5. p \in Present /\ Present' = Present
    BY <1>1, <2>1 DEF Present
  <2>6. ~ \E i \in DOMAIN Pending(queue) : Pending(queue)[i].requester = p
    BY <1>1, <1>2, <2>1 DEF OneOutstanding
  <2>7. Len(Pending(queue)) < MaxSize
    BY <1>2, <2>1 DEF IsFull
  <2>. QED BY <2>1, <2>2, <2>4, <2>5, <2>6, <2>7
           DEF Scheduler!Ask, Scheduler!HasRequest, Pending, Present
<1>5. ASSUME NEW p \in Requesters, Leave(p) PROVE Scheduler!Leave(p)
  <2>1. /\ pc[p] = "leave" /\ pc' = [pc EXCEPT ![p] = "last"]
        /\ UNCHANGED <<file, queue, current>>
    BY <1>5 DEF Leave, Step, Goto
  <2>2. p \in Present /\ Present' = Present \ {p}
    BY <1>1, <2>1 DEF Present
  <2>3. ~ \E i \in DOMAIN Pending(queue) : Pending(queue)[i].requester = p
    BY <1>1, <1>2, <2>1 DEF OneOutstanding
  <2>. QED BY <1>1, <2>1, <2>2, <2>3 DEF Scheduler!Leave, Scheduler!HasRequest, Pending, Present
<1>6. ASSUME Serve PROVE Scheduler!Serve
  <2>1. /\ InLoop /\ ~ TooFew /\ active # 0 /\ file' = file
        /\ \A p \in Requesters : pc'[p] = pc[p]
    BY <1>1, <1>6 DEF Serve, Step, Goto
  <2>2. PICK i \in PopChoices(queue, current.track) \ {0} :
          queue' = RemoveAt(queue, i) /\ current' = queue[i]
    BY <1>6 DEF Serve
  <2>3. IsNearest(queue, current.track, i) /\ i \in DOMAIN queue
    BY <2>1, <2>2, PopSucceeds DEF IsNearest
  <2>4. Len(Pending(queue)) >= MaxSize \/ Len(Pending(queue)) >= Scheduler!Cardinality(Present)
    <3>1. Scheduler!Cardinality(Present) = Cardinality(Present)
      BY DEF Scheduler!Cardinality, Cardinality
    <3>. QED BY <1>1, <1>2, <2>1, <3>1, PopSucceeds
  <2>5. Pending(queue') = RemoveAt(Pending(queue), i)
    BY <1>1, <1>2, <2>2, <2>3, PendingRemove
  <2>6. Scheduler!IsNearest(Pending(queue), current.track, i)
    BY <1>2, <2>3 DEF IsNearest, Scheduler!IsNearest, Distance, Scheduler!Distance
  <2>7. Present' = Present /\ i \in DOMAIN Pending(queue)
        /\ current'.track = Pending(queue)[i].track
    BY <1>2, <2>1, <2>2, <2>3 DEF Present
  <2>. QED BY <2>1, <2>4, <2>5, <2>6, <2>7
           DEF Scheduler!Serve, Pending, Present, RemoveAt, Scheduler!RemoveAt
<1>7. CASE Moves
  BY <1>3, <1>4, <1>5, <1>6, <1>7, MovesOnTheList DEF Scheduler!Next
<1>8. CASE UNCHANGED vars
  BY <1>3, <1>8
<1>. QED BY <1>7, <1>8 DEF Next, Moves, Exited

LEMMA InitImplements == Init => Scheduler!Init
<1>. SUFFICES ASSUME Init PROVE Scheduler!Init
  OBVIOUS
<1>1. /\ file \in [Requesters -> Seq(Ints) \cup {None}]
      /\ queue = <<>> /\ current.track = 0
      /\ \A p \in Requesters : pc[p] = "open"
  BY SchedulerAssumption, Constants DEF Init, InitThreads
<1>2. {p \in Requesters : pc[p] \notin {"last", "end"}} = Requesters
  BY <1>1
<1>3. [i \in DOMAIN queue |-> [track |-> queue[i].track, requester |-> queue[i].requester]] = <<>>
  BY <1>1
<1>4. Scheduler!Ints = Ints
  BY DEF Scheduler!Ints, Ints, Scheduler!IntMin, IntMin
<1>. QED BY <1>1, <1>2, <1>3, <1>4 DEF Scheduler!Init

(* If the list has room and no distance wraps, main.cpp does nothing that  *)
(* a nearest-first scheduler may not do: each requester's tracks are asked *)
(* for in order and once, and what is served is the nearest request of a   *)
(* list that is full, or holds a request of everyone who is left.          *)
THEOREM SchedulerIsNearestFirst ==
  MaxSize > 0 /\ TracksFit => (Spec => ImplementsNearestFirst)
<1>. SUFFICES ASSUME MaxSize > 0, TracksFit PROVE Spec => ImplementsNearestFirst
  OBVIOUS
<1>1. IInv /\ [Next]_vars => [Scheduler!Next]_(Scheduler!vars)
  BY StepImplements
<1>. QED BY <1>1, InitImplements, Invariance, PTL DEF Spec, ImplementsNearestFirst, Scheduler!Spec
=============================================================================
