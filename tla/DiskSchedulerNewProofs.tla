----------------------- MODULE DiskSchedulerNewProofs -----------------------
(***************************************************************************)
(* Theorems about DiskSchedulerNew, for any number of producers, any       *)
(* files, any maxSize and any number of failures; and about ReadFile, from *)
(* which the producers have their tracks, for files of any length.         *)
(***************************************************************************)
EXTENDS DiskSchedulerNew, SchedulerThreadsProofs, ReadFile

-----------------------------------------------------------------------------
(* The inductive invariant.                                                *)

(* A thread that dies takes the process with it; until then the invariant  *)
(* of the thread library holds.                                            *)
Died == \E t \in Threads : pc[t] = "died"

Library ==
  /\ Died => mode = "exited"
  /\ ~ Died => LibInv

(* Where the code has lock 1, and where it may wait inside a library call. *)
Locked == {"produce", "room", "await", "last", "loop", "wait", "signal"}
Blocks == {"produce", "room", "await", "loop", "wait"}

ServicePlaces   == {"begin", "loop", "wait", "signal", "end", "failed", "died"}
RequesterPlaces == {"open", "produce", "room", "await", "last", "end", "failed", "died"}
PCs == ServicePlaces \cup RequesterPlaces

Places ==
  /\ pc \in [Threads -> PCs]
  /\ pc[Boot] = "begin"
  /\ pc[Service] \in ServicePlaces
  /\ \A p \in Requesters : pc[p] \in RequesterPlaces

Present  == {p \in Requesters : pc[p] \notin {"last", "end"}}
Counting == active \in 0 .. N /\ active = Cardinality(Present)

(* The requests in the list are those of the producers that wait, who wait *)
(* for good.                                                               *)
Entry    == [track : Ints, requester : Requesters]
Awaiting == {p \in Requesters : pc[p] = "await"}

Requests ==
  /\ queue \in Seq(Entry)
  /\ Len(queue) = Cardinality(Awaiting)
  /\ \A i \in DOMAIN queue : queue[i].requester \in Awaiting

Tracks ==
  /\ file \in [Requesters -> Seq(Ints) \cup {None}]
  /\ \A p \in Requesters :
       /\ pc[p] = "produce" => file[p] # None
       /\ pc[p] = "room"    => file[p] \notin {None, <<>>}

(* Who sleeps does so for a reason that still holds, until a broadcast is  *)
(* under way.  A full list stays full.                                     *)
Sleeping ==
  /\ \A i \in DOMAIN cv :
       /\ pc[cv[i].ct] \in {"room", "await", "wait"}
       /\ pc[cv[i].ct] = "room" => IsFull(queue)
       /\ pc[cv[i].ct] = "wait" => cv[i].cond = 1
  /\ \A t \in Threads : Lib!At(t) = "broadcast" => frame[t].cond = 1
  /\ (\A t \in Threads : Lib!At(t) # "broadcast") =>
       \A i \in DOMAIN cv : pc[cv[i].ct] = "wait" => TooFew

(* The consumer that waits knows that the list has room for a request, the *)
(* one that has left that nobody will ask.                                 *)
Consuming ==
  /\ task \in {"null", "wild"}
  /\ pc[Service] = "wait" => MaxSize > 0
  /\ pc[Service] = "end" => queue = <<>> /\ active = 0

(* After the first pop of the empty list the consumer goes round its loop  *)
(* with the lock.                                                          *)
Spinning ==
  task = "wild" =>
    /\ queue = <<>> /\ active > 0 /\ ~ TooFew
    /\ 1 \in locks[Service]
    /\ pc[Service] \in {"signal", "loop", "died"}

(* Before thread_libinit nobody runs; after it, the first thread ends only *)
(* when it has tried to create the others, and any other only when its     *)
(* function returns, without the lock.                                     *)
Lives ==
  /\ mode = "main" => running = None
  /\ mode = "threads" => Lib!At(Boot) # "none"
  /\ Lib!At(Boot) = "done" => Uncreated = {}
  /\ \A t \in Threads \ {Boot} : Lib!At(t) = "done" => pc[t] = "end"
  /\ leaked = {}

IInv ==
  /\ Lib!TypeOK
  /\ Library
  /\ Sections(Locked, Blocks)
  /\ Places
  /\ Counting
  /\ Requests
  /\ Tracks
  /\ Sleeping
  /\ Consuming
  /\ Spinning
  /\ Lives
  /\ EndsWellOnlyIfUnused

-----------------------------------------------------------------------------
(* What every proof below needs of a state, and of a call.                 *)
LEMMA Constants ==
  /\ N \in Nat /\ MaxSize \in Int
  /\ Boot \in Threads /\ Service \in Threads /\ Boot # Service
  /\ Boot \notin Requesters /\ Service \notin Requesters
  /\ Threads = Requesters \cup {Boot, Service}
  /\ \A p \in Requesters : p \in Threads /\ p # Boot /\ p # Service /\ p - 1 \in Conds
  /\ None \notin Threads /\ 1 \in Locks /\ 1 \in Conds
  /\ IsFiniteSet(Requesters) /\ Cardinality(Requesters) = N
<1>1. /\ N \in Nat /\ MaxSize \in Int
      /\ Boot # Service /\ {Boot, Service} \cap Requesters = {}
      /\ None \notin Threads
  BY SchedulerAssumption, MaxSizeAssumption
<1>2. IsFiniteSet(Requesters) /\ Cardinality(Requesters) = N
  BY <1>1, FS_Interval DEF Requesters
<1>3. \A p \in Requesters : p - 1 \in Conds
  BY <1>1 DEF Requesters, Conds
<1>. QED BY <1>1, <1>2, <1>3 DEF Threads, Conds, Locks

LEMMA Basics ==
  ASSUME IInv
  PROVE  /\ pc \in [Threads -> PCs] /\ active \in 0 .. N
         /\ frame \in [Threads -> Lib!Frames] /\ locks \in [Threads -> SUBSET Locks]
BY DEF IInv, Lib!TypeOK, Places, Counting

(* A thread that calls has lock 1 exactly where its code says so, and then *)
(* no other thread is in a critical section but inside a call that waits.  *)
LEMMA CallerFacts ==
  ASSUME IInv, NEW t, Call(t)
  PROVE  /\ Calling(t, PCs) /\ LibInv /\ ~ Died
         /\ t \in Threads /\ t = running /\ mode = "threads" /\ Lib!At(t) = "user"
         /\ 1 \in locks[t] <=> pc[t] \in Locked
         /\ \A u \in Threads \ {t} :
              /\ Lib!At(u) \notin {"user", "broadcast"}
              /\ 1 \in locks[t] => 1 \notin locks[u]
<1>1. mode = "threads" /\ LibInv /\ ~ Died /\ Calling(t, PCs)
  BY Basics DEF IInv, Call, Lib!Enter, Library, Calling
<1>2. /\ t \in Threads /\ t = running /\ Lib!At(t) = "user"
      /\ Lib!MutualExclusion /\ Lib!MaskDiscipline
  BY <1>1, CallFacts, LibFacts
<1>3. 1 \in locks[t] <=> pc[t] \in Locked
  BY <1>1, <1>2 DEF IInv, Sections
<1>. QED
  BY <1>1, <1>2, <1>3 DEF Lib!MutualExclusion, Lib!MaskDiscipline

LEMMA ThreadsAlive == ASSUME IInv, ThreadStep PROVE mode # "exited" /\ ~ Died /\ LibInv
<1>1. mode # "exited"
  BY DEF ThreadStep, Main, Create, Libinit, LibinitFails, MainReturns, CreateNext,
         CreateFails, BootReturns, Preempt, Finish, Return, Call, Lib!Enter, Lib!Inside,
         Lib!Libinit, Lib!LibinitFails, Lib!MainReturns, Lib!Yield, Lib!Resume,
         Lib!Start, Lib!ResumeYield, Lib!ResumeLock, Lib!ResumeWait,
         Lib!ResumeRelock, Lib!BroadcastWake, Lib!BroadcastReturn
<1>. QED BY <1>1 DEF IInv, Library

(* A step of main, of first_thread_start_function or of the library leaves *)
(* every thread's code where it is, or gives up one that never began.      *)
LEMMA ThreadStepFacts ==
  ASSUME IInv, ThreadStep
  PROVE  \/ pc' = pc
         \/ \E t \in Threads \ {Boot} :
              /\ pc[t] \in {"open", "begin"} /\ Lib!At(t) = "none"
              /\ pc' = [pc EXCEPT ![t] = "failed"]
<1>1. CASE CreateFails
  <2>1. Call(Boot) /\ Uncreated # {} /\ Goto(NextThread, "failed")
    BY <1>1 DEF CreateFails
  <2>2. Lib!TypeOK /\ Lib!At(Boot) = "user" /\ mode = "threads"
    BY <2>1, CallerFacts DEF IInv
  <2>3. NextThread \in Threads /\ Lib!At(NextThread) = "none" /\ pc[NextThread] # "failed"
    BY <2>1, <2>2, NextThreadIsUncreated DEF Uncreated
  <2>4. NextThread # Boot
    BY <2>2, <2>3
  <2>5. pc[NextThread] \in {"open", "begin"}
    BY <2>2, <2>3 DEF IInv, Sections
  <2>. QED BY <2>1, <2>3, <2>4, <2>5 DEF Goto
<1>2. CASE ThreadStep /\ ~ CreateFails
  BY <1>2 DEF ThreadStep, Main, Create, Libinit, LibinitFails, MainReturns, CreateNext,
              BootReturns, Preempt, Finish, Return
<1>. QED BY <1>1, <1>2

-----------------------------------------------------------------------------
LEMMA InitIInv == Init => IInv
<1>. SUFFICES ASSUME Init PROVE IInv
  OBVIOUS
<1>. USE Constants DEF Init, InitThreads
<1>1. LibInv /\ Lib!TypeOK
  BY LibInitInv, LibFacts
<1>2. /\ mode = "main" /\ running = None /\ leaked = {} /\ cv = <<>>
      /\ \A t \in Threads : frame[t].at = "none" /\ locks[t] = {}
  BY DEF Lib!Init, Lib!Frame
<1>3. \A t \in Threads : pc[t] = IF t \in Requesters THEN "open" ELSE "begin"
  OBVIOUS
<1>4. Library
  BY <1>1, <1>3 DEF Library, Died
<1>5. Sections(Locked, Blocks)
  BY <1>2, <1>3 DEF Sections, Locked, Blocks, Lib!At
<1>6. Places
  BY <1>3 DEF Places, PCs, ServicePlaces, RequesterPlaces
<1>7. Counting
  <2>1. Present = Requesters
    BY <1>3 DEF Present
  <2>. QED BY <2>1 DEF Counting
<1>8. Requests
  <2>1. Awaiting = {}
    BY <1>3 DEF Awaiting
  <2>. QED BY <2>1, FS_EmptySet, EmptySeq DEF Requests
<1>9. Tracks
  <2>1. file \in Files /\ Files \subseteq [Requesters -> Seq(Ints) \cup {None}]
    BY SchedulerAssumption
  <2>2. \A f \in Files : f \in [Requesters -> Seq(Ints) \cup {None}]
    BY <2>1
  <2>. QED BY <1>3, <2>1, <2>2 DEF Tracks
<1>10. Sleeping
  BY <1>2 DEF Sleeping, Lib!At
<1>11. Consuming /\ Spinning /\ Lives
  BY <1>2, <1>3 DEF Consuming, Spinning, Lives, Lib!At
<1>12. EndsWellOnlyIfUnused
  BY <1>2 DEF EndsWellOnlyIfUnused
<1>. QED
  BY <1>1, <1>4, <1>5, <1>6, <1>7, <1>8, <1>9, <1>10, <1>11, <1>12 DEF IInv

-----------------------------------------------------------------------------
(* A step of the process: one that is not the stuttering of its end.       *)
Moves ==
  \/ ThreadStep /\ UNCHANGED data
  \/ \E p \in Requesters : RequesterStep(p)
  \/ ServiceStep

(* What a step of a thread's own code is: a call of the library, or the    *)
(* end of the process.                                                     *)
Asks(t, to, c) ==
  /\ Call(t) /\ Goto(t, to)
  /\ \/ Lib!Lock(1) /\ to \in Blocks /\ c = 1
     \/ Lib!Unlock(1) /\ to \notin Locked /\ c = 1
     \/ Lib!Wait(1, c) /\ to \in Blocks
     \/ (BroadcastCall(c) \/ SignalCall(c)) /\ (to \in Locked <=> pc[t] \in Locked)

OwnStep(t, places) ==
  \/ pc[t] # "died" /\ Die(t) /\ UNCHANGED data
  \/ \E to \in places \ {"died"}, c \in Conds : Asks(t, to, c)

LEMMA OwnSteps ==
  /\ \A p \in Requesters : RequesterStep(p) => OwnStep(p, RequesterPlaces)
  /\ ServiceStep => OwnStep(Service, ServicePlaces)
<1>. USE Constants DEF Step, Blocks, Locked, InLoop, HasTask
<1>1. ASSUME NEW p \in Requesters, RequesterStep(p) PROVE OwnStep(p, RequesterPlaces)
  <2>. USE DEF RequesterPlaces
  <2>1. ASSUME NEW to \in RequesterPlaces \ {"died"}, NEW c \in Conds, Asks(p, to, c)
        PROVE  OwnStep(p, RequesterPlaces)
    BY <2>1 DEF OwnStep
  <2>2. CASE CannotOpen(p) \/ ReadWild(p)
    BY <2>2 DEF CannotOpen, ReadWild, OwnStep
  <2>3. CASE Open(p)
    <3>1. Asks(p, "produce", 1)
      BY <2>3 DEF Open, Asks
    <3>. QED BY <2>1, <3>1
  <2>4. CASE WaitForRoom(p)
    <3>1. Asks(p, "room", 1)
      BY <2>4 DEF WaitForRoom, Asks
    <3>. QED BY <2>1, <3>1
  <2>5. CASE Ask(p)
    <3>1. Asks(p, "await", 1)
      BY <2>5 DEF Ask, Asks
    <3>. QED BY <2>1, <3>1
  <2>6. CASE WaitUntilServed(p)
    <3>1. Asks(p, "await", p - 1)
      BY <2>6 DEF WaitUntilServed, Asks
    <3>. QED BY <2>1, <3>1
  <2>7. CASE Leave(p)
    <3>1. Asks(p, "last", 1)
      BY <2>7 DEF Leave, Asks
    <3>. QED BY <2>1, <3>1
  <2>8. CASE LastUnlock(p)
    <3>1. Asks(p, "end", 1)
      BY <2>8 DEF LastUnlock, Asks
    <3>. QED BY <2>1, <3>1
  <2>. QED BY <1>1, <2>2, <2>3, <2>4, <2>5, <2>6, <2>7, <2>8 DEF RequesterStep
<1>2. ASSUME ServiceStep PROVE OwnStep(Service, ServicePlaces)
  <2>. USE DEF ServicePlaces
  <2>1. ASSUME NEW to \in ServicePlaces \ {"died"}, NEW c \in Conds, Asks(Service, to, c)
        PROVE  OwnStep(Service, ServicePlaces)
    BY <2>1 DEF OwnStep
  <2>2. CASE PopWithNull \/ UseWild
    BY <2>2 DEF PopWithNull, UseWild, OwnStep
  <2>3. CASE Begin
    <3>1. Asks(Service, "loop", 1)
      BY <2>3 DEF Begin, Asks
    <3>. QED BY <2>1, <3>1
  <2>4. CASE WaitForRequests
    <3>1. Asks(Service, "wait", 1)
      BY <2>4 DEF WaitForRequests, Asks
    <3>. QED BY <2>1, <3>1
  <2>5. CASE PopNothing
    <3>1. Asks(Service, "signal", 1)
      BY <2>5 DEF PopNothing, Asks
    <3>. QED BY <2>1, <3>1
  <2>6. CASE SignalAnyone
    <3>1. PICK c \in Conds : Asks(Service, "loop", c)
      BY <2>6 DEF SignalAnyone, Asks
    <3>. QED BY <2>1, <3>1
  <2>7. CASE ConsumerLeaves
    <3>1. Asks(Service, "end", 1)
      BY <2>7 DEF ConsumerLeaves, Asks
    <3>. QED BY <2>1, <3>1
  <2>. QED BY <1>2, <2>2, <2>3, <2>4, <2>5, <2>6, <2>7 DEF ServiceStep
<1>. QED BY <1>1, <1>2

(* So a step is one of these.                                              *)
LEMMA MovesAre ==
  ASSUME Moves
  PROVE  \/ ThreadStep /\ UNCHANGED data
         \/ \E p \in Requesters : RequesterStep(p) /\ OwnStep(p, RequesterPlaces)
         \/ ServiceStep /\ OwnStep(Service, ServicePlaces)
BY OwnSteps DEF Moves

(* Such steps are steps of the library, unless they are fatal.             *)
LEMMA LibraryMoves ==
  ASSUME IInv, Moves
  PROVE  /\ mode # "exited" /\ LibInv /\ ~ Died
         /\ \/ ~ Died' /\ (Lib!Next \/ UNCHANGED libVars)
            \/ \E t : Die(t)
<1>. DEFINE Goal == /\ mode # "exited" /\ LibInv /\ ~ Died
                    /\ \/ ~ Died' /\ (Lib!Next \/ UNCHANGED libVars)
                       \/ \E t : Die(t)
<1>. USE Constants
<1>1. ASSUME ThreadStep PROVE Goal
  <2>1. mode # "exited" /\ ~ Died /\ LibInv
    BY <1>1, ThreadsAlive
  <2>2. ~ Died'
    BY <1>1, <2>1, ThreadStepFacts, Basics DEF Died
  <2>3. ASSUME CreateNext PROVE Lib!Next
    <3>1. Lib!TypeOK /\ Lib!At(Boot) # "none"
      BY <2>3 DEF IInv, CreateNext, Call, Lib!Enter
    <3>. QED
      BY <2>3, <3>1, NextThreadIsUncreated DEF CreateNext, Lib!Next
  <2>4. ASSUME ~ CreateNext PROVE Lib!Next \/ UNCHANGED libVars
    BY <1>1, <2>4 DEF ThreadStep, Main, Create, Libinit, LibinitFails, MainReturns,
              CreateFails, BootReturns, Preempt, Finish, Return, Lib!Next
  <2>. QED BY <2>1, <2>2, <2>3, <2>4
<1>2. ASSUME NEW t \in Threads, NEW places, OwnStep(t, places) PROVE Goal
  <2>1. CASE Die(t)
    <3>1. Call(t)
      BY <2>1 DEF Die
    <3>. QED BY <2>1, <3>1, CallerFacts
  <2>2. ASSUME NEW to \in places \ {"died"}, NEW c \in Conds, Asks(t, to, c) PROVE Goal
    <3>1. Call(t) /\ Goto(t, to)
      BY <2>2 DEF Asks
    <3>2. LibInv /\ ~ Died /\ mode = "threads" /\ pc \in [Threads -> PCs]
      BY <3>1, CallerFacts, Basics
    <3>3. ~ Died'
      BY <2>2, <3>1, <3>2 DEF Goto, Died
    <3>4. Lib!Next \/ UNCHANGED libVars
      BY <2>2 DEF Asks, BroadcastCall, SignalCall, Lib!Next
    <3>. QED BY <3>2, <3>3, <3>4
  <2>. QED BY <1>2, <2>1, <2>2 DEF OwnStep
<1>. QED BY <1>1, <1>2, MovesAre

LEMMA LibraryStep ==
  ASSUME IInv, Moves
  PROVE  Library' /\ Lib!TypeOK'
<1>1. CASE ~ Died' /\ (Lib!Next \/ UNCHANGED libVars)
  <2>1. LibInv
    BY LibraryMoves
  <2>. QED BY <1>1, <2>1, LibKept DEF Library
<1>2. ASSUME NEW t, Die(t) PROVE Library' /\ Lib!TypeOK'
  <2>1. t \in Threads /\ pc \in [Threads -> PCs]
    BY <1>2, CallerFacts, Basics DEF Die
  <2>2. Died' /\ mode' = "exited"
    BY <1>2, <2>1 DEF Die, Goto, Died
  <2>3. Lib!TypeOK'
    BY <1>2 DEF Die, IInv, Lib!TypeOK
  <2>. QED BY <2>2, <2>3 DEF Library
<1>. QED BY <1>1, <1>2, LibraryMoves

(* Each move of a thread's code, from where it was to where it is.         *)
LEMMA SectionsStep ==
  ASSUME IInv, Moves
  PROVE  Sections(Locked, Blocks)'
<1>. DEFINE S == Sections(Locked, Blocks)
<1>. USE Constants
<1>1. S /\ Blocks \subseteq Locked
  BY DEF IInv, Locked, Blocks
<1>2. CASE ThreadStep
  <2>1. LibInv /\ pc \in [Threads -> PCs]
    BY <1>2, ThreadsAlive, Basics
  <2>2. {"begin", "open", "failed", "end"} \cap Locked = {}
    BY DEF Locked
  <2>. QED BY <1>1, <1>2, <2>1, <2>2, SectionsThreads
<1>3. ASSUME NEW t \in Threads, NEW places, places \subseteq PCs, OwnStep(t, places) PROVE S'
  <2>1. CASE Die(t)
    BY <2>1 DEF Die, Sections
  <2>2. ASSUME NEW to \in places, NEW c \in Conds, Asks(t, to, c) PROVE S'
    <3>1. Calling(t, PCs) /\ Goto(t, to) /\ to \in PCs
      BY <1>3, <2>2, CallerFacts DEF Asks
    <3>2. CASE Lib!Lock(1) /\ to \in Blocks
      BY <1>1, <3>1, <3>2, SectionsLock
    <3>3. CASE Lib!Unlock(1) /\ to \notin Locked
      BY <1>1, <3>1, <3>3, SectionsUnlock
    <3>4. CASE Lib!Wait(1, c) /\ to \in Blocks
      BY <1>1, <3>1, <3>4, SectionsWait
    <3>5. CASE Wakes(c) /\ (to \in Locked <=> pc[t] \in Locked)
      BY <1>1, <3>1, <3>5, SectionsWake
    <3>. QED BY <2>2, <3>2, <3>3, <3>4, <3>5 DEF Asks, Wakes
  <2>. QED BY <1>3, <2>1, <2>2 DEF OwnStep
<1>. HIDE DEF S
<1>4. RequesterPlaces \subseteq PCs /\ ServicePlaces \subseteq PCs
  BY DEF PCs
<1>. QED BY <1>2, <1>3, <1>4, MovesAre DEF S

(* Where the code of a thread is.                                          *)
LEMMA PlacesStep ==
  ASSUME IInv, Moves
  PROVE  Places'
<1>. USE Constants
<1>1. Places /\ pc \in [Threads -> PCs]
  BY Basics DEF IInv
<1>. USE DEF PCs, ServicePlaces, RequesterPlaces, Places
<1>2. CASE ThreadStep
  BY <1>1, <1>2, ThreadStepFacts
<1>3. ASSUME NEW p \in Requesters, OwnStep(p, RequesterPlaces) PROVE Places'
  <2>1. PICK to \in RequesterPlaces : Goto(p, to)
    BY <1>3 DEF OwnStep, Die, Asks
  <2>. QED BY <1>1, <2>1 DEF Goto
<1>4. ASSUME OwnStep(Service, ServicePlaces) PROVE Places'
  <2>1. PICK to \in ServicePlaces : Goto(Service, to)
    BY <1>4 DEF OwnStep, Die, Asks
  <2>. QED BY <1>1, <2>1 DEF Goto
<1>. QED BY <1>2, <1>3, <1>4, MovesAre

-----------------------------------------------------------------------------
(* The producers, and their requests.                                      *)

LEMMA PresentFacts ==
  ASSUME IInv
  PROVE  /\ IsFiniteSet(Present) /\ IsFiniteSet(Awaiting)
         /\ active = Cardinality(Present) /\ active \in Nat
         /\ queue \in Seq(Entry) /\ Len(queue) \in Nat /\ Len(queue) = Cardinality(Awaiting)
         /\ active = 0 => \A p \in Requesters : pc[p] \in {"last", "end"}
<1>1. IsFiniteSet(Present) /\ IsFiniteSet(Awaiting)
  BY Constants, FS_Subset DEF Present, Awaiting
<1>2. active = Cardinality(Present) /\ active \in Nat
  BY Constants DEF IInv, Counting
<1>3. queue \in Seq(Entry) /\ Len(queue) \in Nat /\ Len(queue) = Cardinality(Awaiting)
  BY LenProperties DEF IInv, Requests
<1>4. active = 0 => Present = {}
  BY <1>1, <1>2, FS_EmptySet
<1>. QED BY <1>1, <1>2, <1>3, <1>4 DEF Present

(* Only Ask and Leave change the list and the number of active producers.  *)
LEMMA QuietSteps ==
  ASSUME IInv, Moves, ~ \E p \in Requesters : Ask(p) \/ Leave(p)
  PROVE  /\ UNCHANGED <<queue, active, file>> /\ Present' = Present /\ Awaiting' = Awaiting
<1>. USE Constants
<1>1. pc \in [Threads -> PCs] /\ Places
  BY Basics DEF IInv
<1>2. CASE ThreadStep /\ UNCHANGED data
  <2>1. \A p \in Requesters : pc'[p] = pc[p] \/ (pc[p] \in {"open", "begin"} /\ pc'[p] = "failed")
    BY <1>1, <1>2, ThreadStepFacts
  <2>. QED BY <1>2, <2>1 DEF data, Present, Awaiting
<1>3. ASSUME NEW p \in Requesters, RequesterStep(p), NEW to \in RequesterPlaces, Goto(p, to)
      PROVE  /\ UNCHANGED <<queue, active, file>> /\ Present' = Present /\ Awaiting' = Awaiting
  <2>1. \A q \in Requesters : pc'[q] = IF q = p THEN pc'[p] ELSE pc[q]
    BY <1>1, <1>3 DEF Goto
  <2>2. /\ UNCHANGED <<queue, active, file>>
        /\ pc'[p] \in {"last", "end"} <=> pc[p] \in {"last", "end"}
        /\ pc'[p] = "await" <=> pc[p] = "await"
    <3>1. ASSUME NEW from, NEW dest, Step(p, from, dest) PROVE pc[p] = from /\ pc'[p] = dest
      BY <1>1, <3>1 DEF Step, Goto
    <3>2. ASSUME Die(p) PROVE pc'[p] = "died"
      BY <1>1, <3>2 DEF Die, Goto
    <3>. QED BY <1>3, <3>1, <3>2 DEF RequesterStep, CannotOpen, ReadWild, Open, WaitForRoom,
                       WaitUntilServed, LastUnlock, HasTask, data
  <2>. QED BY <2>1, <2>2 DEF Present, Awaiting
<1>4. CASE ServiceStep /\ OwnStep(Service, ServicePlaces)
  <2>1. UNCHANGED <<queue, active, file>>
    BY <1>4 DEF ServiceStep, Begin, WaitForRequests, PopWithNull, UseWild, PopNothing, SignalAnyone,
                ConsumerLeaves, data
  <2>2. \A q \in Requesters : pc'[q] = pc[q]
    BY <1>1, <1>4 DEF OwnStep, Asks, Die, Goto
  <2>. QED BY <2>1, <2>2 DEF Present, Awaiting
<1>5. ASSUME NEW p \in Requesters, RequesterStep(p), OwnStep(p, RequesterPlaces)
      PROVE  \E to \in RequesterPlaces : Goto(p, to)
  BY <1>5 DEF OwnStep, Asks, Die, RequesterPlaces
<1>. QED BY <1>2, <1>3, <1>4, <1>5, MovesAre

LEMMA AskFacts ==
  ASSUME IInv, NEW p \in Requesters, Ask(p)
  PROVE  /\ file[p] \in Seq(Ints) /\ file[p] # <<>> /\ Task(p) \in Entry
         /\ pc[p] \in {"produce", "room"} /\ Call(p) /\ pc' = [pc EXCEPT ![p] = "await"]
         /\ ~ IsFull(queue) /\ queue' = Append(queue, Task(p)) /\ queue' \in Seq(Entry)
         /\ Len(queue') = Len(queue) + 1 /\ queue' # <<>>
         /\ file' = [file EXCEPT ![p] = Tail(@)]
         /\ Present' = Present /\ active' = active /\ Awaiting' = Awaiting \cup {p} /\ p \notin Awaiting
<1>. USE Constants
<1>1. /\ pc[p] \in {"produce", "room"} /\ Call(p) /\ pc' = [pc EXCEPT ![p] = "await"]
      /\ ~ IsFull(queue) /\ queue' = Append(queue, Task(p)) /\ active' = active
      /\ file' = [file EXCEPT ![p] = Tail(@)] /\ HasTask(p)
  BY DEF Ask, Step, Goto, HasTask, Appended
<1>2. file[p] \in Seq(Ints) /\ file[p] # <<>>
  BY <1>1 DEF IInv, Tracks, HasTask
<1>3. Task(p) \in Entry
  BY <1>2, HeadTailProperties DEF Task, Entry
<1>4. queue' \in Seq(Entry) /\ Len(queue') = Len(queue) + 1 /\ queue' # <<>>
  BY <1>1, <1>3, AppendProperties DEF IInv, Requests
<1>5. Present' = Present /\ Awaiting' = Awaiting \cup {p} /\ p \notin Awaiting
  BY <1>1, Basics DEF Present, Awaiting
<1>. QED BY <1>1, <1>2, <1>3, <1>4, <1>5

LEMMA LeaveFacts ==
  ASSUME IInv, NEW p \in Requesters, Leave(p)
  PROVE  /\ pc[p] = "produce" /\ Call(p) /\ pc' = [pc EXCEPT ![p] = "last"]
         /\ file[p] = <<>> /\ UNCHANGED <<queue, file>> /\ active' = active - 1
         /\ p \in Present /\ Present' = Present \ {p} /\ Awaiting' = Awaiting
<1>1. /\ pc[p] = "produce" /\ Call(p) /\ pc' = [pc EXCEPT ![p] = "last"]
      /\ file[p] = <<>> /\ UNCHANGED <<queue, file>> /\ active' = active - 1
  BY DEF Leave, Step, Goto
<1>. QED BY <1>1, Basics, Constants DEF Present, Awaiting

LEMMA CountingStep == ASSUME IInv, Moves PROVE Counting'
<1>1. CASE ~ \E p \in Requesters : Ask(p) \/ Leave(p)
  BY <1>1, QuietSteps DEF IInv, Counting
<1>2. ASSUME NEW p \in Requesters, Ask(p) PROVE Counting'
  BY <1>2, AskFacts DEF IInv, Counting
<1>3. ASSUME NEW p \in Requesters, Leave(p) PROVE Counting'
  <2>1. p \in Present /\ Present' = Present \ {p} /\ active' = active - 1
    BY <1>3, LeaveFacts
  <2>2. Cardinality(Present') = active - 1 /\ IsFiniteSet(Present')
    BY <2>1, PresentFacts, FS_RemoveElement
  <2>3. Cardinality(Present') \in Nat
    BY <2>2, FS_CardinalityType
  <2>. QED BY <2>1, <2>2, <2>3, Constants DEF IInv, Counting
<1>. QED BY <1>1, <1>2, <1>3

LEMMA RequestsStep == ASSUME IInv, Moves PROVE Requests'
<1>1. CASE ~ \E p \in Requesters : Ask(p) \/ Leave(p)
  BY <1>1, QuietSteps DEF IInv, Requests
<1>2. ASSUME NEW p \in Requesters, Ask(p) PROVE Requests'
  <2>1. /\ queue' = Append(queue, Task(p)) /\ queue' \in Seq(Entry) /\ Len(queue') = Len(queue) + 1
        /\ Awaiting' = Awaiting \cup {p} /\ p \notin Awaiting /\ Task(p) \in Entry
    BY <1>2, AskFacts
  <2>2. Cardinality(Awaiting') = Len(queue) + 1
    <3>1. IsFiniteSet(Awaiting) /\ Len(queue) = Cardinality(Awaiting)
      BY PresentFacts
    <3>2. Cardinality(Awaiting \cup {p}) = Cardinality(Awaiting) + 1
      BY <2>1, <3>1, FS_AddElement
    <3>. QED BY <2>1, <3>1, <3>2
  <2>3. With(queue', queue, Task(p))
    BY <2>1, PresentFacts, AppendIsWith
  <2>4. Task(p).requester = p
    BY DEF Task
  <2>5. \A i \in DOMAIN queue' : queue'[i].requester \in Awaiting'
    BY <2>1, <2>3, <2>4 DEF With, IInv, Requests
  <2>. QED BY <2>1, <2>2, <2>5 DEF Requests
<1>3. ASSUME NEW p \in Requesters, Leave(p) PROVE Requests'
  BY <1>3, LeaveFacts DEF IInv, Requests
<1>. QED BY <1>1, <1>2, <1>3

LEMMA TracksStep == ASSUME IInv, Moves PROVE Tracks'
<1>. USE Constants
<1>1. pc \in [Threads -> PCs] /\ Tracks
  BY Basics DEF IInv
<1>2. ASSUME NEW p \in Requesters, Ask(p) PROVE Tracks'
  <2>1. /\ file[p] \in Seq(Ints) /\ file[p] # <<>> /\ pc' = [pc EXCEPT ![p] = "await"]
        /\ file' = [file EXCEPT ![p] = Tail(@)]
    BY <1>2, AskFacts
  <2>2. Tail(file[p]) \in Seq(Ints)
    BY <2>1, HeadTailProperties
  <2>. QED BY <1>1, <2>1, <2>2 DEF Tracks
<1>3. ASSUME UNCHANGED <<file>>,
             \A p \in Requesters : /\ pc'[p] = "produce" => pc[p] = "produce" \/ file[p] # None
                                   /\ pc'[p] = "room" => pc[p] = "room" \/ HasTask(p)
      PROVE  Tracks'
  BY <1>1, <1>3 DEF Tracks, HasTask
<1>4. CASE ThreadStep /\ UNCHANGED data
  <2>1. \A p \in Requesters : pc'[p] = pc[p] \/ pc'[p] = "failed"
    BY <1>1, <1>4, ThreadStepFacts
  <2>. QED BY <1>3, <1>4, <2>1 DEF data
<1>5. ASSUME NEW p \in Requesters, RequesterStep(p), OwnStep(p, RequesterPlaces), ~ Ask(p) PROVE Tracks'
  <2>1. \A q \in Requesters \ {p} : pc'[q] = pc[q]
    BY <1>1, <1>5 DEF OwnStep, Asks, Die, Goto
  <2>2. UNCHANGED <<file>>
    BY <1>5 DEF RequesterStep, CannotOpen, ReadWild, Open, WaitForRoom, WaitUntilServed, Leave, LastUnlock, data
  <2>3. /\ pc'[p] = "produce" => file[p] # None
        /\ pc'[p] = "room" => HasTask(p)
    <3>1. ASSUME NEW from, NEW dest, Step(p, from, dest) PROVE pc'[p] = dest
      BY <1>1, <3>1 DEF Step, Goto
    <3>2. ASSUME Die(p) PROVE pc'[p] = "died"
      BY <1>1, <3>2 DEF Die, Goto
    <3>. QED BY <1>5, <3>1, <3>2 DEF RequesterStep, CannotOpen, ReadWild, Open, WaitForRoom,
                       WaitUntilServed, Leave, LastUnlock
  <2>. QED BY <1>3, <2>1, <2>2, <2>3
<1>6. CASE ServiceStep /\ OwnStep(Service, ServicePlaces)
  <2>1. \A q \in Requesters : pc'[q] = pc[q]
    BY <1>1, <1>6 DEF OwnStep, Asks, Die, Goto
  <2>2. UNCHANGED <<file>>
    BY <1>6 DEF ServiceStep, Begin, WaitForRequests, PopWithNull, UseWild, PopNothing, SignalAnyone,
                ConsumerLeaves, data
  <2>. QED BY <1>3, <2>1, <2>2
<1>. QED BY <1>2, <1>4, <1>5, <1>6, MovesAre

(* Where the consumer goes.                                                *)
LEMMA ConsumerMoves ==
  ASSUME IInv, Moves, pc'[Service] # pc[Service] \/ task' # task
  PROVE  ServiceStep \/ (ThreadStep /\ UNCHANGED data /\ pc'[Service] = "failed")
<1>. USE Constants
<1>1. pc \in [Threads -> PCs]
  BY Basics
<1>2. ASSUME NEW p \in Requesters, RequesterStep(p), OwnStep(p, RequesterPlaces)
      PROVE  pc'[Service] = pc[Service] /\ task' = task
  <2>1. pc'[Service] = pc[Service]
    BY <1>1, <1>2 DEF OwnStep, Asks, Die, Goto
  <2>2. task' = task
    BY <1>2 DEF RequesterStep, CannotOpen, ReadWild, Open, WaitForRoom, Ask, WaitUntilServed, Leave, LastUnlock, data
  <2>. QED BY <2>1, <2>2
<1>3. ASSUME ThreadStep, UNCHANGED data PROVE task' = task /\ pc'[Service] \in {pc[Service], "failed"}
  BY <1>1, <1>3, ThreadStepFacts DEF data
<1>. QED BY <1>2, <1>3, MovesAre

LEMMA ConsumingStep == ASSUME IInv, Moves PROVE Consuming'
<1>. USE Constants
<1>1. Consuming /\ pc \in [Threads -> PCs] /\ active \in Nat /\ Len(queue) \in Nat
  BY Basics, PresentFacts DEF IInv
<1>2. task' \in {"null", "wild"}
  <2>1. ServiceStep => task' \in {task, "wild"}
    BY DEF ServiceStep, Begin, WaitForRequests, PopWithNull, UseWild, PopNothing, SignalAnyone,
           ConsumerLeaves, data
  <2>2. ThreadStep /\ UNCHANGED data => task' = task
    BY DEF data
  <2>. QED BY <1>1, <2>1, <2>2, ConsumerMoves DEF Consuming
<1>3. ASSUME NEW to, pc'[Service] = to, pc[Service] # to, to \in {"wait", "end"}
      PROVE  \/ to = "wait" /\ TooFew
             \/ to = "end" /\ queue = <<>> /\ active = 0 /\ UNCHANGED <<queue, active>>
  <2>1. ServiceStep
    BY <1>3, ConsumerMoves
  <2>2. ASSUME NEW from, NEW dest, Step(Service, from, dest) PROVE pc[Service] = from /\ pc'[Service] = dest
    BY <1>1, <2>2 DEF Step, Goto
  <2>3. ASSUME Die(Service) PROVE pc'[Service] = "died"
    BY <1>1, <2>3 DEF Die, Goto
  <2>4. WaitForRequests \/ ConsumerLeaves
    BY <1>3, <2>1, <2>2, <2>3 DEF ServiceStep, Begin, PopWithNull, UseWild, PopNothing, SignalAnyone
  <2>5. CASE WaitForRequests
    BY <1>3, <2>2, <2>5 DEF WaitForRequests
  <2>6. CASE ConsumerLeaves
    <3>1. to = "end" /\ pc[Service] = "loop" /\ ~ InLoop /\ UNCHANGED <<queue, active>>
      BY <1>3, <2>2, <2>6 DEF ConsumerLeaves, data
    <3>. QED BY <1>1, <3>1 DEF InLoop
  <2>. QED BY <2>4, <2>5, <2>6
<1>4. TooFew => MaxSize > 0
  BY <1>1 DEF TooFew, IsFull
<1>5. pc'[Service] = "wait" => MaxSize > 0
  BY <1>1, <1>3, <1>4 DEF Consuming
<1>6. ASSUME pc'[Service] = "end" PROVE queue' = <<>> /\ active' = 0
  <2>1. CASE pc[Service] # "end"
    BY <1>3, <1>6, <2>1
  <2>2. CASE pc[Service] = "end"
    <3>1. queue = <<>> /\ active = 0 /\ \A p \in Requesters : pc[p] \in {"last", "end"}
      BY <1>1, <2>2, PresentFacts DEF Consuming
    <3>2. ~ \E p \in Requesters : Ask(p) \/ Leave(p)
      BY <3>1, AskFacts, LeaveFacts
    <3>. QED BY <3>1, <3>2, QuietSteps
  <2>. QED BY <2>1, <2>2
<1>. QED BY <1>2, <1>5, <1>6 DEF Consuming


-----------------------------------------------------------------------------
(* The consumer's loop.                                                    *)

(* A lock is given up only by its owner: by a call of thread_unlock or     *)
(* thread_wait, or by the end of its function.                             *)
LEMMA LockStays ==
  ASSUME LibInv, Lib!Next \/ UNCHANGED libVars, NEW u \in Threads, 1 \in locks[u]
  PROVE  1 \in locks'[u] \/ (u = running /\ Lib!At(u) = "user")
<1>1. /\ mode = "threads" => running \in Threads
      /\ locks \in [Threads -> SUBSET Locks]
  BY LibFacts DEF Lib!TypeOK
<1>2. CASE UNCHANGED locks
  BY <1>2
<1>3. CASE Lib!Resume
  BY <1>1, <1>3, ResumeFacts
<1>4. CASE Lib!Exit
  BY <1>1, <1>4 DEF Lib!Exit, Lib!Enter
<1>5. ASSUME NEW l \in Locks, Lib!Lock(l) PROVE 1 \in locks'[u]
  BY <1>1, <1>5 DEF Lib!Lock, Lib!LockLoop
<1>6. ASSUME NEW l \in Locks, NEW c, Lib!Unlock(l) \/ Lib!Wait(l, c)
      PROVE  1 \in locks'[u] \/ (u = running /\ Lib!At(u) = "user")
  <2>1. Lib!Enter /\ 1 \in locks[running] /\ Lib!Release(1)
    BY <1>6 DEF Lib!Unlock, Lib!Wait, Locks
  <2>2. u # running => locks[u] \subseteq locks'[u]
    BY <2>1, ReleaseFacts
  <2>. QED BY <2>1, <2>2 DEF Lib!Enter
<1>. QED
  BY <1>2, <1>3, <1>4, <1>5, <1>6 DEF Lib!Next, Lib!Libinit, Lib!Create, Lib!LibinitFails,
     Lib!MainReturns, Lib!Yield, Lib!Signal, Lib!Broadcast, Lib!Exited, Lib!vars, libVars

LEMMA SpinningStep == ASSUME IInv, Moves PROVE Spinning'
<1>. USE Constants
<1>1. /\ pc \in [Threads -> PCs] /\ locks \in [Threads -> SUBSET Locks] /\ active \in Nat
      /\ Spinning /\ Consuming /\ LibInv /\ ~ Died
  BY Basics, LibraryMoves, PresentFacts DEF IInv
<1>2. ASSUME task' = "wild", task # "wild" PROVE Spinning'
  <2>1. PopNothing
    <3>1. ServiceStep
      <4>1. ThreadStep /\ UNCHANGED data => task' = task
        BY DEF data
      <4>. QED BY <1>2, <4>1, ConsumerMoves
    <3>. QED BY <1>2, <3>1 DEF ServiceStep, Begin, WaitForRequests, PopWithNull, UseWild,
                               SignalAnyone, ConsumerLeaves, data
  <2>2. /\ Call(Service) /\ InLoop /\ ~ TooFew /\ queue = <<>> /\ UNCHANGED <<queue, active>>
        /\ pc' = [pc EXCEPT ![Service] = "signal"] /\ UNCHANGED locks
    BY <2>1 DEF PopNothing, Step, Goto, BroadcastCall, Lib!Broadcast, libVars
  <2>3. active > 0
    BY <1>1, <2>2 DEF InLoop, Consuming, TooFew
  <2>4. 1 \in locks[Service]
    BY <2>2, CallerFacts DEF InLoop, Locked
  <2>. QED BY <1>1, <2>2, <2>3, <2>4 DEF Spinning, TooFew, IsFull
<1>3. ASSUME task = "wild" PROVE Spinning'
  <2>1. /\ queue = <<>> /\ active > 0 /\ ~ TooFew /\ 1 \in locks[Service]
        /\ pc[Service] \in {"signal", "loop"}
    BY <1>1, <1>3 DEF Spinning, Died
  <2>2. ~ \E p \in Requesters : Ask(p) \/ Leave(p)
    <3>1. ASSUME NEW p \in Requesters, Call(p), pc[p] \in Locked PROVE FALSE
      BY <2>1, <3>1, CallerFacts
    <3>. QED BY <3>1, AskFacts, LeaveFacts DEF Locked
  <2>3. UNCHANGED <<queue, active>>
    BY <2>2, QuietSteps
  <2>4. pc'[Service] \in {"signal", "loop", "died"} /\ 1 \in locks'[Service]
    <3>1. ASSUME NEW p \in Requesters, RequesterStep(p), OwnStep(p, RequesterPlaces)
          PROVE  pc'[Service] = pc[Service] /\ 1 \in locks'[Service]
      <4>1. running = p /\ pc'[Service] = pc[Service]
        BY <1>1, <3>1 DEF OwnStep, Asks, Die, Goto, Call
      <4>. QED BY <1>1, <2>1, <4>1, LibraryMoves, LockStays DEF Die
    <3>2. CASE ServiceStep
      <4>1. InLoop \/ pc[Service] = "signal"
        BY <2>1 DEF InLoop
      <4>2. PopNothing \/ SignalAnyone \/ PopWithNull \/ UseWild
        BY <2>1, <3>2, <4>1 DEF ServiceStep, Begin, WaitForRequests, ConsumerLeaves, Step, InLoop
      <4>. QED BY <1>1, <2>1, <4>2 DEF PopNothing, SignalAnyone, PopWithNull, UseWild, Die, Step, Goto,
             BroadcastCall, SignalCall, Lib!Broadcast, Lib!Signal, libVars
    <3>3. CASE ThreadStep
      <4>2. pc'[Service] = pc[Service]
        BY <1>1, <2>1, <3>3, ThreadStepFacts
      <4>3. ~ (\E t \in Threads : Return(t) /\ t = Service) /\ ~ (BootReturns /\ running = Service)
        BY <2>1 DEF Return, BootReturns, Call
      <4>4. CASE Finish \/ BootReturns \/ \E t \in Threads : Return(t)
        <5>1. running # Service \/ Finish
          BY <4>3, <4>4 DEF Return, Call
        <5>2. Lib!Next /\ (Finish => Lib!Resume)
          BY <4>4 DEF Finish, BootReturns, Return, Lib!Next
        <5>. QED BY <1>1, <2>1, <4>2, <5>1, <5>2, LockStays, ResumeFacts
      <4>5. CASE Main \/ CreateNext \/ CreateFails \/ Preempt
        BY <2>1, <4>2, <4>5 DEF Main, Libinit, LibinitFails, MainReturns, CreateNext, CreateFails, Preempt,
           Lib!Libinit, Lib!LibinitFails, Lib!MainReturns, Lib!Create, Lib!Yield, libVars
      <4>. QED BY <3>3, <4>4, <4>5 DEF ThreadStep, Create
    <3>. QED BY <2>1, <3>1, <3>2, <3>3, MovesAre
  <2>. QED BY <2>1, <2>3, <2>4 DEF Spinning, TooFew, IsFull
<1>. QED BY <1>2, <1>3 DEF Spinning

-----------------------------------------------------------------------------
(* Who sleeps, and who wakes whom.                                         *)

(* A thread is moved by nobody but itself, or was never created.           *)
LEMMA OthersStay ==
  ASSUME IInv, Moves, NEW u \in Threads, u # running \/ Lib!At(u) # "user"
  PROVE  /\ u # running /\ Lib!At(u) # "none" => frame'[u] = frame[u]
         /\ pc'[u] = pc[u] \/ (Lib!At(u) = "none" /\ pc'[u] = "failed")
<1>. DEFINE Goal == pc'[u] = pc[u] \/ (Lib!At(u) = "none" /\ pc'[u] = "failed")
<1>. USE Constants
<1>1. pc \in [Threads -> PCs]
  BY Basics
<1>2. u # running /\ Lib!At(u) # "none" => frame'[u] = frame[u]
  <2>1. CASE LibInv /\ (Lib!Next \/ UNCHANGED libVars)
    BY <2>1, FrameFacts
  <2>2. CASE \E t : Die(t)
    BY <2>2 DEF Die
  <2>. QED BY <2>1, <2>2, LibraryMoves
<1>3. ASSUME NEW t \in Threads, NEW places, OwnStep(t, places) PROVE Goal
  <2>1. Call(t) /\ t # u /\ \E to : Goto(t, to)
    BY <1>3 DEF OwnStep, Asks, Die, Call, Lib!Enter
  <2>. QED BY <1>1, <2>1 DEF Goto
<1>4. ASSUME ThreadStep PROVE Goal
  BY <1>1, <1>4, ThreadStepFacts
<1>. QED BY <1>2, <1>3, <1>4, MovesAre

(* What a step of a thread's own code does to those who sleep.             *)
Sleeps(t) ==
  \E to \in {"room", "await", "wait"}, c \in Conds :
    /\ Lib!Wait(1, c) /\ Goto(t, to) /\ UNCHANGED <<queue, active>>
    /\ to = "room" => IsFull(queue)
    /\ to = "wait" => TooFew /\ c = 1

Kinds(t) ==
  \/ (Lib!Lock(1) \/ Lib!Unlock(1)) /\ UNCHANGED <<queue, active>>
  \/ (\E c \in Conds : SignalCall(c)) /\ UNCHANGED <<queue, active>>
  \/ BroadcastCall(1)
  \/ Sleeps(t)

LEMMA MovesAreOfAKind ==
  ASSUME IInv, Moves
  PROVE  \/ ThreadStep /\ UNCHANGED data
         \/ \E t : Die(t) /\ UNCHANGED data
         \/ \E t \in Threads : Call(t) /\ Kinds(t)
<1>. DEFINE Goal == \/ ThreadStep /\ UNCHANGED data
                    \/ \E t : Die(t) /\ UNCHANGED data
                    \/ \E t \in Threads : Call(t) /\ Kinds(t)
<1>. USE Constants DEF Step, data
<1>1. ASSUME NEW p \in Requesters, RequesterStep(p) PROVE Goal
  <2>1. CASE CannotOpen(p) \/ ReadWild(p)
    BY <2>1 DEF CannotOpen, ReadWild
  <2>2. CASE Open(p) \/ LastUnlock(p)
    <3>1. Call(p) /\ (Lib!Lock(1) \/ Lib!Unlock(1)) /\ UNCHANGED <<queue, active>>
      BY <2>2 DEF Open, LastUnlock
    <3>. QED BY <3>1 DEF Kinds
  <2>3. CASE Ask(p) \/ Leave(p)
    <3>1. Call(p) /\ BroadcastCall(1)
      BY <2>3 DEF Ask, Leave
    <3>. QED BY <3>1 DEF Kinds
  <2>4. CASE WaitForRoom(p)
    BY <2>4 DEF WaitForRoom, Sleeps, Kinds
  <2>5. CASE WaitUntilServed(p)
    BY <2>5 DEF WaitUntilServed, Sleeps, Kinds
  <2>. QED BY <1>1, <2>1, <2>2, <2>3, <2>4, <2>5 DEF RequesterStep
<1>2. ASSUME ServiceStep PROVE Goal
  <2>1. CASE PopWithNull \/ UseWild
    BY <2>1 DEF PopWithNull, UseWild
  <2>2. CASE Begin \/ ConsumerLeaves
    <3>1. Call(Service) /\ (Lib!Lock(1) \/ Lib!Unlock(1)) /\ UNCHANGED <<queue, active>>
      BY <2>2 DEF Begin, ConsumerLeaves
    <3>. QED BY <3>1 DEF Kinds
  <2>3. CASE SignalAnyone
    BY <2>3 DEF SignalAnyone, Kinds
  <2>4. CASE PopNothing
    BY <2>4 DEF PopNothing, Kinds
  <2>5. CASE WaitForRequests
    BY <2>5 DEF WaitForRequests, Sleeps, Kinds
  <2>. QED BY <1>2, <2>1, <2>2, <2>3, <2>4, <2>5 DEF ServiceStep
<1>. QED BY <1>1, <1>2 DEF Moves

(* The list never shrinks.                                                 *)
LEMMA FullStaysFull == ASSUME IInv, Moves PROVE IsFull(queue) => IsFull(queue)'
<1>1. CASE \E p \in Requesters : Ask(p)
  BY <1>1, AskFacts
<1>2. CASE \E p \in Requesters : Leave(p)
  BY <1>2, LeaveFacts DEF IsFull
<1>. QED BY <1>1, <1>2, QuietSteps DEF IsFull

LEMMA SleepingStep == ASSUME IInv, Moves PROVE Sleeping'
<1>. DEFINE Silent == \A t \in Threads : Lib!At(t) # "broadcast"
            Stay   == \A i \in DOMAIN cv : pc'[cv[i].ct] = pc[cv[i].ct]
<1>. USE Constants
<1>1. /\ pc \in [Threads -> PCs] /\ frame \in [Threads -> Lib!Frames]
      /\ Sleeping /\ LibInv /\ Lib!TypeOK
      /\ IsFull(queue) => IsFull(queue)'
  BY Basics, LibraryMoves, FullStaysFull DEF IInv
<1>2. Stay
  BY <1>1, Sleepers, OthersStay
(* Nobody joins those who sleep.                                           *)
<1>3. ASSUME \A j \in DOMAIN cv' : \E i \in DOMAIN cv : cv'[j] = cv[i],
             \A t \in Threads : frame'[t].at = "broadcast" => frame'[t].cond = 1,
             (\A t \in Threads : frame'[t].at # "broadcast") =>
               \A j \in DOMAIN cv' : pc'[cv'[j].ct] = "wait" => TooFew'
      PROVE  Sleeping'
  BY <1>1, <1>2, <1>3 DEF Sleeping, Lib!At
<1>4. ASSUME \A j \in DOMAIN cv' : \E i \in DOMAIN cv : cv'[j] = cv[i],
             UNCHANGED <<queue, active>>,
             \A t \in Threads : frame'[t].at = "broadcast" <=> Lib!At(t) = "broadcast",
             \A t \in Threads : Lib!At(t) = "broadcast" => frame'[t] = frame[t]
      PROVE  Sleeping'
  <2>1. TooFew' = TooFew
    BY <1>4 DEF TooFew, IsFull
  <2>2. \A t \in Threads : frame'[t].at = "broadcast" => frame'[t].cond = 1
    BY <1>1, <1>4 DEF Sleeping
  <2>3. ASSUME \A t \in Threads : frame'[t].at # "broadcast", NEW j \in DOMAIN cv', pc'[cv'[j].ct] = "wait"
        PROVE  TooFew'
    <3>1. PICK i \in DOMAIN cv : cv'[j] = cv[i]
      BY <1>4
    <3>2. pc[cv[i].ct] = "wait"
      BY <1>2, <2>3, <3>1
    <3>. QED BY <1>1, <1>4, <2>1, <2>3, <3>2 DEF Sleeping
  <2>. QED BY <1>3, <1>4, <2>2, <2>3
<1>5. CASE \E t : Die(t) /\ UNCHANGED data
  BY <1>4, <1>5 DEF Die, data, Lib!At
<1>6. CASE ThreadStep /\ UNCHANGED data
  <2>1. CASE Main
    BY <1>1, <1>4, <1>6, <2>1, LibFacts DEF Main, Libinit, LibinitFails, MainReturns, Lib!Libinit,
       Lib!LibinitFails, Lib!MainReturns, data, Lib!At, Lib!Frame
  <2>2. CASE Create \/ Preempt \/ \E t \in Threads : Return(t)
    <3>1. cv' = cv
      BY <2>2 DEF Create, CreateNext, CreateFails, BootReturns, Preempt, Return,
         Lib!Create, Lib!Exit, Lib!Yield, libVars
    <3>2. \A t \in Threads : frame'[t] = frame[t] \/
             (frame'[t].at # "broadcast" /\ Lib!At(t) # "broadcast")
      BY <1>1, <2>2 DEF Create, CreateNext, CreateFails, BootReturns, Preempt, Return,
         Lib!Create, Lib!Exit, Lib!Yield, libVars, Lib!Enter, Lib!At, Lib!Frame
    <3>. QED BY <1>4, <1>6, <3>1, <3>2 DEF data, Lib!At
  <2>3. CASE Finish
    <3>1. Lib!Resume
      BY <2>3 DEF Finish
    <3>2. /\ running \in Threads
          /\ \A t \in Threads \ {running} : frame'[t] = frame[t]
      BY <1>1, <3>1, ResumeFacts
    <3>3. CASE cv' = cv /\ Lib!At(running) # "broadcast" /\ frame'[running].at # "broadcast"
      BY <1>4, <1>6, <3>2, <3>3 DEF data, Lib!At
    <3>4. CASE frame' = frame /\ Lib!At(running) = "broadcast" /\ Leaves(frame[running].cond)
      BY <1>4, <1>6, <3>4 DEF data, Lib!At, Leaves
    <3>5. CASE /\ cv' = cv /\ Nobody(frame[running].cond) /\ Lib!At(running) = "broadcast"
               /\ frame'[running].at = "user"
      <4>1. frame[running].cond = 1
        BY <1>1, <3>2, <3>5 DEF Sleeping
      <4>2. \A i \in DOMAIN cv : pc[cv[i].ct] # "wait"
        BY <1>1, <3>5, <4>1 DEF Nobody, Sleeping
      <4>3. \A t \in Threads : frame'[t].at = "broadcast" => frame'[t].cond = 1
        BY <1>1, <3>2, <3>5 DEF Sleeping, Lib!At
      <4>. QED BY <1>2, <1>3, <3>5, <4>2, <4>3
    <3>. QED BY <1>1, <3>1, <3>3, <3>4, <3>5, ResumeEffects
  <2>. QED BY <1>6, <2>1, <2>2, <2>3 DEF ThreadStep
<1>7. ASSUME NEW t \in Threads, Call(t), Kinds(t) PROVE Sleeping'
  <2>1. Calling(t, PCs) /\ t = running /\ Lib!At(t) = "user"
    BY <1>7, CallerFacts
  <2>2. CASE (Lib!Lock(1) \/ Lib!Unlock(1)) /\ UNCHANGED <<queue, active>>
    <3>1. /\ cv' = cv /\ \A u \in Threads \ {t} : frame'[u] = frame[u]
          /\ frame'[t].at \in {"user", "lock"}
      BY <2>1, <2>2, CallEffects
    <3>. QED BY <1>4, <2>1, <2>2, <3>1 DEF Lib!At
  <2>3. ASSUME NEW c, SignalCall(c), UNCHANGED <<queue, active>> PROVE Sleeping'
    <3>1. frame' = frame /\ (cv' = cv \/ Leaves(c))
      BY <2>1, <2>3, CallEffects
    <3>. QED BY <1>4, <2>3, <3>1 DEF Lib!At, Leaves
  <2>4. CASE BroadcastCall(1)
    <3>1. /\ cv' = cv
          /\ (frame' = frame /\ Nobody(1)) \/ frame' = [frame EXCEPT ![t] = Lib!Frame("broadcast", 1, 1)]
      BY <2>1, <2>4, CallEffects
    <3>2. CASE frame' = frame /\ Nobody(1)
      <4>1. \A i \in DOMAIN cv : pc[cv[i].ct] # "wait"
        BY <1>1, <3>2 DEF Nobody, Sleeping
      <4>2. \A u \in Threads : frame'[u].at = "broadcast" => frame'[u].cond = 1
        BY <1>1, <3>2 DEF Sleeping, Lib!At
      <4>. QED BY <1>2, <1>3, <3>1, <4>1, <4>2
    <3>3. CASE frame' = [frame EXCEPT ![t] = Lib!Frame("broadcast", 1, 1)]
      <4>1. frame'[t].at = "broadcast"
        BY <1>1, <3>3 DEF Lib!Frame
      <4>2. \A u \in Threads : frame'[u].at = "broadcast" => frame'[u].cond = 1
        BY <1>1, <3>3 DEF Sleeping, Lib!At, Lib!Frame
      <4>. QED BY <1>3, <3>1, <4>1, <4>2
    <3>. QED BY <3>1, <3>2, <3>3
  <2>5. ASSUME NEW to \in {"room", "await", "wait"}, NEW c \in Conds,
               Lib!Wait(1, c), Goto(t, to), UNCHANGED <<queue, active>>,
               to = "room" => IsFull(queue), to = "wait" => TooFew /\ c = 1
        PROVE  Sleeping'
    <3>1. CASE UNCHANGED <<cv, frame>>
      BY <1>4, <2>5, <3>1 DEF Lib!At
    <3>2. CASE Joins(t, c) /\ frame' = [frame EXCEPT ![t] = Lib!Frame("wait", 1, None)]
      <4>1. TooFew' = TooFew /\ IsFull(queue)' = IsFull(queue)
        BY <2>5 DEF TooFew, IsFull
      <4>2. \A u \in Threads : /\ frame'[u].at = "broadcast" => frame'[u] = frame[u]
                               /\ Lib!At(u) = "broadcast" => frame'[u].at = "broadcast"
        BY <1>1, <2>1, <3>2 DEF Lib!At, Lib!Frame
      <4>3. pc'[t] = to
        BY <1>1, <2>5 DEF Goto
      <4>4. \A u \in Threads : frame'[u].at = "broadcast" => frame'[u].cond = 1
        BY <1>1, <4>2 DEF Sleeping, Lib!At
      <4>5. ASSUME NEW j \in DOMAIN cv'
            PROVE  /\ pc'[cv'[j].ct] \in {"room", "await", "wait"}
                   /\ pc'[cv'[j].ct] = "room" => IsFull(queue)'
                   /\ pc'[cv'[j].ct] = "wait" => cv'[j].cond = 1
                   /\ Silent /\ pc'[cv'[j].ct] = "wait" => TooFew'
        <5>1. CASE cv'[j] = [ct |-> t, lock |-> 1, cond |-> c]
          BY <2>5, <4>1, <4>3, <5>1
        <5>2. CASE \E i \in DOMAIN cv : cv'[j] = cv[i]
          BY <1>1, <1>2, <4>1, <5>2 DEF Sleeping
        <5>. QED BY <3>2, <5>1, <5>2 DEF Joins
      <4>. QED BY <4>2, <4>4, <4>5 DEF Sleeping, Lib!At
    <3>. QED BY <2>1, <2>5, <3>1, <3>2, CallEffects
  <2>. QED BY <1>7, <2>2, <2>3, <2>4, <2>5 DEF Kinds, Sleeps
<1>. QED BY <1>5, <1>6, <1>7, MovesAreOfAKind

-----------------------------------------------------------------------------
(* How threads begin and end.                                              *)

(* A thread ends only by returning.                                        *)
LEMMA EndsByReturning ==
  ASSUME IInv, Moves, NEW u \in Threads, frame'[u].at = "done", Lib!At(u) # "done"
  PROVE  u = running /\ Lib!Exit /\ (BootReturns \/ Return(u)) /\ UNCHANGED data
<1>. USE Constants DEF Lib!At, Lib!Frame
<1>1. frame \in [Threads -> Lib!Frames] /\ frame'[u] # frame[u]
  BY Basics DEF IInv
<1>2. ~ \E t : Die(t)
  BY <1>1 DEF Die
<1>3. LibInv /\ (Lib!Next \/ UNCHANGED libVars)
  BY <1>2, LibraryMoves
<1>4. u = running /\ Lib!Exit
  BY <1>1, <1>3, FrameFacts
<1>5. CASE ThreadStep /\ UNCHANGED data
  <2>1. CASE Main \/ Preempt
    BY <1>1, <1>4, <2>1 DEF Main, Libinit, LibinitFails, MainReturns, Preempt, Lib!Libinit,
       Lib!LibinitFails, Lib!MainReturns, Lib!Yield
  <2>2. CASE CreateNext \/ CreateFails
    BY <1>1, <1>4, <2>2 DEF CreateNext, CreateFails, Lib!Create, libVars
  <2>3. CASE Finish
    BY <1>1, <1>3, <1>4, <2>3, ResumeFacts DEF Finish
  <2>4. CASE BootReturns \/ \E t \in Threads : Return(t)
    BY <1>4, <1>5, <2>4 DEF BootReturns, Return, Call
  <2>. QED BY <1>5, <2>1, <2>2, <2>3, <2>4 DEF ThreadStep, Create
<1>6. ASSUME NEW t \in Threads, Call(t), Kinds(t) PROVE FALSE
  <2>1. Calling(t, PCs) /\ t = running
    BY <1>6, CallerFacts
  <2>2. ASSUME NEW c, Lib!Lock(1) \/ Lib!Unlock(1) \/ Lib!Wait(1, c) PROVE FALSE
    BY <1>1, <1>4, <2>1, <2>2, CallEffects
  <2>3. ASSUME NEW c, SignalCall(c) \/ BroadcastCall(c) PROVE FALSE
    BY <1>1, <1>4, <2>1, <2>3, CallEffects
  <2>. QED BY <1>6, <2>2, <2>3 DEF Kinds, Sleeps
<1>. QED BY <1>2, <1>4, <1>5, <1>6, MovesAreOfAKind

LEMMA LivesStep ==
  ASSUME IInv, Moves
  PROVE  Lives'
<1>. USE Constants
<1>1. /\ pc \in [Threads -> PCs] /\ Lives /\ Places /\ Lib!TypeOK /\ LibInv /\ Sections(Locked, Blocks)
      /\ locks \in [Threads -> SUBSET Locks] /\ frame \in [Threads -> Lib!Frames]
      /\ mode # "exited"
  BY Basics, LibraryMoves DEF IInv
<1>2. mode' = "main" => running' = None
  <2>1. CASE Lib!Next \/ UNCHANGED libVars
    BY <1>1, <2>1, ModeFacts DEF Lives
  <2>. QED BY <2>1, LibraryMoves DEF Die
<1>3. ASSUME mode' = "threads" PROVE frame'[Boot].at # "none"
  <2>1. Lib!Next \/ UNCHANGED libVars
    BY <1>3, LibraryMoves DEF Die
  <2>2. CASE mode = "threads"
    BY <1>1, <2>1, <2>2, FrameFacts DEF Lives
  <2>3. CASE Libinit
    BY <1>1, <2>3 DEF Libinit, Lib!Libinit, Lib!TypeOK, Lib!Frame
  <2>4. CASE mode # "threads" /\ ~ Libinit
    <3>1. ~ \E t : Call(t)
      BY <2>4 DEF Call, Lib!Enter
    <3>2. ~ Finish /\ ~ Preempt
      BY <1>1, <2>4, ResumeFacts DEF Finish, Preempt, Lib!Yield, Lib!Enter
    <3>3. LibinitFails \/ MainReturns
      BY <2>4, <3>1, <3>2, MovesAreOfAKind DEF Die, ThreadStep, Main, Create, CreateNext, CreateFails,
         BootReturns, Return
    <3>. QED BY <1>3, <2>4, <3>3 DEF LibinitFails, MainReturns, Lib!LibinitFails, Lib!MainReturns
  <2>. QED BY <2>2, <2>3, <2>4
<1>4. \A u \in Threads : frame'[u].at = "none" => Lib!At(u) = "none"
  <2>1. CASE Lib!Next \/ UNCHANGED libVars
    BY <1>1, <2>1, FrameFacts
  <2>. QED BY <2>1, LibraryMoves DEF Die, Lib!At
<1>5. ASSUME frame'[Boot].at = "done" PROVE Uncreated' = {}
  <2>1. Uncreated = {}
    <3>1. CASE Lib!At(Boot) # "done"
      <4>1. Boot = running /\ (BootReturns \/ Return(Boot))
        BY <1>5, <3>1, EndsByReturning
      <4>. QED BY <1>1, <4>1 DEF BootReturns, Return, Places
    <3>. QED BY <1>1, <3>1 DEF Lives
  <2>2. ASSUME NEW u \in Threads, frame'[u].at = "none" PROVE pc'[u] = "failed"
    <3>1. Lib!At(u) = "none" /\ pc[u] = "failed"
      BY <1>4, <2>1, <2>2 DEF Uncreated
    <3>. QED BY <3>1, OthersStay
  <2>. QED BY <2>2 DEF Uncreated, Lib!At
<1>6. ASSUME NEW u \in Threads \ {Boot}, frame'[u].at = "done" PROVE pc'[u] = "end"
  <2>1. CASE Lib!At(u) = "done"
    BY <1>1, <2>1, OthersStay DEF Lives
  <2>2. CASE Lib!At(u) # "done"
    <3>1. u = running /\ (BootReturns \/ Return(u))
      BY <1>6, <2>2, EndsByReturning
    <3>2. Return(u)
      BY <3>1 DEF BootReturns, Call
    <3>. QED BY <3>2 DEF Return
  <2>. QED BY <2>1, <2>2
<1>7. leaked' = {}
  <2>1. CASE Lib!Exit /\ leaked' = leaked \cup locks[running]
    <3>1. /\ running \in Threads /\ Lib!At(running) = "user" /\ frame'[running].at = "done"
      BY <1>1, <2>1 DEF Lib!Exit, Lib!Enter, Lib!TypeOK, Lib!Frame
    <3>2. BootReturns \/ Return(running)
      BY <3>1, EndsByReturning
    <3>3. pc[running] \notin Locked
      BY <1>1, <3>2 DEF BootReturns, Return, Call, Places, Locked
    <3>4. 1 \notin locks[running]
      BY <1>1, <3>1, <3>3 DEF Sections
    <3>. QED BY <1>1, <2>1, <3>1, <3>4 DEF Lives, Locks
  <2>2. CASE leaked' = leaked
    BY <1>1, <2>2 DEF Lives
  <2>3. CASE Lib!Next \/ UNCHANGED libVars
    BY <1>1, <2>1, <2>2, <2>3, LeakFacts
  <2>. QED BY <2>2, <2>3, LibraryMoves DEF Die
<1>. QED BY <1>2, <1>3, <1>5, <1>6, <1>7 DEF Lives, Lib!At

-----------------------------------------------------------------------------
(* How the process ends.                                                   *)

(* With no thread to run, the lock can only be the running thread's.       *)
LEMMA LockIsRunning ==
  ASSUME IInv, mode = "threads", ~ Died, runnable = <<>>
  PROVE  /\ 1 \notin using \ locks[running]
         /\ 1 \notin locks[running] => waiting = <<>>
<1>. USE Constants
<1>1. /\ LibInv /\ Sections(Locked, Blocks) /\ running \in Threads /\ leaked = {}
      /\ \A t \in Threads : Lib!At(t) \in Lib!Points
      /\ waiting \in Seq(Lib!LockEntry) /\ locks \in [Threads -> SUBSET Locks]
  BY LibFacts DEF IInv, Library, Lives, Lib!TypeOK, Lib!Frames, Lib!At
<1>2. ASSUME NEW t \in Threads, t # running PROVE 1 \notin locks[t]
  <2>1. ~ Lib!Runnable(t)
    BY EmptySeq, LenProperties DEF Lib!Runnable
  <2>2. CASE Lib!At(t) \in {"none", "done"}
    BY <1>1, <2>2 DEF Sections
  <2>3. CASE Lib!CvBlocked(t)
    BY <1>1, <2>3, Sleepers DEF Lib!CvBlocked, Sections
  <2>4. CASE Lib!LockBlocked(t)
    <3>1. PICK i \in DOMAIN waiting : waiting[i].ct = t
      BY <2>4 DEF Lib!LockBlocked
    <3>2. waiting[i].lock = 1
      <4>1. waiting[i] \in Lib!LockEntry
        BY <1>1, <3>1, LenProperties, ElementOfSeq
      <4>. QED BY <4>1 DEF Lib!LockEntry, Locks
    <3>. QED BY <1>1, <3>1, <3>2, LibFacts DEF Lib!WaitsForUsedLock
  <2>. QED BY <1>1, <1>2, <2>1, <2>2, <2>3, <2>4, LibFacts DEF Lib!NoThreadLost
<1>3. 1 \in using => 1 \in locks[running]
  BY <1>1, <1>2, LibFacts DEF Lib!LockAccounting
<1>4. ASSUME waiting # <<>> PROVE 1 \in using
  <2>1. 1 \in DOMAIN waiting /\ waiting[1] \in Lib!LockEntry
    BY <1>1, <1>4, LenProperties, ElementOfSeq, EmptySeq
  <2>. QED BY <1>1, <2>1, LibFacts DEF Lib!WaitsForUsedLock, Lib!LockEntry, Locks
<1>. QED BY <1>3, <1>4

(* Every thread has ended, or is in a wait that nothing will end.          *)
Settled ==
  \A t \in Threads :
    \/ Lib!At(t) = "done" /\ (t # Boot => pc[t] = "end")
    \/ /\ pc[t] \in {"room", "await", "wait"}
       /\ pc[t] = "room" => IsFull(queue)
       /\ pc[t] = "wait" => TooFew

Ending ==
  \/ queue = <<>> /\ \A t \in Threads : Lib!At(t) = "done"
  \/ pc[Service] = "wait" /\ active < MaxSize

(* If the consumer waited for the list to fill, the producers present      *)
(* would wait for their tasks with more requests in the list than it takes.*)
LEMMA SettledEnds == Places /\ Counting /\ Requests /\ Consuming /\ Settled => Ending
<1>. SUFFICES ASSUME Places, Counting, Requests, Consuming, Settled PROVE Ending
  OBVIOUS
<1>. USE Constants
<1>1. /\ IsFiniteSet(Present) /\ IsFiniteSet(Awaiting) /\ active = Cardinality(Present)
      /\ active \in Nat /\ Len(queue) \in Nat /\ Len(queue) = Cardinality(Awaiting)
  BY FS_Subset, LenProperties DEF Present, Awaiting, Counting, Requests
<1>2. Lib!At(Boot) = "done"
  BY DEF Settled, Places
<1>3. CASE pc[Service] = "end"
  <2>1. queue = <<>> /\ active = 0 /\ Lib!At(Service) = "done"
    BY <1>3 DEF Consuming, Settled
  <2>2. Present = {}
    BY <1>1, <2>1, FS_EmptySet
  <2>3. \A p \in Requesters : Lib!At(p) = "done"
    BY <2>2 DEF Present, Settled
  <2>. QED BY <1>2, <2>1, <2>3 DEF Ending
<1>4. CASE pc[Service] # "end"
  <2>1. pc[Service] = "wait" /\ TooFew
    BY <1>4 DEF Settled, Places, ServicePlaces
  <2>2. ASSUME ~ IsFull(queue) PROVE active <= Len(queue)
    <3>1. Present \subseteq Awaiting
      BY <2>2 DEF Present, Awaiting, Settled, Places, RequesterPlaces
    <3>. QED BY <1>1, <3>1, FS_Subset
  <2>. QED BY <1>1, <2>1, <2>2 DEF Ending, TooFew, IsFull
<1>. QED BY <1>3, <1>4

(* When the process ends by itself, everything is settled.                 *)
LEMMA SettledAtTheEnd ==
  ASSUME IInv, Moves, mode' = "exited", running' # None,
         \A t \in Threads : pc'[t] \notin {"failed", "died"}
  PROVE  Settled'
<1>. USE Constants
<1>1. /\ mode # "exited" /\ LibInv /\ ~ Died /\ (Lib!Next \/ UNCHANGED libVars)
      /\ pc \in [Threads -> PCs] /\ frame \in [Threads -> Lib!Frames]
      /\ locks \in [Threads -> SUBSET Locks]
      /\ Places /\ Places' /\ Lives /\ Sleeping /\ Sections(Locked, Blocks)
  <2>1. ASSUME NEW t, Die(t) PROVE FALSE
    <3>1. t \in Threads /\ pc'[t] = "died"
      BY <2>1, CallerFacts, Basics DEF Die, Goto
    <3>. QED BY <3>1
  <2>. QED BY <2>1, LibraryMoves, Basics, PlacesStep DEF IInv
<1>2. ~ Lib!MainReturns
  BY <1>1 DEF Lib!MainReturns, Lives
<1>3. /\ mode = "threads" /\ running \in Threads /\ runnable = <<>> /\ cv' = cv
      /\ 1 \notin using \ locks[running]
      /\ 1 \notin locks[running] => waiting = <<>>
      /\ \/ Lib!Exit
         \/ /\ waiting = <<>> /\ frame' = frame
            /\ Lib!Enter /\ \E c \in Conds : Lib!Wait(1, c)
  BY <1>1, <1>2, EndFacts, LockIsRunning
<1>4. Lib!At(running) = "user"
  BY <1>3 DEF Lib!Exit, Lib!Enter
(* The step itself.                                                        *)
<1>5. \/ /\ BootReturns \/ Return(running)
         /\ UNCHANGED data /\ pc' = pc /\ frame'[running].at = "done"
         /\ \A t \in Threads \ {running} : frame'[t] = frame[t]
      \/ waiting = <<>> /\ frame' = frame /\ Sleeps(running)
  <2>1. CASE Lib!Exit
    <3>1. frame' = [frame EXCEPT ![running] = Lib!Frame("done", None, None)]
      BY <2>1 DEF Lib!Exit
    <3>2. frame'[running].at = "done"
      BY <1>1, <1>3, <3>1 DEF Lib!Frame
    <3>. QED BY <1>1, <1>3, <1>4, <3>1, <3>2, EndsByReturning DEF BootReturns, Return
  <2>2. CASE waiting = <<>> /\ frame' = frame /\ Lib!Enter /\ \E c \in Conds : Lib!Wait(1, c)
    <3>1. mode' # mode /\ mode # "main"
      BY <1>3
    <3>2. ~ (Lib!Exit \/ Lib!Resume \/ Lib!Yield)
      <4>1. ~ Lib!Exit
        BY <1>1, <1>3, <1>4, <2>2 DEF Lib!Exit, Lib!Frame, Lib!At
      <4>2. ~ Lib!Yield
        BY <3>1 DEF Lib!Yield
      <4>3. ~ Lib!Resume
        BY <1>1, <1>4, ResumeFacts
      <4>. QED BY <4>1, <4>2, <4>3
    <3>3. ~ Lib!Lock(1) /\ ~ Lib!Unlock(1) /\ \A c : ~ SignalCall(c) /\ ~ BroadcastCall(c)
      BY <2>2, <3>1 DEF Lib!Wait, Lib!Lock, Lib!Unlock, SignalCall, BroadcastCall, Lib!Signal,
                        Lib!Broadcast, libVars
    <3>4. \A t : ~ Die(t)
      <4>1. ASSUME NEW t, Die(t) PROVE FALSE
        <5>1. t \in Threads /\ pc'[t] = "died"
          BY <4>1, CallerFacts, Basics DEF Die, Goto
        <5>. QED BY <5>1
      <4>. QED BY <4>1
    <3>5. ~ ThreadStep
      BY <3>1, <3>2 DEF ThreadStep, Main, Libinit, LibinitFails, MainReturns, Create, CreateNext,
         CreateFails, BootReturns, Preempt, Finish, Return, libVars, Lib!Libinit, Lib!LibinitFails,
         Lib!MainReturns, Lib!Create
    <3>6. PICK t \in Threads : Call(t) /\ Kinds(t)
      BY <3>4, <3>5, MovesAreOfAKind
    <3>. QED BY <2>2, <3>3, <3>6 DEF Kinds, Call
  <2>. QED BY <1>3, <2>1, <2>2
<1>6. waiting = <<>>
  <2>1. CASE BootReturns \/ Return(running)
    <3>1. pc[running] \notin Locked
      BY <1>1, <2>1 DEF BootReturns, Return, Call, Places, Locked
    <3>. QED BY <1>1, <1>3, <1>4, <3>1 DEF Sections
  <2>. QED BY <1>5, <2>1
<1>7. \A t \in Threads \ {running} :
        /\ Lib!At(t) \in {"none", "done"} \/ Lib!CvBlocked(t)
        /\ frame'[t] = frame[t]
        /\ pc'[t] = pc[t]
  <2>1. \A t \in Threads : ~ Lib!Runnable(t) /\ ~ Lib!LockBlocked(t)
    BY <1>3, <1>6, EmptySeq, LenProperties DEF Lib!Runnable, Lib!LockBlocked
  <2>2. \A t \in Threads \ {running} : pc'[t] = pc[t]
    BY <1>1, <1>5 DEF Sleeps, Goto
  <2>. QED BY <1>1, <1>3, <1>5, <2>1, <2>2, LibFacts DEF Lib!NoThreadLost
<1>8. UNCHANGED <<queue, active>>
  BY <1>5 DEF data, Sleeps
<1>9. TooFew' = TooFew /\ IsFull(queue)' = IsFull(queue)
  BY <1>8 DEF TooFew, IsFull
<1>10. Uncreated = {}
  <2>1. CASE Boot = running
    <3>1. ~ Sleeps(Boot) /\ ~ Return(Boot)
      BY <1>1 DEF Sleeps, Goto, Places, Return
    <3>. QED BY <1>5, <2>1, <3>1 DEF BootReturns
  <2>2. CASE Boot # running
    <3>1. ~ Lib!CvBlocked(Boot)
      BY <1>1, Sleepers DEF Lib!CvBlocked, Sections, Places, Blocks
    <3>. QED BY <1>1, <1>3, <1>7, <2>2, <3>1 DEF Lives
  <2>. QED BY <2>1, <2>2
<1>11. ASSUME NEW t \in Threads, t # running
       PROVE  \/ frame'[t].at = "done" /\ (t # Boot => pc'[t] = "end")
              \/ /\ pc'[t] \in {"room", "await", "wait"}
                 /\ pc'[t] = "room" => IsFull(queue)'
                 /\ pc'[t] = "wait" => TooFew'
  <2>1. Lib!At(t) = "done" \/ Lib!CvBlocked(t)
    BY <1>7, <1>10, <1>11 DEF Uncreated
  <2>2. CASE Lib!At(t) = "done"
    BY <1>1, <1>7, <1>11, <2>2 DEF Lives, Lib!At
  <2>3. CASE Lib!CvBlocked(t)
    <3>1. \A u \in Threads : Lib!At(u) # "broadcast"
      BY <1>1, <1>3, <1>4, LibFacts DEF Lib!MaskDiscipline
    <3>. QED BY <1>1, <1>7, <1>9, <1>11, <2>3, <3>1 DEF Lib!CvBlocked, Sleeping
  <2>. QED BY <2>1, <2>2, <2>3
<1>12. \/ frame'[running].at = "done" /\ (running # Boot => pc'[running] = "end")
       \/ /\ pc'[running] \in {"room", "await", "wait"}
          /\ pc'[running] = "room" => IsFull(queue)'
          /\ pc'[running] = "wait" => TooFew'
  <2>1. CASE (BootReturns \/ Return(running)) /\ pc' = pc /\ frame'[running].at = "done"
    BY <2>1 DEF BootReturns, Return, Call
  <2>2. CASE Sleeps(running)
    BY <1>1, <1>3, <1>9, <2>2 DEF Sleeps, Goto
  <2>. QED BY <1>5, <2>1, <2>2
<1>. QED BY <1>11, <1>12 DEF Settled, Lib!At

LEMMA EndsStep == ASSUME IInv, Moves PROVE EndsWellOnlyIfUnused'
<1>1. ASSUME mode' = "exited", running' # None, \A t \in Threads : pc'[t] \notin {"failed", "died"}
      PROVE  Ending'
  <2>1. Places' /\ Counting' /\ Requests' /\ Consuming' /\ Settled'
    BY <1>1, PlacesStep, CountingStep, RequestsStep, ConsumingStep, SettledAtTheEnd
  <2>2. Places' /\ Counting' /\ Requests' /\ Consuming' /\ Settled' => Ending'
    BY SettledEnds, PTL
  <2>. QED BY <2>1, <2>2
<1>. QED BY <1>1 DEF EndsWellOnlyIfUnused, Ending

-----------------------------------------------------------------------------
(* The invariant holds of every state the program can reach.               *)

LEMMA MovesInv == IInv /\ Moves => IInv'
<1>. SUFFICES ASSUME IInv, Moves PROVE IInv'
  OBVIOUS
<1>1. Library' /\ Lib!TypeOK' /\ Sections(Locked, Blocks)' /\ Places'
  BY LibraryStep, SectionsStep, PlacesStep
<1>2. Counting' /\ Requests' /\ Tracks' /\ Consuming'
  BY CountingStep, RequestsStep, TracksStep, ConsumingStep
<1>3. Sleeping' /\ Spinning' /\ Lives' /\ EndsWellOnlyIfUnused'
  BY SleepingStep, SpinningStep, LivesStep, EndsStep
<1>. QED BY <1>1, <1>2, <1>3 DEF IInv

LEMMA StutterInv == IInv /\ UNCHANGED vars => IInv'
<1>. SUFFICES ASSUME IInv, UNCHANGED vars PROVE IInv'
  OBVIOUS
<1>. USE DEF vars, libVars, data, IInv
<1>1. Lib!TypeOK'
  BY DEF Lib!TypeOK
<1>2. Library'
  BY LibKept DEF Library, Died
<1>3. Sections(Locked, Blocks)' /\ Places'
  BY DEF Sections, Places, Lib!At
<1>4. Counting' /\ Requests'
  BY DEF Counting, Present, Requests, Awaiting
<1>5. Tracks' /\ Consuming' /\ Spinning'
  BY DEF Tracks, Consuming, Spinning, TooFew, IsFull
<1>6. Sleeping' /\ Lives'
  BY DEF Sleeping, Lives, Uncreated, TooFew, IsFull, Lib!At
<1>7. EndsWellOnlyIfUnused'
  BY DEF EndsWellOnlyIfUnused, Lib!At
<1>. QED BY <1>1, <1>2, <1>3, <1>4, <1>5, <1>6, <1>7

LEMMA StepInv == IInv /\ [Next]_vars => IInv'
BY MovesInv, StutterInv DEF Next, Moves, Exited

LEMMA Invariance == Spec => []IInv
BY InitIInv, StepInv, PTL DEF Spec

-----------------------------------------------------------------------------
(* The theorems.                                                           *)

(* From its first produceTask, and the consumer from its first look at the *)
(* list, the thread that executes has lock 1, until it gives it up at the  *)
(* end of its function.                                                    *)
THEOREM LockIsHeld == Spec => []LockHeldThroughout
<1>1. IInv => LockHeldThroughout
  <2>. SUFFICES ASSUME IInv, mode = "threads", Lib!At(running) = "user"
                PROVE  1 \in locks[running] <=> pc[running] \in Locked
    BY DEF LockHeldThroughout, Locked
  <2>1. running \in Threads /\ Sections(Locked, Blocks)
    BY DEF IInv, Lib!TypeOK
  <2>. QED BY <2>1 DEF Sections
<1>. QED BY <1>1, Invariance, PTL

(* Once the consumer of main_new.cpp has popped from the empty list, the   *)
(* list stays empty: it never gives up the lock.                           *)
THEOREM ServesNobody == Spec => []NeverServes
<1>1. IInv => NeverServes
  BY DEF IInv, Spinning, NeverServes
<1>. QED BY <1>1, Invariance, PTL

(* The process ends by itself only if nobody asked for anything, or with   *)
(* the consumer in a wait that takes more producers than are left.         *)
THEOREM EndsWell == Spec => []EndsWellOnlyIfUnused
<1>1. IInv => EndsWellOnlyIfUnused
  BY DEF IInv
<1>. QED BY <1>1, Invariance, PTL

(* What a step can do to the consumer's wait and to the producers' list.   *)
LEMMA WaitIsForGood ==
  ASSUME IInv, Moves, pc[Service] = "wait", active < MaxSize
  PROVE  pc'[Service] = "wait" /\ active' < MaxSize
<1>. USE Constants
<1>1. active \in Nat /\ pc \in [Threads -> PCs] /\ Consuming
  BY Basics, PresentFacts DEF IInv
<1>2. active' < MaxSize
  <2>1. CASE \E p \in Requesters : Ask(p)
    BY <2>1, AskFacts
  <2>2. CASE \E p \in Requesters : Leave(p)
    BY <1>1, <2>2, LeaveFacts
  <2>. QED BY <2>1, <2>2, QuietSteps
<1>3. pc'[Service] = "wait"
  <2>1. CASE ServiceStep
    <3>1. InLoop /\ TooFew
      BY DEF InLoop, TooFew
    <3>2. WaitForRequests
      BY <2>1, <3>1 DEF ServiceStep, Begin, PopWithNull, UseWild, PopNothing, SignalAnyone,
                        ConsumerLeaves, Step
    <3>. QED BY <1>1, <3>2 DEF WaitForRequests, Step, Goto
  <2>2. CASE ThreadStep
    BY <1>1, <2>2, ThreadStepFacts
  <2>. QED BY <2>1, <2>2, ConsumerMoves
<1>. QED BY <1>2, <1>3

(* The consumer of main_new.cpp never leaves its wait when fewer producers *)
(* than maxSize are active: the inner loop of the consumer does not look   *)
(* at the list then, and no producer comes back.                           *)
THEOREM WaitsForGood == Spec => ShortOfProducersForGood
<1>1. IInv /\ [Next]_vars =>
        [pc[Service] = "wait" /\ active < MaxSize => pc'[Service] = "wait" /\ active' < MaxSize]_vars
  BY WaitIsForGood DEF Next, Moves, Exited
<1>. QED BY <1>1, Invariance, PTL DEF Spec, ShortOfProducersForGood

(* A step of the program, seen by NearestFirst.                            *)
LEMMA StepImplements ==
  ASSUME IInv, [Next]_vars
  PROVE  [Scheduler!Next]_(Scheduler!vars)
<1>. USE Constants
<1>1. /\ queue \in Seq(Entry) /\ Len(queue) \in Nat /\ DOMAIN queue = 1 .. Len(queue)
      /\ \A i \in DOMAIN queue : queue[i].requester \in Awaiting
      /\ file \in [Requesters -> Seq(Ints) \cup {None}]
  BY PresentFacts, LenProperties DEF IInv, Requests, Tracks
<1>2. ASSUME UNCHANGED <<queue, file>>, Present' = Present PROVE UNCHANGED Scheduler!vars
  BY <1>2 DEF Scheduler!vars, Present
<1>3. ASSUME NEW p \in Requesters, Ask(p) PROVE Scheduler!Ask(p)
  <2>1. /\ pc[p] \in {"produce", "room"} /\ file[p] \in Seq(Ints) /\ file[p] # <<>>
        /\ ~ IsFull(queue) /\ queue' = Append(queue, Task(p)) /\ file' = [file EXCEPT ![p] = Tail(@)]
        /\ Present' = Present
    BY <1>3, AskFacts
  <2>2. p \in Present
    BY <2>1 DEF Present
  <2>3. ~ \E i \in DOMAIN queue : queue[i].requester = p
    BY <1>1, <2>1 DEF Awaiting
  <2>4. file[p] \notin {None, <<>>} /\ Len(queue) < MaxSize
    BY <1>1, <1>3, <2>1 DEF IsFull, IInv, Tracks, Ask, HasTask
  <2>. QED BY <2>1, <2>2, <2>3, <2>4
           DEF Scheduler!Ask, Scheduler!HasRequest, Present, Task
<1>4. ASSUME NEW p \in Requesters, Leave(p) PROVE Scheduler!Leave(p)
  <2>1. /\ pc[p] = "produce" /\ UNCHANGED <<queue, file>> /\ p \in Present /\ Present' = Present \ {p}
        /\ file[p] = <<>>
    BY <1>4, LeaveFacts
  <2>2. ~ \E i \in DOMAIN queue : queue[i].requester = p
    BY <1>1, <2>1 DEF Awaiting
  <2>. QED BY <2>1, <2>2 DEF Scheduler!Leave, Scheduler!HasRequest, Present
<1>5. CASE Moves
  BY <1>2, <1>3, <1>4, <1>5, QuietSteps DEF Scheduler!Next
<1>6. CASE UNCHANGED vars
  BY <1>2, <1>6 DEF vars, data, Present
<1>. QED BY <1>5, <1>6 DEF Next, Moves, Exited

LEMMA InitImplements == Init => Scheduler!Init
<1>. SUFFICES ASSUME Init PROVE Scheduler!Init
  OBVIOUS
<1>1. /\ file \in [Requesters -> Seq(Ints) \cup {None}]
      /\ queue = <<>> /\ \A p \in Requesters : pc[p] = "open"
  BY SchedulerAssumption, Constants DEF Init, InitThreads
<1>2. {p \in Requesters : pc[p] \notin {"last", "end"}} = Requesters
  BY <1>1
<1>3. Scheduler!Ints = Ints
  BY DEF Scheduler!Ints, Ints, Scheduler!IntMin, IntMin
<1>. QED BY <1>1, <1>2, <1>3 DEF Scheduler!Init

(* main_new.cpp does nothing that a nearest-first scheduler may not do:    *)
(* what it does to the list is to append each producer's next track, at    *)
(* most one of each and maxSize of all.                                    *)
THEOREM SecondSchedulerIsNearestFirst == Spec => ImplementsNearestFirst
<1>1. IInv /\ [Next]_vars => [Scheduler!Next]_(Scheduler!vars)
  BY StepImplements
<1>. QED BY <1>1, InitImplements, Invariance, PTL DEF Spec, ImplementsNearestFirst, Scheduler!Spec
-----------------------------------------------------------------------------
(* Where a producer's tracks come from: ReadFile and produceTask, which    *)
(* share nothing with the scheduler but the tasks.                         *)

(* The inductive invariant of ReadFile.  While the file is open, the tasks *)
(* and what is left to read are the file's lines; feof holds only when     *)
(* nothing is left.                                                        *)
Prefixed ==
  /\ tasks \in Seq(Lines)
  /\ Len(tasks) <= Len(text.lines)
  /\ \A i \in 1 .. Len(tasks) : tasks[i] = text.lines[i] /\ tasks[i] # Blank

Reading ==
  /\ left \in Seq(Lines)
  /\ Len(left) = Len(text.lines) - Len(tasks)
  /\ \A i \in 1 .. Len(left) : left[i] = text.lines[Len(tasks) + i]
  /\ atEnd => left = <<>>

Stopped ==
  \/ Len(tasks) = Len(text.lines)
  \/ text.lines[Len(tasks) + 1] = Blank

ReaderInv ==
  /\ text \in Texts /\ isOpen \in BOOLEAN /\ atEnd \in BOOLEAN
  /\ Prefixed
  /\ isOpen => Reading
  /\ ~isOpen => Stopped

LEMMA TextTypes ==
  ASSUME text \in Texts
  PROVE  /\ text.lines \in Seq(Lines) /\ Len(text.lines) \in Nat
         /\ text.newline \in BOOLEAN
<1>1. text.lines \in Seq(Lines) /\ text.newline \in BOOLEAN
  BY TextsAssumption
<1>. QED BY <1>1, LenProperties

LEMMA ReaderInitInv == ReaderInit => ReaderInv
<1>. SUFFICES ASSUME ReaderInit PROVE ReaderInv
  OBVIOUS
<1>1. text \in Texts /\ left = text.lines /\ tasks = <<>> /\ ~atEnd /\ isOpen
  BY DEF ReaderInit
<1>2. Len(tasks) = 0 /\ tasks \in Seq(Lines)
  BY <1>1, EmptySeq
<1>3. Prefixed
  BY <1>1, <1>2, TextTypes DEF Prefixed
<1>4. Reading
  BY <1>1, <1>2, TextTypes DEF Reading
<1>. QED BY <1>1, <1>3, <1>4 DEF ReaderInv, ReaderInit

(* The three ways in which nextLine ends.                                  *)
LEMMA LineRead ==
  ASSUME ReaderInv, ProduceTask, ~atEnd, left # <<>>
  PROVE  ReaderInv'
<1>. DEFINE k == Len(tasks)
            l == Head(left)
<1>1. /\ text \in Texts /\ UNCHANGED text /\ Prefixed /\ Reading
      /\ k \in Nat /\ Len(text.lines) \in Nat
  BY LenProperties, TextTypes DEF ReaderInv, ProduceTask, Prefixed
<1>2. Len(left) \in Nat \ {0} /\ l = left[1] /\ l \in Lines
  BY <1>1, EmptySeq, HeadTailProperties DEF Reading
<1>3. /\ Tail(left) \in Seq(Lines) /\ Len(Tail(left)) = Len(left) - 1
      /\ \A i \in 1 .. Len(Tail(left)) : Tail(left)[i] = left[i + 1]
  BY <1>1, HeadTailProperties DEF Reading
<1>4. k + 1 <= Len(text.lines) /\ text.lines[k + 1] = l
  BY <1>1, <1>2 DEF Reading
<1>5. /\ line' = l /\ left' = Tail(left)
      /\ atEnd' \in BOOLEAN /\ (atEnd' => Len(left) = 1)
      /\ isOpen' = (l # Blank)
      /\ tasks' = IF isOpen' THEN Append(tasks, l) ELSE tasks
  BY DEF ProduceTask, NextLine
<1>6. CASE l = Blank
  <2>1. Prefixed' /\ Stopped'
    BY <1>1, <1>4, <1>5, <1>6 DEF Prefixed, Stopped
  <2>. QED BY <1>1, <1>5, <1>6, <2>1, TextTypes DEF ReaderInv
<1>7. CASE l # Blank
  <2>1. tasks' = Append(tasks, l) /\ isOpen'
    BY <1>5, <1>7
  <2>2. /\ tasks' \in Seq(Lines) /\ Len(tasks') = k + 1 /\ tasks'[k + 1] = l
        /\ \A i \in 1 .. k : tasks'[i] = tasks[i]
    BY <1>1, <1>2, <2>1, AppendProperties DEF Prefixed
  <2>3. Prefixed'
    BY <1>1, <1>4, <1>7, <2>2 DEF Prefixed
  <2>4. Reading'
    <3>1. Len(left') = Len(text.lines) - (k + 1)
      BY <1>1, <1>2, <1>3, <1>5 DEF Reading
    <3>2. ASSUME NEW i \in 1 .. Len(left') PROVE left'[i] = text.lines[k + 1 + i]
      <4>1. i + 1 \in 1 .. Len(left) /\ left'[i] = left[i + 1]
        BY <1>2, <1>3, <1>5
      <4>2. left[i + 1] = text.lines[k + (i + 1)]
        BY <1>1, <4>1 DEF Reading
      <4>3. i \in Int /\ k + (i + 1) = k + 1 + i
        BY <1>1
      <4>. QED BY <4>1, <4>2, <4>3
    <3>3. atEnd' => left' = <<>>
      <4>1. atEnd' => Len(Tail(left)) = 0
        BY <1>3, <1>5
      <4>. QED BY <1>3, <1>5, <4>1, EmptySeq
    <3>. QED BY <1>1, <1>3, <1>5, <2>2, <3>1, <3>2, <3>3 DEF Reading
  <2>. QED BY <1>1, <1>5, <2>1, <2>3, <2>4, TextTypes DEF ReaderInv
<1>. QED BY <1>6, <1>7

LEMMA NothingRead ==
  ASSUME ReaderInv, ProduceTask, atEnd \/ left = <<>>
  PROVE  ReaderInv'
<1>1. /\ text \in Texts /\ UNCHANGED text /\ Prefixed /\ Reading
      /\ Len(tasks) \in Nat /\ Len(text.lines) \in Nat
  BY LenProperties, TextTypes DEF ReaderInv, ProduceTask, Prefixed
<1>2. isOpen' = FALSE /\ tasks' = tasks /\ atEnd' \in BOOLEAN
  BY DEF ProduceTask, NextLine, Emptied, ReaderInv
<1>3. Len(tasks) = Len(text.lines)
  BY <1>1, EmptySeq DEF Reading
<1>. QED BY <1>1, <1>2, <1>3 DEF ReaderInv, Prefixed, Stopped

LEMMA ReaderNextInv == ReaderInv /\ [ReaderNext]_readerVars => ReaderInv'
<1>1. ASSUME ReaderInv, UNCHANGED readerVars PROVE ReaderInv'
  BY <1>1 DEF readerVars, ReaderInv, Prefixed, Reading, Stopped
<1>. QED BY <1>1, LineRead, NothingRead DEF ReaderNext, Closed

-----------------------------------------------------------------------------
(* A producer makes a task of each line before the first blank one, of any *)
(* file, whether or not it ends in a newline, and of no other line.        *)
THEOREM ProducesTheTracks == ReaderSpec => []TracksBeforeBlank
<1>1. ASSUME ReaderInv PROVE TracksBeforeBlank
  <2>. DEFINE k == Len(tasks)
  <2>1. /\ tasks \in Seq(Lines) /\ text.lines \in Seq(Lines)
        /\ k \in Nat /\ Len(text.lines) \in Nat /\ k <= Len(text.lines)
        /\ \A i \in 1 .. k : tasks[i] = text.lines[i] /\ tasks[i] # Blank
    BY <1>1, TextTypes, LenProperties DEF ReaderInv, Prefixed
  <2>2. IsPrefix(tasks, text.lines)
    <3>. DEFINE a == SubSeq(tasks, 1, k)
                b == SubSeq(text.lines, 1, k)
    <3>1. \A i \in 1 .. k : tasks[i] \in Lines /\ text.lines[i] \in Lines
      BY <2>1, ElementOfSeq
    <3>2. a \in Seq(Lines) /\ Len(a) = k /\ \A i \in 1 .. k : a[i] = tasks[i]
      BY <2>1, <3>1, SubSeqProperties
    <3>3. b \in Seq(Lines) /\ Len(b) = k /\ \A i \in 1 .. k : b[i] = text.lines[i]
      BY <2>1, <3>1, SubSeqProperties
    <3>. HIDE DEF a, b
    <3>4. a = b
      BY <2>1, <3>2, <3>3, SeqEqual
    <3>. QED BY <2>1, <3>4 DEF a, b, IsPrefix
  <2>3. Blank \notin Range(tasks)
    BY <2>1, LenProperties DEF Range
  <2>. QED BY <1>1, <2>2, <2>3 DEF ReaderInv, Stopped, TracksBeforeBlank
<1>2. ReaderInv => TracksBeforeBlank
  BY <1>1
<1>. QED BY <1>2, ReaderInitInv, ReaderNextInv, PTL DEF ReaderSpec
=============================================================================
