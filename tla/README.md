# A verification of the user-level threads and disk scheduler of Multi_thread_concurrency

The repository holds a user-level thread library (`thread.cc`), an unfinished
second version of it (`mykernel.cpp`), a disk scheduler written on top of it
(`main.cpp`, and a later version `main_new.cpp` with a few headers), and a
separate program that builds an inverted index (`read_file.cpp`).  This
directory models all of them in TLA+, checks the models with TLC and proves the
safety of both thread libraries, both schedulers, the line reader and the index
with TLAPS: every safety property that a passing run checks has a theorem.

## 1. The system

### Parts, state, operations

| Part | Code | State | Operations |
|---|---|---|---|
| Contexts and run queue | `thread.cc` | `thread_libinited`, `ct_running`, `ct_queue_runnable`, the saved stacks | `thread_libinit`, `thread_create`, `thread_yield`, `thread_start`, `thread_delete_switch` |
| Locks | `thread.cc` | `locks_using`, one lock set per context, `ct_queue_waiting` | `thread_lock`, `thread_unlock`, and the `_unatomic` forms that `thread_wait` calls |
| Condition variables | `thread.cc` | `ct_queue_cv` | `thread_wait`, `thread_signal`, `thread_broadcast` |
| Interrupt library | `interrupt.h`, `libinterrupt.a` (binary) | `interrupts_are_disabled`, the timer | `interrupt_disable`, `interrupt_enable`, the SIGALRM handler that calls `thread_yield` |
| Second thread library | `mykernel.cpp` | the same, in `readyQueue`, `waitQueue`, `waitCvQueue` | the same calls |
| Request list | `waitqueue.h`, `task.h` | a list of tasks, `maxSize` | `append`, `pop`, `size`, `isFull`, `isEmpty` |
| Disk scheduler | `main.cpp` | `wait_queue`, `thread_num`, `active_producer`, `cur_track`, each requester's file and number | `ReadTxt` (one thread per file), `ServiceThread`, `first_thread_start_function`, `main` |
| Disk scheduler, second version | `main_new.cpp`, `consumer.h` | the same, without the shared counter; the consumer's `task` | `producerThreadFunction`, `consumerThreadFunction`, `executetask` |
| Line reader and producer | `readfile.h`, `producer.h` | a file and its end-of-file mark | `nextLine`, `close`, `produceTask` |
| Inverted index | `read_file.cpp` | a map from words to lists of file numbers | `ReadTxt`, `compare_str` |
| Tests | `lock_test.cc`, `cv_test.cc`, `thread_test.cc` | none | print what the calls return |

### How they interact

The whole process is one operating-system thread.  Contexts share the globals
of the library and are switched with `swapcontext`.  Every library call runs
between `interrupt_disable` and either `interrupt_enable` or a switch; a
thread that is switched to continues inside the call it was suspended in, with
interrupts still disabled by somebody else, and enables them itself.  In
application code the timer (and, with `sync`, the interrupt library around
every mask change) calls `thread_yield` at any point.

A lock that is released while threads wait for it is handed to the oldest of
them: it enters that thread's set and stays in `locks_using`, and the thread
goes to the run queue.  Condition variables are Mesa style: a signalled thread
is made runnable and takes its lock back when it runs.  A thread that blocks
with an empty run queue, or ends with one, ends the process.

In `main.cpp` all data but `thread_num` is used under lock 1.  Requesters that
wait for room and the service thread sleep on condition 1; a requester that
waits for its request to be served sleeps on the condition with its own
number, which for requester 1 is condition 1 again.  `main_new.cpp` has the same
threads and conditions; its producers have their numbers from `main`'s loop,
read their files under the lock, and ask the list itself whether it is full.

### What is hard

Preemption between any two calls; the hand-off of a lock to a thread that runs
much later; the mask that one thread sets and another clears; queues scanned
and erased from in the same loop; the end of the process decided from the run
queue alone; wake-ups that go to the wrong thread; a decision of the service
thread that is not taken again after a wait; threads and files that a thread waits for
and that never came to be; a list without room; the end of a file, which is
known only after a read has failed; int overflow in the choice of the nearest
track.  `PROJECT.json` lists each hazard at its line, with the
properties that would catch it going wrong.

### What makes each part correct

* Contexts: a live thread is running or in exactly one queue, once; the mask
  is set exactly while the library runs; nobody in the run queue starves; the
  process ends only when nobody can run.
* Locks: one holder; `locks_using` agrees with the sets; nobody sleeps on a
  free lock; the oldest waiter gets it; a woken thread already has it; whoever
  waits gets the lock, as long as locks are given back.
* Conditions: first in, first out; a broadcast leaves nobody behind;
  `thread_wait` returns with the lock.
* Request list: bounded; `pop` takes the oldest nearest request.
* Disk scheduler: shared data only under the lock; one request per requester;
  seen without threads, a nearest-first scheduler that serves only when the
  list is as full as it can get; every request served; the service thread the
  last to go; the process ends.
* Line reader: one task for each line, whether or not the last one ends in a
  newline.
* Inverted index: each file's number at the words of the file and at no other.

## 2. Modules

| Module | What it is |
|---|---|
| `ThreadLib` | `thread.cc`, one action per call and one per continuation after a switch |
| `LockMonitor` | the abstract specification: locks with FIFO hand-off and FIFO condition variables, without contexts, run queue or mask |
| `ThreadLibRefinement` | the refinement mapping from `ThreadLib` to `LockMonitor` |
| `WaitQueue` | `waitqueue.h` as operators on sequences |
| `NearestFirst` | the abstract specification of a disk scheduler: requesters, a bounded list, a head; no threads |
| `SchedulerThreads` | what the two schedulers share: threads, the list, creation and end, and the calls into `ThreadLib` |
| `DiskScheduler` | `main.cpp` on top of `SchedulerThreads`, with its refinement mapping to `NearestFirst` |
| `DiskSchedulerNew` | `main_new.cpp` on top of `SchedulerThreads`, with the same mapping |
| `ReadFile` | `readfile.h` and `produceTask` of `producer.h`, line by line |
| `MyKernel` | `mykernel.cpp`, with its refinement mapping to `ThreadLib` |
| `WordIndex` | `read_file.cpp`, one step per line read |
| `ThreadLibProofs`, `MyKernelProofs`, `WaitQueueProofs`, `DiskSchedulerProofs`, `DiskSchedulerNewProofs`, `WordIndexProofs` | the theorems about the module each is named after, in `ThreadLibProofs` the refinement of `LockMonitor` too, in `DiskSchedulerNewProofs` the theorem about `ReadFile`, from which its producers have their tracks |
| `SchedulerThreadsProofs` | lemmas: what a step of the library does to a scheduler's threads, locks and sleepers |
| `SequenceFacts` | lemmas on sequences and on least elements |
| `MC*` | instances for TLC, `MCThreadLib` with the refinement; `MCWaitQueue` also makes the calls of append and pop a state machine |

### ThreadLib

Variables carry the names of the globals, shortened: `running` is `ct_running`,
`runnable`, `waiting` and `cv` the three queues, `using` `locks_using`.
`locks[t]` is the set to which the `locks` pointer of context `t` points;
`locks_running` is that of the running thread, because every switch assigns
both.  `frame[t]` stands for the stack of `t`: where it continues and in a call
for which lock and condition.  `masked` is the flag of the interrupt library.
`leaked` is a history variable.

A call is one step up to the switch or the return, since interrupts are
disabled all along.  What a thread does after a switch is a second step
(`Start`, `ResumeYield`, `ResumeLock`, `ResumeWait`, `ResumeRelock`), enabled
when the thread is running, masked and its frame says so.  `thread_broadcast`
takes one step per waiter.  `Enter` is the guard of every call: the assertion
of `interrupt_disable` and the fact that only the running thread can call.
Refused calls (-1) and calls that find nothing to do change nothing and are
stuttering steps.  A preemption is a `Yield`.  Calls that `main` makes itself
other than `thread_libinit` are refused before initialisation; what they would
do after a failed initialisation (a null `ct_running`) is outside the model.

### SchedulerThreads and DiskScheduler

`pc[t]` says where the code of a thread continues when its library call
returns.  A step (`Step`) is the code up to and including the next call; that
is enough, because everything in between is done under lock 1, except for
`thread_num++` and the read that follows, which are three steps: load, store,
load.  `Preempt` is possible wherever application code runs.  The library
steps are those of `ThreadLib`, through `Lib == INSTANCE ThreadLib`.
`executed[p]` is the flag of the last task of requester `p`.  `main.cpp` was
written against an older `Task` and `WaitQueue` (no bound in the constructor,
`setFileState` for `setExecuted`); the list is the one in `waitqueue.h`, with
`max_size` as its bound, which `main.cpp` checks itself before it appends.

What fails, and what the code makes of it: `thread_libinit` and `thread_create`
may fail, up to `MaxFailures` times, and nobody looks at what they return; a
file that cannot be opened (`None` in `Files`) leads to a null pointer, and
the thread takes the process with it (`Die`).  `max_size` is any int, because
`atoi` makes it of an argument.  A `pop` without a nearest request returns an
uninitialised pointer (`PopWild`).

### NearestFirst

Four variables: the tracks still to ask for, who is present, the pending
requests, the head.  `Serve` is allowed when the list is full or everybody
present has a request in it, and takes the oldest of the nearest requests by
the true distance, not the one that `int` computes.  The mapping of
`DiskScheduler` drops the numbers, flags and threads: `file`, the requesters
that have not passed `active_producer--`, `queue`, and the track of `cur_track`.

### DiskSchedulerNew

The consumer passes its own `task` to `pop`, null at first.  If the list holds a
request, that null pointer is used; if the list is empty, `pop` returns an
uninitialised pointer.  Neither way is a request ever marked, so the model has
no action in which a producer sees one that is; `NeverServes` is the invariant
on which that rests.  The other uninitialised pointer, the file of
`readfile.h:13`, is fatal or designates the opened file.

### ReadFile

`Lines` is what a line can be.  The text is a sequence of lines with or without a final newline; `atEnd` is
`feof`, which becomes true only when a read meets the end.  The specification is
called `ReaderSpec`, so that one module can extend both this one and
`DiskSchedulerNew`.  The buffer `line`
keeps what it held unless the code empties it.  `DiskSchedulerNew` takes
from here that the tracks of a producer are the lines before the first blank.

### MyKernel

`interrupt_disable` in the library that is linked aborts when interrupts are
already disabled.  `thread_wait` (line 282, then 252) and the end of a thread
(line 67, then 44) run into that, so `waitCvQueue` is always empty and no
context is freed; `thread_signal` and `thread_broadcast` find nobody.  The rest
is modelled: creation, yield, locks with hand-off, the lock that is refused when
no thread can run.  A switch to a context that
`getcontext` never filled works or crashes; at the end of a thread that is
`ct_safe`, a zeroed global, with which glibc probably crashes before
`thread_delete` can abort (`DeleteCrashes`, `DisableAborts`).  `frame` and the hand-off are as in
`ThreadLib`, and the mapping `ThreadCC` sends a process that has died, or is
about to, to a `ThreadLib` state that makes no step.

### WordIndex

Variables are the locals of `ReadTxt`; `names` and `text` are what is left to
read of the listing and of the open file.  One step is one `fgets`: of the
listing, with the `fopen` that follows (`NextName`), or of a text, with the
loop over the characters it delivered (`ReadText`, and `EndOfText` when it
delivers nothing).  A character is a letter or not, so the loop over `s` is the
set of the longest runs of letters (`Words`).  `stale` says that `content` was
never written: if the first file is empty, whatever was on the stack is
indexed under number 0 (`Garbage`).  `Merge` and `Sort` are libstdc++'s, with
the predicate as the code gives it.

## 3. Runs

| Run | Bounds | Question and answer |
|---|---|---|
| `thread_library` | 4 threads, 2 locks, 2 conditions, symmetric | Eight state invariants and three action properties of the library hold in every interleaving, and every behaviour is one of `LockMonitor`. |
| `thread_library_progress` | 4 threads, 1 lock, 1 condition | With preemption a runnable thread eventually runs, and a thread that waits for a lock gets it if every thread is without locks again and again. |
| `wait_queue` | ints of -8 to 7, lists up to 3, all tracks | `pop` takes the oldest nearest request unless what it takes overflows; its result is uninitialised exactly when the list is empty or every distance comes out as `INT_MAX`. |
| `disk_scheduler` | 3 requesters, a list of 2, one request each | The shared list and the wake-ups are right; the program implements `NearestFirst`; `pop` always finds a request; requests are stranded only for the two reasons below. |
| `disk_scheduler_progress` | 2 requesters, a list of 2, up to 2 requests each, empty and unreadable files, one failing library call | Requests with unique numbers are served unless a thread is missing; the service thread ends only when everybody's requests are served; the process ends. |
| `disk_scheduler_no_room` | 2 requesters, `max_size` 0 | The process ends, or the service thread goes round its loop for ever with the lock and an empty list. |
| `disk_scheduler_numbers` | 2 requesters, a list of 2, up to 2 requests each | Violation: two requesters with one number. |
| `disk_scheduler_new` | 3 producers, a list of 2, up to 2 requests each; one failing library call; a file that cannot be opened | No request is ever served; where and how `main_new.cpp` ends (below). |
| `read_file` | every file of up to 4 lines of two tracks and blanks | A task for each line before the first blank, once and in order. |
| `word_index` | listings of up to 3 of 6 names, empty ones included, a buffer of 5, lines shorter and longer than it | The numbers of every file are exact, the last file counts twice after a final newline, the words are printed backwards. |
| `mykernel` | 4 threads, 2 locks | Until it dies, `mykernel.cpp` implements `thread.cc`; a lock is refused only in a deadlock. |
| `mykernel_aborts` | as before | Violation: the assertion of `interrupt_disable` fails, at the end of a thread and in `thread_wait`. |

The bounds are enough for the cases that matter.  Four threads are a holder,
two waiters whose order can be confused and a third party that barges or
signals; two locks give lock-order deadlocks and hand-off in `thread_wait`;
two conditions tell waiters apart.  All numbers of threads are small because
contexts are not reused: an ended thread stays "done", so the behaviours are
finite.  Three requesters and a list of two are the smallest instance in which
the service thread takes its first branch and then has too few requesters left
to leave it, and in which one requester waits for room while two wait to be
served; for `main_new.cpp` they are the smallest with more, as many and fewer
producers than `maxSize`.  One failing call shows what each of them does, and
with two requesters there is always one that goes on.  Four lines hold a blank
one before, between and after others.  Overflow shows with any int width; 4 bits
hold every relation between two tracks and `INT_MAX`.

Deadlock checking is on in every run; a process that has ended stutters
(`Exited`, `Ended`).  `wait_queue` cannot stop because a refused append is a
step.

**Fairness.**  `thread_library_progress` assumes that the processor finishes a
suspended call (`WF(Resume)`) and that the timer preempts a thread that stays
in its own code (`WF(Yield)`, the asynchronous preemptions of
`start_preemptions`).  `disk_scheduler_progress` adds strong fairness of each
thread's own steps: a preempted thread runs again for up to 10 ms before the
next signal, so it cannot be preempted for ever at one point.  The progress runs
with `max_size` 0 and of `main_new.cpp` assume the same.  `LocksAreGranted` is
conditional: it asks of the application that every thread has no lock
infinitely often and that none ends with one.

### What the runs show about main.cpp

Whatever the interleaving, two requesters with one number included, the program
is a nearest-first scheduler (`ImplementsNearestFirst`).
`StrandedOnlyByKnownDefects` says when the process can end with requests that
nobody served, apart from a library call that failed or a file that could not
be opened; both cases are reachable.

1. Two requesters with one number.  `thread_signal(1, number)` wakes the older
   of the two; if the other one's request was served, it sleeps on and the
   woken one goes back to sleep.
2. The service thread compares `active_producer` with `max_size` once and then
   waits for `max_size` requests.  When requesters leave during that wait there
   may be fewer of them left than `max_size`; it waits for ever, and the last
   thread that blocks ends the process.

Unless every file is empty the service thread returns from inside its loop
(line 76) with lock 1, which then counts as used for ever; `LeakIsHarmless`
shows that no thread asks for it again.

A requester that could not be created is still counted in `active_producer`.
The service thread waits for its goodbye and never ends; the others are served
while the list can be filled without it.  With `max_size` 0, which is what
`atoi` makes of an argument that is no number, nobody finds room, and the
service thread pops an empty list.

### What the runs show about main_new.cpp

No request is served.  While more producers than `maxSize` are active the
consumer waits for a full list and then uses its null `task`; while as many are
active as `maxSize` it does not wait at all, and uses the null `task` or an
uninitialised pointer; while fewer are, it waits for ever, because the inner
loop looks at nothing but `activeProducer` then (`ShortOfProducersForGood`), and
the last thread that blocks ends the process.  It ends well only if nobody
asked for a track (`EndsWellOnlyIfUnused`).  If the wild pointer happens to do
no harm, the consumer goes on popping the empty list and never gives up lock 1.
The locking itself is right (`LockHeldThroughout`), and so is the list.

### What the runs show about readfile.h

`nextLine` tests `feof` before it reads, so a file with a final newline, or an
empty one, yields one more line, an empty one, after looking at the byte
before the buffer; the comment promises false.  `produceTask` takes an empty
line for the end, so no task is made of it, and none of anything after a blank
line either.

### What the runs show about pop

A request less than `INT_MAX` tracks away that `pop` takes is the oldest of the
nearest, whatever the others are (`PopTakesNearest`).  A difference beyond that
wraps: it comes out as the least int when it is one more than `INT_MAX`, and
smaller the larger it is after that, so such a request can be preferred to a
nearer one.  `perfectNode` stays uninitialised exactly when the list is empty or
every distance is `INT_MAX` or two more, which both come out as `INT_MAX`; the
model then lets it be any request, or an address that is none (position 0 of
`PopChoices`).

### What the run shows about read_file.cpp

A listing that ends in a newline makes the outer loop run once more with the
last name still in the buffer: that file is indexed twice, under two numbers.
A word across the end of the buffer becomes two words.  `compare_str` returns
1 or -1 for any two words, and `list::sort` takes both for "goes first": its
merges always take from the later list, so the map's order is reversed.  The
rule of `compare_str` that a prefix goes first never matters.  With an empty
listing the loop still runs once, on whatever name the buffer holds.

## 4. Proofs

Every theorem holds for any sets of threads, locks and conditions, any number
of requesters, any files, listings and texts, and any size of the list; the assumptions are the
named `ASSUME`s of the modules (`None` is none of the other constants, numbers
are numbers, the files hold ints, a buffer has room for a character), which TLC evaluates in the runs.  A proof
has the usual three parts: `Init` implies an invariant, every step preserves
it, and it implies what is wanted.  TLC checked each inductive invariant on the
instances of section 3, and on variations of their bounds, before it was
proved.

### thread.cc (`ThreadLibProofs`)

Every property of the run `thread_library` is proved.  The invariants are not inductive one by one.
Their conjunction becomes so with two more: `WaitsForUsedLock` (nobody sleeps
on a lock that is free or its own) and `QueuesMatchFrames` (a queue entry agrees
with the frame of the thread it names, or the continuation after a switch could
return without its lock).  Shared pieces have lemmas of their own
(`DispatchFacts`, `ReturnInv`, `LockLoopInv`, `ReleaseFacts`, `ReleaseInv`,
`WakeOneFacts`, `WakeOneInv`); queues are handled through three facts about
sequences without repetition: appending adds exactly one element, taking the
head or removing a position takes exactly one away (`AppendIsWith`,
`TailIsWithout`, `RemoveAtIsWithout`).  The action properties follow from the
invariant, one step of the proof per action that grants a lock, wakes a thread
or resumes one.

`LibraryIsAMonitor` is the refinement of `LockMonitor`.  `LockMonitor` gives every
lock and every condition a queue of its own, where the code has two vectors for
all of them; the mapping takes a queue out of its vector by position
(`ThreadsOf`, `InOrder`), because the provers know nothing of the
second-order `SelectSeq`.  What the code does to a vector is therefore first
said of the queues: an entry that is appended joins its own queue at the end and
no other (`QueueAppendOwn`, `QueueAppendOther`), and one that is erased was the
first of its own and is missed by no other (`QueueEraseFirst`,
`QueueEraseOther`).  Then each action has a lemma that names the step of the
monitor it is (`UnlockRefines`, `WaitRefines` and so on); the loop of
`thread_broadcast` wakes, for the monitor, everybody when it begins, and what it
does afterwards is a stutter.  The invariant needs one part more, `HasReleased`:
a thread in `thread_wait` does not have the lock it released, or its taking
the lock back would be invisible.  That the process ends only when nobody could
go on (`OthersBlocked`) rests on `NoThreadLost`.

### mykernel.cpp (`MyKernelProofs`)

`KernelIsALibrary` is the refinement: every step of `mykernel.cpp` is a step of
`thread.cc`, seen through `ThreadCC`, or none.  The invariant `KInv` consists of
the invariant of `thread.cc` seen through the mapping, the types, and what
holds of a process that has died or is about to.  The first part need not be
proved again: a step that maps to a step of `thread.cc` preserves it, by
`ThreadLibProofs` (`SameLibrary` says that the two instances have the same
steps).  The third is what makes the mapping of a dying process a state of
`thread.cc` that stands still.  Mutual exclusion in `mykernel.cpp` comes with
the refinement (`KernelLocksAreSafe`); `RefusalIsDeadlock` needs the rest.

### pop (`WaitQueueProofs`)

The loop of `pop` is a recursive function.  That it can be run to any length
(`PassesExist`) and what it has found after `i` passes (`ScanSees`) are proved
by taking the least length for which they would fail: with a fixed statement
`LeastElement` stands in for the induction rule.  `WrapIsOnce` and `SeekWraps`
say what `int` makes of a distance of any size; with them `PopServesNearest` has
no hypothesis on the tracks, the list's length or the width of `int`.  The
schedulers use the case without overflow, `PopIsNearest`.

### The schedulers

A scheduler's step is a step of `ThreadLib` together with one of the program, so
both proofs use the invariant of `ThreadLib` as it is (`LibInv`) and never open
its proof.  `SchedulerThreadsProofs` says what a program sees of a call:
`Sections` relates where a thread's code is to whether it has lock 1,
`CallEffects` and `ResumeEffects` say who falls asleep and who is woken,
`EndFacts` how the process can end.

`DiskSchedulerProofs` (`main.cpp`) proves every invariant of the three passing
runs and the refinement of `NearestFirst`.  Its inductive invariant adds to the
properties: `Numbering` (the counter `thread_num` against the requesters that
have stored it, without which `id` has no type), `Tasks` and `Bounded` (the
list), `Counting` (`active_producer` is the number of those who have not left),
`Conditions` and `Wakeups` (who sleeps on which condition, and that the reason
still holds unless a broadcast is under way), `Tracks` (what is left of the
files), `Lives` and `Leaks`.  The hardest is `StrandedOnlyByKnownDefects`: when
the process ends by itself, every other thread has ended or sleeps
(`HowItEnds`); each sleeper's reason still holds (`SleepersAreStuck`); and the
list cannot both be too short for the service thread and hold a request of
everyone present (`ListHoldsPresent`).  `SchedulerIsNearestFirst` has two
hypotheses, `MaxSize > 0` and `TracksFit` (no track is `INT_MAX` or negative).
They are needed: with `max_size` 0 an empty list is popped, and beyond them
`int` computes other distances.

`DiskSchedulerNewProofs` (`main_new.cpp`) proves every property of its run but the
liveness property.  `Spinning` is the invariant behind `NeverServes`: after the
first pop of the empty list the consumer has the lock, the list is empty, and
the test it comes back to still lets it through.  `EndsWellOnlyIfUnused` follows
from a statement about one state (`SettledEnds`): if everybody has ended or
sleeps for a reason that holds, and the consumer waits for the list to fill,
the producers present all have a request in the list, which is then longer than
`maxSize`.  The refinement needs no hypothesis here, because nothing is served.

### readfile.h (in `DiskSchedulerNewProofs`)

`ProducesTheTracks`: the tasks are the lines before the first blank one, for
files of any length.  The invariant splits the file into the tasks made and what
is left to read.

### read_file.cpp (`WordIndexProofs`)

`IndexIsRight` holds for any listing, any texts and any buffer of at least two
characters.  Its invariant has three parts.  `Progress`: the files read so far
are the first `fileNum + 1` of `FilesRead`, and `feof` of the listing holds after
the last of them, with a final newline, without one and for an empty listing.
`Unwritten`: `content` can be stale only up to the first `fgets` of a text.
`Exact`: the words that have the number of the open file, and the words of its
text that is left, are the words of the file.  That a step preserves the last
one rests on two facts about the text: a line that fits the buffer is one piece
(`ShortLine`), and of a longer one `fgets` takes the first of its pieces and
leaves the others (`LongLine`); and on one about the dictionary, that
`push_back` unless the number is the last one keeps every list ascending
(`IndexedFacts`).

`PrintsBackwards` holds for any number of words.  `Before` is a strict total
order of the words (`BeforeIrreflexive`, `BeforeTransitive`, `BeforeTotal`);
so every number below that of the words is the rank of one word
(`RanksExist`), and `Keys` lists them in order (`KeysInOrder`).  `compare_str`
says of any two different words that one goes first (`DifferentGoFirst`), which
makes merge swap its lists (`MergeSwaps`) and sort turn a list round
(`SortReverses`).  The last two are about recursive functions.  They are shown as
`PassesExist` is: the reversal satisfies the recursion, so there is a function
that does; and the function chosen equals it, since at the first place where it did not,
unfolding it once would contradict that it is the first.

### What the proofs corrected

Some statements that TLC had accepted on small instances were too weak or
false in general and were changed: the bound that `ActiveCount` puts on the list
(a list with a negative bound is empty, not shorter than the bound), the set
of conditions (the numbers start at -1, and condition 1 must be there when there
are fewer than two requesters), and the width of `int`, which is now
`IntMax`, any natural number, instead of a number of bits.  `CompareStr` was a
`CASE` in which two conditions can hold at once (words that differ and are
equally long); TLC takes the first, TLA+ any, so it is now what the code is, an
`IF` that looks for a difference first.  `IndexIsExact` said nothing at all of a
listing whose first file is empty; the proof needs that exception for number 0
alone, and that is all the property leaves out now.

### Only model-checked

`NoStarvation`, `LocksAreGranted`, `EveryRequestIsServed`, `Terminates` and
`EndsOrSpins`: liveness under fairness is outside the prover's reach.
`Terminates` and `EndsOrSpins` count a crash, and the return of `main` after a
failed `thread_libinit`, as an end; that nobody deals with these failures is
listed among the hazards and not covered by a property.

## 5. Not modelled

* What an uninitialised pointer does other than kill the process, designate
  the opened file (`readfile.h`), be a request of the list or have no effect
  (`waitqueue.h`).
* The bodies of `mykernel.cpp` that follow a failed assertion: they cannot be
  executed with the interrupt library that is linked.
* The inside of `libinterrupt.a`, a binary: its signal handler is the action
  that preempts.  That `interrupt_disable` and `interrupt_enable` assert the state
  of the mask, on which `Enter`, `MyKernel` and the run `mykernel_aborts` rest, can
  be read in its disassembly: both load `interrupts_are_disabled` first and call
  `__assert_fail` with `!interrupts_are_disabled` and `interrupts_are_disabled`.
  Its own `setcontext` and `swapcontext` (`verifycontext.o`) assert that no switch
  happens with interrupts enabled while the timer runs: `MaskDiscipline`.
* The returns of -1 after a `swapcontext` or `setcontext` that fails (`thread.cc`
  lines 69, 89, 147, 227, 256, 283, 346, 371, 425, 451).  The switches are between
  contexts the library has filled, for which these functions do not fail.
* Calls of the library that `main` would make after a failed `thread_libinit`;
  neither program makes any.
* The tests (`lock_test.cc`, `cv_test.cc`, `thread_test.cc`): they print and
  assert nothing, and the models allow every sequence of calls.
* Output, the contents of files beyond their lines, the layout of `para`,
  and too few arguments on the command line; allocation failures other than
  those of `thread_libinit` and `thread_create`.
* `cmake-build-debug`, `.idea`, `disk`, `thread.o`: generated or binary.

## 6. Plan

Done, in this order: `ThreadLib`; `LockMonitor` and the refinement; the proofs
of `ThreadLib`; `WaitQueue`; `DiskScheduler`; `MyKernel`; `WordIndex`;
`NearestFirst` and what implements it; failing calls and files;
`DiskSchedulerNew`; `ReadFile`; the proofs of `WaitQueue`, `DiskScheduler`,
`MyKernel`, `ReadFile` and `DiskSchedulerNew`; the proof that `ThreadLib`
implements `LockMonitor`; the proofs of `WordIndex`.

Left: the liveness properties have no proof, only their runs.
