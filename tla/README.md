# A TLA+ development for Linux_course

The repository holds the projects of a course on process synchronisation in
Linux: a stack in shared memory, a file transfer over signals, a backup daemon
with its controller, an implementation of `|`, a text filter and fourteen class
exercises. Most of them are small programs whose difficulty lies between the
programs: semaphores that several processes decrement, signals that are lost,
objects in the kernel that one process creates and another removes, directories
that users change under a walk. These are modelled here in TLA+, checked with
TLC, and for the stack (its operations, attach and detach), the signal transfer, the
daemon's loop, start and backups, the pipe's processes and parser and the filter proved with TLAPS.

`PROJECT.json` lists the components, the runs, the source lines of every
definition (`map`), the hazards and the theorems.

## Inventory

| component | source | state | operations |
|---|---|---|---|
| stack: operations | `shared_stack/stack.c` | segment of slots; semaphores 0 mutex, 1 elements, 2 free slots; wait value and timeout of each handle | `push`, `pop`, `set_wait`, `stack_dump`, `get_*` |
| stack: attach and detach | `shared_stack/stack.c` | what the key names; segments, sets, `shm_nattch`, semaphore 4 | `attach_stack`, `detach_stack`, `mark_destruct` |
| stack: demo program | `shared_stack/main.c` | none of its own | fixed call sequences |
| signal file transfer | `signals/` | pending signals, the accepted sender, size and offset on both sides | `SIGUSR1` size, `SIGUSR2` word, answers, `SIGINT`, `SIGTERM` |
| daemon: event loop | `daemon/src/daemon/main.c` | set of awaited signals, mode, run, interval, directories, alarm clock, FIFO | one handler per signal |
| daemon: controller | `daemon/src/controller/` | pid of the daemon | check, start/stop, directory, interval, mode, kill |
| daemon: start and stop | `daemon/src/daemon/daemon.c` | pid file and its lock, FIFO, descriptors, signal dispositions | `daemonize`, `shutdown` |
| daemon: backup | `daemon/src/daemon/backup.c` | directory trees, inotify instances and their events | classic, full and incremental backup |
| daemon: containers | `daemon/src/hashtable/` | doubly linked lists, table of lists | insert, find, delete, clear |
| daemon: text parser | `daemon/src/daemon/parser.c` | none; nothing calls it | |
| pipe: parser | `pipe/parser.c` | a text that is cut in place | count, cut into commands and arguments |
| pipe: processes | `pipe/main.c`, `pipe/pipe.c` | pipe ends, children | fork, dup2, close, exec, wait |
| BIZZBUZZ | `BIZZBUZZ/main.c` | chunk of the file, partial word, static digits | classify and print a word |
| class tasks | `class_tasks/` | one file each | e.g. poll relay, message relay, lock file, mmap copy |

How they interact. Processes that use a stack share only the two kernel objects
that one key names; each operation is a sequence of `semop` calls around
accesses to the memory. Sender and receiver share nothing but signals. The
controller knows the daemon's pid from its file, sends it signals with a value,
and for a directory writes the path to a FIFO after the signal. The loop calls
the backup, which keeps its watches in the hash table.

What is hard, and the properties that make the parts correct:

* **Stack operations.** Three wait modes mix the counting semaphores inside and
  outside the mutex. No two processes may be in the critical section, no slot may
  be lost or counted twice, no access may leave the segment, and with the default
  mode the whole must look like an atomic stack and every call must return.
* **Attach and detach.** Segment and set are created, found and removed by
  separate calls. No one may use a half-initialised set; semaphore 4 may not be
  lost; whoever is attached keeps the semaphores; the last one removes them.
* **Signal transfer.** Standard signals do not queue. No word may be lost or
  written twice, only one sender may be served, success may only be reported for
  a complete file, and no party may outlive the other.
* **Daemon.** Handlers change the set of signals the loop waits for. It must
  match mode and state, the next backup must always be ahead, and what a
  controller announces must be what the daemon has.
* **Start and stop.** Daemons start, end and are killed at any time. The lock on the
  pid file must keep a second one out, and go with it when it ends; pid file, FIFO
  and the numbers of the descriptors must be the ones of the daemon that serves.
* **Backup and containers.** A walk over the source meets paths that come and go,
  and frees list elements as it goes. No watch may be lost or leak, the version
  must be complete, and between two rounds the events must say what has changed.
* **Pipe.** One end too many that somebody keeps open, and a command waits for ever;
  the commands must never all wait for each other, and the parent must end last.
* **Filter.** Chunks cut words, and one descriptor serves for reading and copying.
* **Class tasks** are exercises of one file each around one system call.

## Modules

**`AtomicStack`** is what `stack.h` promises: a bounded sequence, `push` that fails
when it is full, `pop` that fails when it is empty, each at one instant between
call and return.

**`SharedStack`** is what `stack.c` does. A label in `pc[p]` names the system call
or memory access that process `p` is about to make; tables such as `AfterLock`
and `AfterAddCount` give the next label, so that one action (`Lock`, `AddCount`,
...) stands for the same `semop` in all variants of `push` and `pop`. Labels with
`w` belong to wait value 0, those with `t` to wait value 1. `at[p]` is the index
that was computed from `get_count` and is used a step later. `set_wait` takes any
argument of `WaitArgs`; with an invalid one, or value 1 without a timeout, it returns with
the mutex taken, as the code does. `Crash` stops a process anywhere; nothing is
undone, for `sem_flg` is 0. The pushed pointers are never the poison value: a
caller that pushes it cannot tell it from a free slot.

**`StackLifecycle`** has one action per system call of attach and detach. A segment
and a set have an identity apart from the key, so a process may hold an object
that the key does not name any more. A `semop` on a removed set fails, is reported
and ignored, which is what the code does. The order of the five `SETVAL`s is kept
(the index is `setvals`), their values other than semaphore 4's are not.

**`SignalTransfer`** has the two programs from the first `sigqueue` on. `pend[x][sig]`
holds at most one signal; `Post` drops a second one. `sigwaitinfo` takes any
pending signal of the set; `send_data` clears `info` before each wait (`Clear`), after the word was sent, so
a `SIGINT` finds it before or after. Words have `Word` bytes and the size passes through a
`si_int` of `IntWidth` bits, so sizes that wrap are small numbers. `SIGINT` runs its
handler between any two steps. A process that ended is a zombie until it is
reaped; signals to a zombie succeed, to a reaped process they fail.

**`DaemonLoop`** has the loop, any number of controllers, the alarm clock and other
processes that remove directories. Taking a signal and handling it are two steps,
and so are the controller's signal and its write to the FIFO. The lowest signal
number is taken first. A path is the sequence of its components: the empty path,
nesting (`check_include_directory`) and two paths read as one come out as in the
code. Before `Start` the signals are not blocked: they end the daemon, save
`SIGHUP`, which is ignored. A backup is one step, long enough for anything to
happen while it runs; which files it copies is left out. A controller that leaves
(key 6, or a source it cannot open) is one that gives no more commands.

**`WatchTable`** has the heap, the doubly linked lists and the hash table as the code
has them: `next`, `prev`, `head`, `tail` and `size` are set by the operations the daemon
calls, and `Forward` and `Backward` are what a walk meets. An element owns an open
descriptor, which `list_pointer_delete` and `list_pointer_clear` close. The hash is any function from paths to
lists. Insertion elsewhere, deletion by number and the drawing are called by nobody and left out.

**`Backup`** extends it by the walks of `backup.c`. `stack` holds the calls of `backup` or
`backup_inotify_full`, each with the entries it has still to visit; `OpenDir`, `AddWatch`, `List`
and `Entry` are the system calls between which a user may `Create`, `Modify`, `Unlink` or `Rmdir`.
`copy_file` is a step at its beginning, when file and version are opened, and one at its
end. `cur` and `list_no` are the variables of `backup_inotify_inc`; `DeleteSelf` frees
the element it stands at. A path always has the same type and the content of a file is
whether it has changed since it was copied (`stale`). `failed`, `merged` and `kept` are history
variables. Left out: the names of the versions, the removal of an empty version, and
calls that fail, save `inotify_init1`, which is bounded per user.

**`DaemonStart`** has the table of descriptors of each process, since the lock on the pid file
depends on it: `open` takes the lowest free number, `close_all_fd` closes by number,
`dup2` closes what it meets, and whoever closes any descriptor of the pid file loses
the lock. A daemon is started with any of the sets `Starts` of open descriptors
and may be killed anywhere. `Whole` says that all were started with the three
streams open; without that, `open_in_out_err` can close the pid file.

**`WordFilter`** has the two loops of `main` as `ReadChunk` and `Piece`, over characters that are
digits, minus, space or letter. The static variables of `anylise_word` are variables.
`out` holds the calls of `print_word` with the part of the file each stands for.

**`PipeParser`** has the functions of `parser.c` on sequences of characters, and beside
them, in `Meant`, what a user means by a line. **`Pipe`** parses a text, and its parent and children then
fork, connect, close, execute and wait, one system call at a time.
`held[x]` are the ends in the array `pipes` that `x` has inherited and not closed. The commands
are external: one writes, one copies, one copies one item and goes, one cannot be executed.

Steps that are wider than the code's, and branches that are left out, beyond those named above:

* the second `semget` of the creator of a set (`stack.c:423`) is part of `SemgetNew`: nobody gets semaphore 4
  of the set before it is set up, so nobody removes it in between;
* `SharedStack` has the `semop`s that succeed; one that fails, in an interrupt or on a removed set, is reported
  and passed over (`stack.h:18`). `StackLifecycle` has those on removed sets;
* `Read` of `Backup` takes all events that wait, the code as many as fit its buffer; only the first is handled in
  either case. `stat` and `mkdir` of all levels in `CreateDirectories` are one step, and one that finds a level
  missing gives up without the levels above it, which the code has made by then;
* `find_word` and `anylise_word` may read one byte past the chunk (`BIZZBUZZ/main.c:223`, `283`) before they test
  the size; the test decides, so the byte is left out;
* the loops of `close` in `Pipe` (`CloseInChild`, `ClosePipes`) and each pair of `dup2` are one step: all
  ends stay open until it is taken.

The `MC...` modules give the constants their values. Definitions whose comment
begins with "faulty" are plausible bugs of one action each; the mutants in
`PROJECT.json` put them in place of the action and show that the property notices.

## Runs

| run | asks | bounds |
|---|---|---|
| `stack_no_wait` | atomic stack (`AtomicSpec`), `ConsistentWhenFree`, every call returns (`CallsReturn`) | 3 processes, 2 slots, 2 values, one killed |
| `stack_all_modes` | `MutualExclusion`, `Accounting`, `InBounds`, types | 3 processes, 2 slots, 2 values, every argument of `set_wait` |
| `stack_pop_poison` | a `pop` that returns 0 delivers a pushed value: **violated** with wait value 0 | 3 processes, 2 slots |
| `lifecycle` | `SetupBeforeUse`, `LockConserved`, `KeepsSet`, `CallsComplete`, types | 3 processes, 3 attaches, `mark_destruct` |
| `signals` | `PrefixCorrect`, `StopAndWait`, `OneSender`, `OkMeansComplete`, types | 2 senders, words of 2 bytes, 3-bit sizes, 2 interrupts |
| `signals_live` | no party outlives the other (`DeathPropagates`) | 1 sender, partial last word, 1 interrupt |
| `daemon` | `SetMatches`, `NextBackupAhead`, `KeepsBackingUp`, `StoppedObeysKill` | 2 controllers, 2 commands, 3 paths, 1 removal |
| `daemon_directory` | the daemon has the directory that was announced: **violated** | 2 controllers, 2 commands |
| `backup` | `LinksAgree`, `InstancesMatch`, `VersionClosed`, `FullComplete`, `NothingMissed`, `BackupEnds`, types | 3 directories in each other, a file, a link, 4 watches, 2 lists, 3 changes, 3 mode changes |
| `daemon_start` | `OneDaemon`, `ServerReached`, `RefusedOnlyIfTaken`, types | 3 daemons, 9 descriptors, 5 sets of open descriptors |
| `words` | `WordsInOrder`, `ReplacedIfDivisible`, types | all files of up to 7 characters `1`, `5`, `-`, space; chunks of 3 |
| `pipe` | `ParsedAsMeant`, `OnlyNeighbours`, `NobodyStuck`, `EveryoneEnds` | all texts of up to 6 characters; lines of 2 and 3 commands; pipes of 1 item; 1 failing `fork` |

What the violated properties show:

* `stack_pop_poison`: with wait value 0 `pop` decrements the element count before
  it has the mutex. A push in between computes the index of the claimed
  element, overwrites it, and the pop reads the free slot above.
* `daemon_directory`: the signal comes before the path; the daemon reads an empty
  FIFO, clears its directory, and keeps the path for the next change.

What else the code does not keep. These have no run of their own; the properties of
the passing runs state the condition under which they hold.

* `TimedReturns` (`SharedStack`): after the sleep, a timed `push` or `pop` takes the mutex again
  that it holds. Only the call that could have succeeded hangs.
* `DestroyedLast` (`StackLifecycle`): `detach_stack` sees `shm_nattch` 1 under semaphore 4, but the
  `shmat` of an attach is outside of it; the newcomer gets a set that is
  removed. `KeepsSet` states what is left without `mark_destruct`: a handle whose
  attach returned with a live set keeps it until its own detach.
* `DetachedIsDestroyed` (`StackLifecycle`): semaphore 4 is released before `shmdt`, so two detaches can both
  see `shm_nattch` 2 and leave the set behind.
* `DeathPropagates` (`SignalTransfer`) for sizes that are a multiple of the word: the sender sends an
  empty word after the last full one, but the receiver has exited; while it is a
  zombie the sender waits for ever. Also, after a second sender was rejected,
  `SIGINT` at the receiver does not end it.
* `NothingMissed` (`Backup`) without `~merged`: `read` returns several inotify events and the code
  handles the first. Without `~failed`: a backup that is given up has read its event.
* `BackupEnds` without `endless`: a file that shrinks while it is copied is read at its end for ever.
* `OneDaemon` and `ServerReached` without `Whole`: started with a closed stream, the
  daemon's pid file gets its number and `dup2` closes it together with the lock.
* `ReplacedIfDivisible` (`WordFilter`) for words that reach the end of a chunk or of the file:
  the sum of digits goes on from an earlier word, and of a word in several chunks only the last piece counts.
* `ParsedAsMeant` (`PipeParser`) for a line end directly after a word, which stays part of the word.

Why the bounds are enough to mean something. Two slots make the empty, the partly
filled and the full stack different, and three processes are the fewest in which
one waits, one holds the mutex and one interferes; the theorems cover all other
sizes for the safety properties. Three attaches allow a set to be removed and
made anew while an old handle exists; the theorems cover all numbers. Sizes 1 to 9 with words of 2 and a 3-bit
integer give files of one partial word, of full words, of both, and sizes that
become negative, zero and small. Two commands of two controllers are enough
for a lost signal, for two paths in the FIFO and for a mode change while stopped.
Three directories in each other are the fewest in which one is removed while its
parent is listed and its child visited; two lists and every hash give lists of no,
one and several elements, so the head, the tail and the middle are deleted; four watches can run out, for a
directory that is removed and made again has two. Three changes are enough to make a
path, remove it and make it again in one backup. With nine descriptors all that a daemon opens fits and the
next one would not. Three daemons are one that serves, one that starts and one that was killed; the theorems cover all
numbers. Files of 7 characters in chunks of 3 have words inside a chunk, across two
and across three. Texts of 6 characters have every pair of neighbours of blank, line end, bar and
word. With pipes of one item, writers wait for readers at once.

Symmetry is used only in `stack_all_modes`, which has invariants only.

Deadlock is checked in `words` and `pipe`, whose end is a state of its own. It is not in the
others because those systems may stop: processes end, a killed
or misled process leaves the mutex at 0, attaches and commands are used up, a
daemon exits, `copy_file` hangs when all changes are used up. That they do not stop when they should not is what `CallsReturn`,
`CallsComplete`, `DeathPropagates`, `KeepsBackingUp`, `StoppedObeysKill` and `BackupEnds` say.

## Fairness

* Stack: a process that is not killed goes on (weak fairness of its steps). Waiting
  for a semaphore is strongly fair, since the kernel serves the waiters of a
  SysV semaphore in the order they came. Nothing makes a process call anything.
* Attach and detach: the same for their steps and for semaphore 4.
* Signal transfer: both programs and the signal handlers go on, and a zombie is
  reaped only if its parent does so; users need not press Ctrl-C.
* Daemon: the loop goes on and the clock rings. Controllers need not do anything,
  so a controller that stops between signal and path is included.
* Backup: the daemon goes on; users need not do anything. Each backup ends
  since the users' changes are bounded in number, not because they are fair.
* Pipe: the parent and each child go on, a command for as long as it has something to do.

## What is proved

`SharedStackProofs` holds for any number of processes, any size and any arguments
of `set_wait`:

* `TypeCorrect`, `Exclusion` (mutual exclusion), `SlotsAddUp` (accounting) and
  `NeverOutOfBounds`, each as `Spec => []...`.

Assumptions are those of `SharedStack`: a finite set of processes, a positive size,
the poison value is not pushed. None of the four properties is inductive alone. The invariant `IInv`
is their conjunction with

* `SlotAhead`: whoever is between its check and its access has the slot ahead of it
  although others change the counters outside the mutex, and
* `NeverAgain`: a timed push never gets past its second decrement of the mutex, the
  same fact that refutes `TimedReturns`. Without it the part of the code
  behind that decrement would have to be shown correct, which it is not: the
  mutex would not be held.

`Accounting` counts slots as elements, free slots and the slots of operations
between their two semaphore operations; `Finite` and `Moves` say how the
cardinalities of those sets change when one process changes its label. There is
one lemma per action, and `InductiveInvariant` puts them together.

The second half of the module holds for any values, under the hypothesis
`NeverZero`: no process calls `set_wait(0)`. Timed operations and invalid arguments are
included, and so is the mutex that they lose:

* `FreeIsConsistent` (`ConsistentWhenFree`) and `Atomic`: `Spec => AtomicSpec`, every step of
  `SharedStack` is one of `AtomicStack` or changes nothing of it.

With `set_wait(0)` neither holds: a waiting push counts a slot outside the mutex, and a waiting
pop has taken its element without knowing which. The mapping is that of `SharedStack`: the stack is
the slots below semaphore 1, a push takes effect at `AddCount`, a pop at `TakeCount`, which
is before it has read its slot. `SInv` relates the slots to the labels:

* `NoWaitZero`: nobody is at a label of the waiting operations;
* `Content`: the slots below the count are values and those above it poison; the slot at the
  count is poison too, unless someone is in the middle of a push or a pop (`Loose`);
* `OnTop`: that slot is the one computed, and it holds the value pushed or to be popped;
* `GivenTo`: what a process pushes is a value, and it has nothing between two operations.

`ElementsPushed` and `ElementsPopped` say that the mapped stack changes by `Append` and `SubSeq`, and
`MemoryMoves` that a change of the count is not seen by the other processes. `QuietStutters` covers
all steps but the call, the two that take effect, the failures and the return.

`StackLifecycleProofs` holds for any finite set of processes, any sizes and any number
of attaches, with `mark_destruct` or without:

* `TypeCorrect`, `SetUp` (`SetupBeforeUse`), `LockKept` (`LockConserved`) and the action
  property `SetKept` (`KeepsSet`).

Assumptions are those of `StackLifecycle`: finitely many processes, positive sizes. Objects are
named by several processes and by the key, so `IInv` relates the counts of both:

* `SegInv`: `shm_nattch` is at least the number of processes that are attached; without
  `mark_destruct` they all have the segment of the key. Segments made and attaches that may still
  make one are not more than the attaches so far, so `Fresh` finds an identity;
* `SetInv`: nobody is behind semaphore 4 of a live set that is not set up, the process that sets
  it up is alone, and until then semaphore 4 is 0; `LockAdds`, the half of `LockConserved` that counts;
* `Last`: nobody uses the live set that a detach is about to remove. A user would count in
  `shm_nattch`, and an attach that returns at this moment would hold semaphore 4 as well.

`SetterThere`, which rests on `IInv`, is the other half of `LockConserved`: a live set that is not set up has a process
that goes on with it. Together they say that whoever waits for semaphore 4 waits for one that does not wait.

`SegQuiet` and `SetQuiet` cover the steps that only change a label or a handle; `SegChange` and
`SetChange` those that change an object that exists; `SegMade` and `SetMade` make one.

`SignalTransferProofs` holds for any senders, sizes and widths and any number of interrupts:

* `TypeCorrect`, `Prefix` (`PrefixCorrect`), `OneWord` (`StopAndWait`), `SingleSender`
  (`OneSender`) and `Complete` (`OkMeansComplete`).

Assumptions are those of `SignalTransfer`; the sizes are positive since `mmap` refuses an empty
file. `PowerAssumption` spells out what the proof uses of `2 ^ IntWidth`, for the prover does not know
exponentiation, and that a word has no more bytes than an int has values (8 and 2^32);
`OkMeansComplete` needs this. The invariant follows the one token that the protocol passes:

* `Strangers`: who is not the accepted sender has only asked; nothing is pending for it but a SIGTERM;
* `Unasked`: until a sender is accepted, the size that is pending or being read is that of a sender
  that waits for the answer;
* `TokenOf`: the next word is in one place at most, on its way, at the receiver, or acknowledged;
  the labels of both programs say where;
* `IndexOf`: how far the sender is ahead, in each of these places;
* `WrittenOf`: what is written, and that `rsize` is the size or falls short of it by at least a word
  (`Truncation`). A file that was cut by the truncation therefore never ends at the last word of the
  sender, which still waits when the receiver is done;
* `Labelled`: what is pending as a signal is that signal.

`AppendedWord` says what `handler_USR2` writes, once for a full word and once for the rest. `QuietKeeps` covers
the steps that take no part in the exchange, among them interrupts, rejections and deaths.

`DaemonLoopProofs` holds for any controllers, paths, intervals and any number of
commands and removals:

* `TypeCorrect`, `SetFollowsMode` (`SetMatches`) and `BackupStaysAhead`
  (`NextBackupAhead`).

Assumptions are those of `DaemonLoop`: paths are non-empty sequences of names,
intervals are integers of any sign, `None` is no value that a signal or a user can
give. `SetMatches` speaks of the loop when it waits and `NextBackupAhead` of the same moment;
neither says anything of the handler between two waits. `IInv` therefore holds
everywhere:

* `set = Awaited`, the set that mode and state ask for, in every step of the loop;
* `ClockAhead`: the alarm clock runs, has rung, or its signal is being handled. It needs the
  type of `delay`, which `NewDelay` keeps positive (`alarm(0)` would stop the clock);
* `TickAhead`: in inotify mode the loop waits only with its own `SIGCHLD` pending, and it
  starts in classic mode;
* `WriteTyped`: a controller that is about to write has typed a path.

A controller changes the daemon only by sending a signal, so all its commands rest on
the one lemma `SendIInv`.

`DaemonStartProofs` holds for any number of daemons, any table with room for five
files above the descriptors that a daemon is started with, and any sets of those:

* `TypeCorrect`, `OnlyOne` (`OneDaemon`), `Reached` (`ServerReached`) and the action property
  `Refused` (`RefusedOnlyIfTaken`).

Assumptions are `FdAssumption` (the room) and `NoneAssumption` (the names of kinds of
descriptors are different from the processes). The lock is lost by closing a descriptor, so the invariant has to follow the table of
each process. `IInv` is the types with

* `Room`: the numbers at the top of the table are free for the files still to be opened. It is why
  `open` succeeds, and with `LowestFree`, which rests on the well-foundedness of `<`, what it returns;
* `Remembers`: `fd_pid` and `fd_fifo` are above 2, different, and the files they should be; no other
  descriptor is the pid file. `StdTable` then shows that the three `dup2` put the streams in
  place and close neither;
* `Locked`: whoever has taken the lock still has it, which is `OneDaemon`;
* `FilesAre`: what the process has written to pid file and FIFO is still there. Only a
  process with the lock writes them, so a step of one leaves those of the others (`FilesKeep`).

Each action has a lemma that says that it leaves the other processes alone and gives its own
process the next part of `Remembers`. All deaths are one lemma, `EndStep`.

`PipeProofs` holds for any texts, commands and capacity, and however many forks fail:

* `Connected` (`OnlyNeighbours`), `NoneStuck` (`NobodyStuck`), `ParentLast` (`ParentEndsLast`) and
  `CutAsMeant` (`ParsedAsMeant`).

Assumptions are those of `Pipe`: the texts are sequences and have `MaxCommands` commands at most. That everyone is connected is
seen when the last one has closed the array, but each end was duplicated steps before and all
others were closed after it. `IInv` adds `Joined`, that a child which is going to close the array
has its neighbours' ends in place, and `Unforked`, that nobody lives before the text is parsed and that
there are commands to run; the number of children is the number of commands that the parser finds, which
`ParsedLength` bounds.

`NobodyStuck` is the absence of deadlock, as a predicate on the state: `Goes` is what one of the child's actions needs
to be taken. It does not say that the program ends, which is `EveryoneEnds`. `JInv`, which rests on `IInv`, has

* `Loose`: who is not forked or has ended holds nothing, and the last command writes to the terminal;
* `Counted`: a command has an item in hand only until its last one is written;
* `Reaped`: the children that are gone are as many as the waits that have succeeded. With as many as there
  are commands, all are gone, which is `ParentEndsLast`.

`WaitsForNeighbour` is the argument: if no child can go on, one that waits for room has on its right another that waits for
room, and one that waits for input has a living neighbour on its left. The first chain ends at the last command, which never
waits for room, so that nobody does; the second at the first command, which never waits for input.

The parser's proof has no bound on the length of a text. Everything it cuts is a part of the text,
from one position to another (`Cut`, `Part`):

* `Ordered` lists a finite set of positions in increasing order, and there is one such list
  (`OrderedEnumerates`, `OrderedIs`). So both ways to cut can be compared by what they enumerate;
* `CommandsAre`: what is left when `k` commands have been cut off begins after the `k`-th bar (`Fenced`);
* `WordsApart` and `RunsAre`: first and last characters of words come in pairs with nothing in between
  but blanks, so the `k`-th word is between the `k`-th of each;
* `Descent`: the recursive count of `get_argc_cmd` exists, for what is left after an argument is shorter
  (`NextArgumentShorter`); `ArgcIs` and `ArgvIs` say what the two passes return, by the smallest
  counterexample, and `ArgumentsAreWords` that these are the words.

It uses both hypotheses of `ParsedAsMeant`: an empty part has an argument without a character, and a line end
directly after a word stays part of it.

`WordFilterProofs` holds for any files and any size of the buffer:

* `TypeCorrect`, `OutputInOrder` (`WordsInOrder`) and `NumbersReplaced` (`ReplacedIfDivisible`).

Assumptions are those of `WordFilter`: the files are sequences of characters, the buffer is not empty. The properties
speak of what is written; a word that waits for its end is only in the offsets. `IInv` has

* `Left`: `size` lags behind the chunk that is in the buffer until the chunk is done;
* `Position`: the output and the waiting pieces are all that was taken, and at the end nothing waits;
* `Unfinished`: a word waits exactly in mode `CONTINUE`, has no space, and is met only at the end of its
  chunk or before the next one's first character, which is then no space;
* `Boundary`: what was written does not end within a word. It makes the word after it whole;
* `Chunks`: chunks begin at multiples of `MAX_LEN`, so `w.from \div MAX_LEN` is the chunk of a word.

`LengthOf` and `DigitsOf` say what the two searches of `find_word` and `anylise_word` return. `Divisibility` is why the
digits' sum and the last digit decide: for digits of any number, the sum is the value modulo 3. Induction over
the digits is by the smallest counterexample: `Smallest` rests on the well-foundedness of `<`, and
`Recursion` shows that a function defined by recursion up to `n` exists.

`BackupProofs` holds for any tree of paths, any number of lists, elements and instances, any
hash function and any changes of the users:

* `TypeCorrect`, `ListsLinked` (`LinksAgree`), `InstancesOwned` (`InstancesMatch`), `VersionIsClosed`
  (`VersionClosed`), `FullBackup` (`FullComplete`) and `RoundsMissNothing` (`NothingMissed`).

Assumptions are those of `WatchTable` and `Backup`: there is a list, a null pointer is no element, the
directories are finitely many, and every path lies under the root. `IInv` has

* `Linked`: for every list there is a sequence of which head, tail, size, `next` and `prev` are one picture
  (`Chain`), and each element is in that of its path. `LinksAgree` follows from it, since a walk
  over the links visits that sequence (`WalkIs`), but says nothing of the elements between; `SetValueStep` appends to the
  sequence, `DeleteStep` takes one element out, at the head, the tail or in the middle;
* `TableTypes`: no two elements have one instance. This gives `InstancesMatch` and that there is an element
  left to allocate whenever an instance can be opened;
* `Walking`: `current_element` is allocated and in the list that is walked. An element is freed while the walk
  stands on it or behind it: `FoundFirst` says that it is never the one the walk goes on to;
* `Stack`: the calls are in different directories, which the version has; with finitely many
  directories the depth is bounded by the pigeonhole principle;
* `Complete`: whatever was there all the time and is missing in a directory that the version has is still
  to be met by the call in that directory (`Owed`), for it is in its listing or the listing has yet to be
  made. `FullComplete` only speaks of the end, when there are no calls: then the missing paths would
  be a set that is closed under parents and does not reach the root.

`TopStep` covers the steps of a call in its directory, `CopyStep` and `DescendStep` what is done with an entry,
both for an entry of a listing and for the path of an event (`Ready`).

`NothingMissed` speaks of the time between two rounds, when all that is left to do waits in queues. In
a round it is also the event at hand, the entries that calls are still to meet, and a directory between
`opendir` and the first `readdir`. `JInv`, which rests on `IInv`, says so at every step:

* `Covered`: each directory is watched, and for each changed file an event waits, unless it or something above
  it is announced (`Announced`) in one of these places. `ReachedOn` says what a step may do: an announcement
  is passed on, or fulfilled, or passes to the entries when the directory gets its watch. What is lost with a
  directory that is removed (events, entries, the call in it) only concerns what is gone with it;
* `Addressed`: events wait in instances of the directory that they are about, so those that die with a
  removed directory name nothing that there still is;
* `Ordered`: in each list an element that watches comes after those of the same path that no longer do.
  `hashtable_remove` takes the first element with the path, which need not be the one whose event is handled
  when a directory was removed and made again; this is why it never frees the one that watches.
  `SetValueStep` and `RemoveStep` say how the order of the elements changes;
* `Handling`: an element whose deletion is handled does not watch, and a call has nothing to meet before
  its listing.

The hypothesis of `NothingMissed` is used at two places: a read that returns one event only empties a queue
of that event (`ReadCovered`), and a backup that is given up covers nothing (`GiveUpCovered`).

Only model-checked: `PopDelivers` of `SharedStack` and `AppliedWhenQuiet` of `DaemonLoop`, which
are violated; all liveness, which is out of the prover's reach. Only proved, and checked in no run: the types of
`DaemonLoop` and `ParentEndsLast` of `Pipe`, whose content `EveryoneEnds` includes.

## What is not modelled

Calls that fail for want of memory or kernel identifiers; reads and writes of
regular files that fail; the texts that are printed. Signals that third
processes send to the transfer. `shared_stack/main.c`, which calls the library in a fixed
order. The list operations that nobody calls (insertion and deletion by number, insertion at the beginning, the drawing), and
`daemon/src/daemon/parser.c`, a copy of an earlier `pipe/parser.c` that nothing in the
daemon calls. The class tasks. `stack_dump` is modelled for the semaphore it takes and the slots it reads.

## Plan

1. Class tasks with a state worth it: the relay over `poll`, the message queue, the copy
   through a pipe that is read after the child has ended.
2. Signals of third processes in the transfer.
