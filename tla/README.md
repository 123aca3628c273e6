# A TLA+ specification of check_realtime (zzhelper)

`zzhelper` is a file integrity monitor: a daemon that watches directories with
inotify, keeps a checksum of every file in an SQLite table and alerts, by mail
or in its log, when a file is created, changed or deleted. Its sources are
`src/src/*.cpp`; `src/libconfig-1.4.9`, `md5.c` and `sqlite3.h` are third-party
code it is built with.

## 1. Inventory

| component | source | state | operations |
|---|---|---|---|
| daemon | `monitor.cpp` | pid file, command line, the three threads | `--start`, `--stop`, `--test`, `--skip`, loading of the configuration, creation of the threads |
| file watcher | `file_watcher.cpp` | inotify descriptor, wd table `_hash`, excluded directories, command FIFO | walk of a directory (`EntryIterator`, `add_dir`), `watch`, `loop`, `stop` |
| file analysis ("judge") | `file_analysis.cpp`, `util.cpp` | `anlysis_queue`, `_taskmap`, `global_id`, `_ignore`, `_grep`, `_interval` | `analysis` (enqueue), `loop`, `do_analysis`, `delay_check`, `get_checksum` |
| task timers | `TaskTimerManager.hpp` | multimap `callbacks` | `add`, `cancel`, `execute` |
| file database | `file_db.cpp` | table `files(name, md5sum, timestamp)` | `find`, `insert`, `update`, `del` |
| alerter | `alerter.cpp` | rules by (directory, level), actions | `add_rule`, `alert` (walks up to the nearest directory with a rule) |
| mailman | `mailman.cpp` | one SMTP connection per alert | `sendmail` |
| file log | `file_log.cpp` | log file, bytes written since the last rotation | `formater` |
| not in the program | `message_queue.cpp`, `replication_log.cpp`, `configfile.c`, stubs | | not built, or linked and never called |

How they interact. `main` reads the configuration, and while it does so walks
the monitored directories: each directory gets an inotify watch, each file goes
to `do_analysis` directly. Then `main` creates two threads and stays in
`File_watcher::loop`:

* main: inotify events -> `add_queue`;
* the analysis thread: takes nodes of `anlysis_queue`, runs `do_analysis`,
  which reads the row and the file, writes the row, alerts (mail is sent
  synchronously), or puts the check off by giving a timer to the timer manager;
* the timer thread: once a second calls back every expired timer, and
  `delay_check` puts its node back in `anlysis_queue`.

The threads share the queue and `_taskmap` (one mutex, one condition) and the
timer map (`callbacks_mutex`). `execute` calls back with `callbacks_mutex` held
and takes the queue's mutex inside; nothing takes them in the other order.

What is hard here, and to test: a delayed check that is cancelled and replaced
while it fires; a file that changes while it is read; the walk that overlaps
with changes; a death of the process between a write of the table and its
alert; statements that fail and are not looked at; two daemons, or a `--stop`,
racing over the pid file and the FIFO; an inotify queue that overflows, and
directories that come and go under the walk, or that the kernel refuses to list
or to watch; calls on the pid file or the FIFO that fail and are passed over; a wake-up between the test of the
queue and the wait; a mail server that refuses, splits its replies, hangs up or
says nothing; a log that two threads rotate. Each one is listed under `hazards`
in `PROJECT.json`, at its line, with the properties about it.

What makes each component correct:

* analysis: no change stays unread; the table agrees with the disk when nothing
  is pending; one row per file; alerts and records go together, at most one
  change of a record per interval;
* timers: a timer that was added is called once, unless it was cancelled; a
  cancel hits the timer it was asked to; a sweep's iterators stay valid;
* watcher: every file that exists when the walk is over is known or pending; a
  change below a directory the walk reaches is looked at, under its own name;
* daemon: one instance, `--stop` ends it, a start after a stop works;
* alerter and rules: an alert uses the rule of the nearest directory, a filter
  applies to the directories it was written for;
* mailman: what counts as sent was taken by the server; a dialog ends; its
  socket is closed (it is not, when the dialog fails);
* log: what was written is not lost by a rotation, the file does not outgrow
  its limit.

## 2. Modules

| module | models | used by |
|---|---|---|
| `TaskTimerManager` | the multimap of timers; operators only | `FileAnalysis` and `AnalysisSteps` extend it |
| `FileAnalysis` | a change of a file on its way through the daemon | `MCFileAnalysis`, `FileAnalysisProofs` |
| `AlertLedger` | what that amounts to: records and alerts that go together | instantiated in `FileAnalysis` |
| `AnalysisThreads` | the threads of the daemon with their mutexes and the condition, a lock at a time | `MCAnalysisThreads`, `ThreadsProofs` |
| `AnalysisSteps` | the same calls as single steps, the grain of `FileAnalysis` | instantiated in `AnalysisThreads` |
| `DirWatch` | the walk over a tree that changes, inotify, the table of watches | `MCDirWatch`, `DirWatchProofs` |
| `Rules` | what the configuration decides about a name | `MCRules`, `RulesProofs` |
| `Mailman` | the SMTP dialog and the descriptor it costs | `AlertActions` extends it |
| `FileLog` | the log file and its rotation | `AlertActions` extends it |
| `AlertActions` | an alert's actions, with what main logs, and restarts | `MCAlertActions`, `AlertActionsProofs` |
| `Daemon` | `--start`, `--stop`, the pid file and the FIFO | `MCDaemon`, `DaemonProofs` |
| `MC...` | the small instances: names, contents, trees, symmetry | the `.cfg` files |
| `FileAnalysisProofs`, `DelayProofs`, `LedgerProofs` (each extends the one before), `ThreadsProofs`, `AlertActionsProofs`, `RulesProofs`, `DirWatchProofs`, `DaemonProofs` | inductive invariants and theorems | |

How they fit together. `FileAnalysis` takes an event, a delayed check, an
sqlite call and an alert as single steps, and one directory. Each neighbour
opens one of these up: `AnalysisThreads` shows that queue, task table and timer
map may be used in single steps; `DirWatch` says which changes of a whole tree
become events of a name; `Rules` which names are judged and which actions an
alert has; `AlertActions` what those actions do and that they return.

`map` in `PROJECT.json` gives for each definition the lines it stands for. The
variables keep the names of the fields they model (`anlysis_queue`, `taskmap`,
`global_id`, `callbacks`, `_conf`, `_ignore`, `_grep`, `_hash`, `_queue`,
`total_size`, `pid_file`, `command_fd`). Definitions whose name ends in a
description after an underscore and whose comment calls them a deviation
(`TooEarly_inclusive`, `CancelOld_none`, ...) are not part of a specification:
each is a plausible error in the code of the definition that follows it, and
`mutants` lists, for each property, the one under which TLC finds that property
violated.

### FileAnalysis and TaskTimerManager

A step is what happens between two points where another thread, or the world,
can interfere: a call that takes a mutex, a system call, an sqlite call. `pc`
says where in `do_analysis` each thread is, `loc` holds its locals. Both threads
that run `do_analysis` are there: main during the walk (`ScanFile`), the
analysis thread afterwards (`Dequeue`).

| steps | code |
|---|---|
| `Start`, `AddWatch`, `ScanFile`, `StartThreads` | `EntryIterator::next`, `add_dir`, the end of `main` |
| `Watch` | one event of `watch()` and its `add_queue` |
| `do_analysis` | entry, `match`, `find`, and the interval test |
| `CancelOld`, `AddTask`, `SetTask` | the delayed check: `get_task`, `cancel`, `add`, `set_task` |
| `Lstat`, `Md5` | `get_checksum`, whose two looks at the file are apart |
| `Insert`, `AlertCreated`; `AlertDeleted`, `Del`; `Update`, `AlertChanged`; `DelTask` | the three branches, in the order of the code |
| `SweepStart`, `DelayCheck`, `SweepEnd` | `execute()` with the mutex held, one callback at a time |
| `Change`, `Tick`, `Crash` | the world |

The content of a file is a model value that stands for all a checksum covers; a
checksum is the pair of what `lstat` saw and what the read saw, so a torn read
is representable. `Special` is everything that is no regular file, `Absent` no
file. `view` and `told` are history: whether a name changed since its last
`lstat`, and the last alert given. A `Crash` may come between any two steps; it
leaves the table, the files and the alerts given.

### AnalysisThreads and AnalysisSteps

The same three threads with every `pthread_mutex_lock`, `unlock`, wait and
signal a step of its own. `mutex` guards the queue and `_taskmap` (a `CGuard` in
each of `get_task`, `set_task` and `del_task`, explicit calls in `add_queue` and
`loop`), `callbacks_mutex` the timers. The wait of the condition is its three
parts: `Test` gives up the mutex and sleeps in one step, `Signal` is remembered
only if somebody waits, and `Wake` takes the mutex again, with or without a
signal. `execute()` holds `callbacks_mutex` from `SweepLock` to `SweepUnlock` and
takes `mutex` inside for each callback. Its iterators are the set `sweep`, and
`TypeOK` says that they stay valid. Of a file only what steers the control is
left: the time stamp of its row, and in `wanted` whether a change of it is
unread.

`AnalysisSteps` has the calls as single steps. `ImplementsSteps`, with `Stage` as
the point each call counts as done, says that the locks make them so.

### DirWatch

Directories and files are inodes, and `path` gives each the names that lead to
it from the top down, or `Nowhere`; a rename changes the paths of all that is
below. Other processes write, make, remove and rename at any time. The kernel's
side: events are queued for the descriptor of the directory, dropped with one
overflow mark when the queue is full, and a directory that is watched itself
gives events without a name (`NoName`) when it goes. (The kernel also merges an event with
an equal one before it, which shortens the queue and loses no name.) The
program's side: `EntryIterator` with its stack `_queue` and its order (list,
watch, then the entries), `add_dir`, which gives an inode watched already the
descriptor it has, the table `_hash`, and `watch()`, which skips events without
a name and looks up the others without a test.

A reader should know what `unseen` and `stray` leave out, for it is the list of
what the watcher does not do. A change is *promised* to be looked at if it is
made in a directory that is on a path of the configuration, that has a watch or
is still to be listed. Not promised are changes

* between the listing of a directory and its watch (the finding
  `change_before_watch`), and under `--skip`, before the watch;
* in or below a directory that `opendir` refused to list
  (`file_watcher.cpp:134-138`) or `inotify_add_watch` to watch
  (`file_watcher.cpp:228-238`, a result line 208 does not look at) although it
  is there, when the last walk came to it: `MayFail` are the paths to which that
  may happen, at any time or not, and such a directory is `stray` too (one that
  is listed and not watched has its entries walked: only its own events are
  missing);
* in a `stray` directory of the other kind: one that got a new path, by being made or moved or by
  a move above it, when no walk was still to come to that path, so that it never
  gets a watch; or when it was watched already, and keeps its old path in
  `_hash`;
* whose event an overflow dropped.

The properties say that everything else is looked at, under the name it has, and
that a refusal costs no other directory its watch. A name whose `lstat` fails
counts as a directory (`is_dir`), is put on the stack and passed over when its
`opendir` fails. `FileAnalysis`, which is about one directory, takes the watch of
it as set.

### Rules

`load_conf` step by step, one check at a time (`LoadAlerter`, `LoadJudge`,
`LoadExcludedDir`, `LoadWatcher`), the walk and the events as far as they ask
the rules, `match()` over an unordered map whose order is the variable `rank`,
and `Alerter::alert` as a recursive function up the directories. Paths are
sequences of components; `Begins` says which components begin like another,
because `is_prefix` compares characters. A pattern is the names it matches, and
the directory it spells, if any. A check without a `path` is passed over by
`load_conf` and is not in a configuration of the model. The levels are those a
configuration can name, `DELETED` included. An excluded directory is one a
filter spells; `need_mon` looks up each directory by itself, so that a walk does
not come through it, but one whose own path lies below it is not kept out
(`LeadsTo`, `ExcludedStaysOut`).

### Mailman, FileLog and AlertActions

`Mailman` is `sendmail` as a table of what is said and how the reply must begin
(`Dialog`), and a server that is free to refuse, to hang up and to send a reply
in two segments, which `recv` and `match` take for two replies. `connect_tcp`
and `sendmail` leave the socket open when something fails; `sendmail` then
returns 0, so nothing is logged of it. A second send to a server that hung up is
a SIGPIPE, which ends the daemon.

`FileLog` is `formater` under the mutex of its guard: the counter, which starts
at 0 with each process and after each rotation, the close, the rename to the
name of this second, the open that may fail for want of a descriptor, the write.
A write may fail (`file_log.cpp:131-134`): `formater` returns 0 all the same, and
the stream is `bad` until a rotation opens it again, so that every line until
then is lost too. Lines are counted where the program counts the bytes of their
messages; that it leaves out the head of each line is not in the model, and
`SizeBounded` is the bound on what the counter counts.

`AlertActions` composes them as the analysis thread does, one action of the rule
after the other, with main logging errors meanwhile and one pool of descriptors.
The process is `up` or not. It dies by a signal or by a SIGPIPE of its mail, with
whatever its threads had still to do, and an operator may start it again, on the
files it left, or may not.

### Daemon

Each process of the operator, `--start` or `--stop`, is a process of the model
with a label per system call. `--start` leaves the terminal at `daemon(0,0)`
and goes on in the background. `Operator` says when commands come: a careful
operator starts only when no other start is under way and stops whenever; a
hasty one gives each command when the last has returned. A FIFO is a number,
the path of the command file names at most one, and one that was unlinked lives
on in the processes that have it open; bytes in it are lost when its last
reader closes. `OpenFifo` models the read of `pfd[1]`, uninitialised when the
open failed, as a choice between an entry that never reports and one that does.
The child keeps the pid of its parent in the model, and a pid the file or a
`--stop` still names is not given to a new process.

`File_watcher::stop` opens the FIFO for reading and writing, writes and closes it
in three steps (`StopOpen`, `StopWrite`, `StopClose`): while it has it open, its
byte is kept, also in a FIFO that a daemon is only about to open. So a stop that
looked for a daemon since killed may open the FIFO of the next one and end that;
`NoStaleStop` says that this is all there is: a byte found in a FIFO about to be
opened is of a stop that has it open at that moment.

Every call on the pid file and on the FIFO may fail (`Fails`, counted in `failed`
and bounded by `MaxFailures`), and the program does what it does then: a daemon
whose open in `write_pid_file` fails logs it and goes on without a pid file
(`monitor.cpp:118-122`), no later `--start` sees it, and there may be two. What
`OneDaemon`, `Reachable`, `NoStaleStop` and `StopEnds` say holds as long as the
calls each names have worked (`Works`), and they say so; that a failing call on
the FIFO changes nothing about one daemon, its pid file and its end by a signal
is part of them.

## 3. Runs

Passing runs, with what bounds them:

| run | shows | bounds |
|---|---|---|
| `core_one_file` | a file changes before, during and after the walk, in every interleaving with reads, delayed checks and sweeps, and the process dies at any step and is started on the rows it left: no change lost, the table agrees with the disk, one row, one analysing thread, delays below two intervals, no stale handle, at most two timers ahead, no row gone without its alert, and refinement of `AlertLedger` | 1 file, 2 contents, 3 changes, 1 crash, an interval of 2, time to 4, with and without `--skip` |
| `core_live` | with every sqlite call free to fail, unnoticed, each change is still read in the end | 1 content, 2 changes, an interval of 2, time to 3 |
| `threads` | two mutexes and a condition, spurious wake-ups included: no two threads wait for each other, no wake-up and no check lost, no pop of an empty queue, iterators stay valid, each change read in the end, and refinement of `AnalysisSteps` | 2 files, 3 events, an interval of 1, time to 2 |
| `dirwatch` | a recursive check, one of the directory above that is not recursive and one of the directory below, walked while the tree changes, with a filter: what is promised is looked at, the table names directories by the path they have, all are watched but those that came too late and those that the kernel refused | 2 directories and a file below the top, 2 names, 3 changes, a kernel queue of 3, 2 paths, one below the other, that may be refused |
| `rules` | the nearest rule, patterns of the own check only, excluded directories and what is below them, walk and events agree | all pairs of checks over a nested, an equal, a like-named and a separate directory, a check below an excluded one, 2 patterns, 2 map orders |
| `alert_actions` | alerts by mail and log, a server that refuses, splits, hangs up or falls silent, rotations by two threads, writes that fail, deaths: what counts as sent was taken, each failed mail costs a descriptor, no written line is overwritten, the file is bounded, and each alert ends but for a server that is silent for ever or a death | 2 recipients, 2 alerts, 2 errors, 1 death and those by SIGPIPE, 2 descriptors, a limit of 2 lines |
| `daemon_careful` | as long as the calls on the files work, one daemon at most, reachable by pid file and FIFO, no byte of a stop that has returned for the next, and a stop ends what it found | 3 processes, 4 commands, 1 call on the pid file or the FIFO that fails, configurations that fail |

Why these are enough. Three changes make a file change, be put off, change
again while its check is pending, and change during the read; two contents tell
a stale checksum from a right one, and changing back from a forged one; an
interval of 2 separates "before", "at" and "after" the moment a check is due,
and the clock goes on as long as a timer waits. The rows a former run left
(none, old, just written, right or wrong) are all initial states, so one crash
meets each of them again with what the process had in hand. What several files
share, the ids of timers, the queue, sweeps over more than one timer, is in
`threads` with two files, and in the theorems, which are for any number of them.
Three events there are two that meet in the queue and one that finds a timer to
cancel. In `dirwatch` two directories are the least in which one is moved into
or out of the other, three changes make a directory, move it and write in it,
and a kernel queue of three overflows on the events of two of them; with three
nested checks a directory is walked twice, and one is walked after, and before,
the directory it is in; the two paths that may be refused are such a directory
and one below it. Two
recipients tell "some" from "all", two descriptors are the log and one mail, so
that the failure of one mail leaves the next, and a rotation, without. A limit
of two lines is reached twice, with a line of main in between. Four commands
give start, stop and start with one to overlap; three processes are a
daemon, a start and a stop; after one call that failed a daemon is without its
pid file or its FIFO, and every later call is one that works. Pairs of checks cover each relation two directories
can be in. Contents are symmetric where the run has no liveness property.
`CHECK_DEADLOCK` stays on everywhere; `Waiting`, `Idle`, `Poll` and `Rest` are
the states in which all threads sleep.

Runs that find a violation, each of one statement of the source or of
`src/README.md`, listed under `findings`:

| run | statement | what happens |
|---|---|---|
| `vanished_file_created` | "this is a new file" | the name is gone when analysed; the result `FILE_NOT_EXIST` is ignored, a row with an empty checksum is inserted and CREATED alerted |
| `change_before_watch` | all the files below a directory are monitored | a file created between the listing of its directory and its watch is in neither |
| `daemon_hasty` | "There's already a server running... Bailing out" | `main` ignores what `write_pid_file` returns and becomes a second daemon |
| `daemon_failed_stop` | "failed to stop" | the byte in the FIFO ended the daemon, which removed its pid file before `--stop` read it |
| `rules_grep` | grep is a setting of one check | one grep anywhere, and names under checks without one are ignored |

## 4. Fairness

`FileAnalysis!Fairness` is weak fairness of each thread, of the clock, and of
the steps of a thread taken together, never of a branch: an sqlite call may
fail every time. The threads are plain pthreads that wait only in `poll`, for
the queue's condition, in `sleep(1)`, and for mutexes that are held for a
bounded time. It assumes that an alert returns: by `EveryAlertEnds` of
`AlertActions` it does, unless the mail server is silent for ever
(`mailman.cpp:74`, no timeout), and then nothing is analysed any more.

`AnalysisThreads!Fairness` is weak fairness of each thread, and a waiting thread
is owed a wake-up only once it was signalled. Spurious wake-ups, which POSIX
allows and the model does not limit, take the mutex of the queue again and
again; that a thread which asks for a mutex that is free again and again gets it
in the end is strong fairness of `PushLock`, and nothing else is strong.

`AlertActions!FairSpec` is weak fairness of each of the two threads and of the
clock. Of the mail server nothing is assumed, for `recv_tcp` has no timeout
(`mailman.cpp:74`): one silent server stops the analysis of every file for good,
and `EveryAlertEnds` has that as its first exception (`<>[]Silent`). The second is
the death of the process, by a SIGPIPE among others: what the alert had still to
do, the line in the log for one, is then done by nobody. Nor is it assumed that
the process is started again.

`DirWatch!FairSpec` is weak fairness of the walk and of `watch()`, both steps of
main; `Daemon!FairSpec` weak fairness of each process. Nothing is assumed of
operators and other processes; the signals sent arrive.

## 5. Refinement

`AlertLedger` has a record per file and the last alert, changed in one step,
CHANGED and DELETED only when the record has stood for an interval. The code
writes the row and alerts in two steps, in one order for insert and update and
in the other for delete. The mapping (`RecordOf`, `ToldOf`) takes an alert that
follows a written row as given with it, and a row as gone once its deletion was
alerted. A death of the process is a step of the ledger: it costs the alert of
one file at most (between `Insert` or `Update` and the alert), or leaves the
record of a file whose deletion is alerted already and will be again (between
`AlertDeleted` and `Del`). It holds as long as no statement fails: a failing
`Update` alerts a change that is not recorded, a failing `Del` a deletion twice.
`core_one_file` checks it as the property `ImplementsLedger`; `LedgerProofs`
proves it for every instance.

`AnalysisThreads` implements `AnalysisSteps` (`ImplementsSteps`): checked by
`threads`, proved in `ThreadsProofs`.

## 6. Proofs

The only assumptions are the `ASSUME`s of the modules (the kinds of values are
apart, bounds are naturals, no log file fills within a second) and those a
theorem states. All is for any number of files, contents, changes, crashes
and restarts, and for every interval and bound.

`FileAnalysisProofs`:

* `TypeCorrect`: `[]TypeOK`. Inductive together with `BusyLocals` (a thread at
  work has the name of a file, and one that reads it has seen a regular file),
  because the steps index tables by the local name.
* `AnalysisIsExclusive`: by `OneAnalyst`, main is at work only in the phase
  "scan" and the analysis thread only in "run".
* `TaskIdsAreUnique`: by `HandlesInv`, every id in the map, in `_taskmap` and
  in a local is below `global_id`, an id stands for one timer wherever it is
  named, and a handle kept for a file is of a timer of that file.
* `NoChangeIsLost`: `[]NoLostChange`. The argument follows a dirty name from
  the kernel's queue to the analysis queue, into a call that has not read yet
  or behind a timer. The delicate step is the cancel, which takes a timer out
  of the pipeline: it can only be one of the same name (this needs
  `HandlesInv`), and the call that cancels counts as on its way until the new
  timer is there. The other is the sweep, whose timers stay in the map after
  their callback: `Armed` leaves those out, and the callback puts the node in
  the queue in the same step.
* `NoFileIsMissed`: `[]NoMissedFile` from `ChangesBeforeWatch = FALSE`. By
  `WalkInv` a file that exists and was not read yet is, during the walk, among
  the names listed or in the pipeline; the same pipeline lemma then carries it.
  Without the assumption it fails, as `change_before_watch` shows.
* `RowsAreUnique`: `[]OneRowPerFile` from `DBMayFail = FALSE`. `RowInv` says
  that a row a thread did not find is still missing when it inserts; by
  `OneAnalyst` nobody else could have inserted it in between.

`DelayProofs`, on the times of rows and timers:

* `DelaysAreBounded`: `[]DelayBounded`, failing statements included. By
  `TimesInv` a call that is about to schedule found its row younger than an
  interval, at a time the clock has passed, so what it adds expires before two;
  and a row is only written again with a later stamp.
* `TasksAreTracked`: `[]TaskmapTracks` from `DBMayFail = FALSE`. By `HeldInv` a
  task is only remembered for a file that has a row, so the node a fired timer
  puts in the queue leads to a call that replaces or forgets it, never to the
  branch of a new file, which does neither.
* `PendingTimersAreBounded`: `[]PendingTimersBounded` from `DBMayFail = FALSE`.
  `DelTask` forgets a task and leaves its timer. By `Quota` at most one such
  timer of a file is still to expire: it was added when the row was young and
  left when the row was old; if the row is then written, the next timer is only
  left when that row is old in turn, and the first has expired; if it is not,
  the row stays old and no check of the file is delayed any more.

`LedgerProofs`, on the table and the alerts:

* `NothingForgottenSilently`: `NoSilentForget`, failing statements included: by
  `Alerted`, the thread that deletes has just alerted the deletion.
* `TableAgreesWithDisk`: `[]DbInSync` from `DBMayFail = FALSE`. By `KnownInv`
  the row a thread has found is still so while it decides, and is old if it is
  going to be changed. By `SyncInv` what a call has read is what is there,
  unless the name is dirty again; it writes just that; and wherever it has
  nothing to write row and disk agree. A file that changes between `lstat` and
  read is dirty, so a torn checksum is never what stays.
* `AlertsMatchTheTable`: `ImplementsLedger` from `DBMayFail = FALSE`, step by
  step: `Insert`, `Update` and `AlertDeleted` are the three steps of the ledger
  (settled by `KnownInv`), `Crash` is `Death` (by `KnownInv`, `Alerted` and the
  stamps of `TimesInv`), `Tick` passes the time, everything else does not show.

`ThreadsProofs`:

* `ThreadsTypeCorrect`, `NoDeadlyEmbrace`, `NoWakeupIsLost`, `PopsFindANode`: by
  `Inv`, a thread between a lock and its unlock owns that mutex (`Owned`), what
  it has in hand fits its place, the timer found by a cancel included (`Held`),
  and the condition is waited on exactly where the code waits (`Woken`).
* `NoCheckIsLost`: `Ids`, as in `HandlesInv`; `Carrying`, the node the timer
  thread holds is that of the timer whose turn it is; and `Way`, a wanted file
  is on its way, a call that has put it off having its new timer in the map.
* `ThreadsImplementSteps`: each of the lock-by-lock steps is a step of
  `AnalysisSteps` or leaves what it shows unchanged.

`AlertActionsProofs`, by the conjuncts of `IInv`:

* `WhatIsSentIsTaken`: `DialogInv`. Codes do not tell commands apart, so a split
  reply can answer the next one; but only DATA is answered with 354, which the
  server gives only after it took somebody, and after a 354 nothing but 354
  comes until the text is sent, so the 250 that follows answers it (`InOrder`);
  without splits dialog and server are in step (`Lockstep`).
* `DescriptorsAreAccountedFor`; `NoLineIsLost`, by the names of files put away:
  a rotation in a second in which one was put away would need more lines than a
  second has (`Hurried`, on `FileLogAssumption`: 14 MB are not logged within a
  second); `SizeIsBounded`, by `Sized`, which counts the lines in the file that
  the counter does not, and what a dead process has left to its successor
  (`Dead`); `AlertActionsTypeCorrect`.

`RulesProofs`: `RulesTypeCorrect`, `PatternsAreOwn`, `ExcludedStaysOutAlways` and
`VerdictIsStable`, for any directories, names, patterns and number of checks, by
`IInv`, which says for each phase of `load_conf` which checks the maps hold
already (`Loaded`, `Excluded`), that nothing is walked or judged before the last
of them (`Walked`), and that what was judged would be judged so again (`Judged`).
That a non-empty set of keys has a first one, whatever the order of the map, is
the well-foundedness of the naturals. `ExcludedStaysOutAlways` is an equality:
watched is what some check leads to. By `EInv`, when the walks begin the excluded
directories are those that any check spells, and the set of watched directories
is then that of the walks done.

`NearestRuleIsTaken`: `[]NearestRule`, from `RInv`: after each `LoadAlerter` the
rule of a directory is that of the last check so far that names it (`Ruled`). The
search is a recursive function, so two facts carry the proof (`FindRuleIs`). Its
equation has a solution, given without recursion: the rule of the longest
configured prefix (`GreatestIs`). And every solution has that value: if one had
another somewhere, it would at a shortest directory (`LeastIs`), and neither a
directory with a rule nor one whose parent is right can be that one.

`DirWatchProofs`, for any number of directories, files, names, changes and
checks, any trees at the start and any length of the kernel's queue. Most of the
module is lemmas: that make, unlink and rename leave a tree (`IsTree`), what is
below what in it afterwards, which walks lead to a path and what of that stays
true when a directory on the stack is replaced by its entries, and what a queue
loses when it is full. The invariant is `IInv`:

* `DirWatchTypeCorrect`: `[]TypeOK`, which contains that the paths form a tree
  and that every event with a name has a descriptor of the table, since
  `watch()` does not test its `find`. By `QueueOK` a queue that is one
  longer than the limit holds the overflow mark already, by `WalkOK` a check is being walked wherever its settings are
  used, by `Unwatched` what is removed has no watch.
* `TableIsTrue`: `[]TableTrue`. A watch is set with the path that was listed, and
  a directory whose path changes afterwards is `stray`.
* `AllAreWatched`: `[]AllWatched`, by `Covered`: an unwatched directory that a
  check reaches is about to be watched or a walk is coming to it. The delicate
  step is the listing: whatever is below the listed directory is then below one
  of the entries on the stack. Only a directory the kernel refused takes anything
  out of that (`NextLoses`): what is below it, and no walk comes to any more, is
  `stray` from then on (`GivenUp`).
* `NothingIsLost`: `[]NothingLost`, by `Kept`, which adds that a name the walk is
  still to look at is the name of a file, so that the walk, coming to it, gives
  it to the judge; and a change in an unwatched directory that is promised is found by the
  walk `Covered` says is coming.

`DaemonProofs`, for any number of processes and commands:

* `DaemonTypeCorrect`: `[]TypeOK`.
* `OneDaemonAtMost` and `DaemonIsReachable`, from `Operator = "careful"`, for any
  number of failing calls: what they say is lost with the first one on the pid
  file (or the FIFO), and until then `DaemonInv` holds (`DaemonAlways`): one start is under way at a time; from where it has seen no
  daemon on, none is in its loop; the process the pid file names, if it lives,
  is the daemon; what a start has read of the pid file is still so when it
  decides. Without the assumption both fail, as `daemon_hasty` shows.
* `StopsAreFresh`, from the same assumption, by `FifoInv`: a byte waits only in
  a FIFO that somebody has open (`BytesHeld`), nobody has the new one open when it
  is made, and until the daemon opens it only a stop between its open and its
  close has it (`FreshFifo`).

Model-checked only: liveness, which is out of reach of the provers. What the
liveness properties need besides fairness is proved of each, as far as it is a
statement about states and steps:

* `EventuallyRead` and `EveryChangeRead`: that what is unread is on its way, and
  that the wait has its signal (`NoChangeIsLost`, `NoCheckIsLost`,
  `NoWakeupIsLost`, `NoDeadlyEmbrace`, `DelaysAreBounded`);
* `PromiseKept`: that every unread promise is in the queue or before the walk
  (`NothingIsLost`); that a walk over a tree left alone ends is not proved;
* `EveryAlertEnds`: `NoMutualWait`, where `sendmail` waits with nothing on the
  wire the server has an answer to give, and `AlertsAreFinite`, each step of the
  analysis thread makes what is left of an alert (`Left`: the actions to take,
  and in a dialog two steps for each command) smaller and no other step makes
  it greater. So an alert takes a bounded number of steps for any number of
  recipients, and only the next word of the server, for which the code sets no
  timeout, can be waited for without bound;
* `StopEnds`: `ProgramsGoForward`, no process goes back to a label it has left
  (`Rank`), and none is set back by another; and `StopsHit`, from
  `Operator = "careful"`: a stop that found a daemon under the pid in the file is
  on its way to it, between all of its reads of the file and its kill, until
  that daemon is gone, nothing keeps it from its end, or a call on the pid file
  fails. These use `LiveSignals`
  (a signal is for a process that lives, and no stop names itself) and `Targets`
  (whom a stop is about to kill, and who is signalled, is past its
  check of the pid file, or gone).

## 7. Not modelled

* Of `main`: `--test`, the reading of the configuration by libconfig, and
  `load_conf`'s treatment of settings of the wrong type (an exception ends the
  process).
* Of paths: their spelling. A slash or blank at the end of a configured path
  makes a key no search finds; `/` itself has a key no search reaches.
* Of patterns: regular expressions; of checksums: MD5, sizes and dates; of
  mails: headers and addresses; of the log: levels below the one it is set to.
* Descriptors outside `AlertActions`: those `get_pid` and `get_md5sum` do not
  close.
* The width of `expiration`, an `int` that is filled from a `time_t`.
* Files deleted while the daemon is down: their rows stay, since the walk only
  lists what is there.
* The bytes of the log: lines are counted, heads and messages not.
* Pids used again while a file or a command names them.
* `myexception.cpp`, and what is not built or never called: `configfile.c`,
  `message_queue.cpp`, `replication_log.cpp`, `tmp.c`, `test.cpp`, `worker.cpp`.
* Vendored code: SQLite's header, libconfig with its generated scanner and
  grammar, its bindings and tests, MD5. It is by far the most of the
  lines of the repository, and nothing in it was written for this program, so the
  share of all lines that `map` covers is small although it covers the program's
  own modules.

## 8. Plan

All components of the program with a behaviour of their own are modelled. What
could still be added, in this order:

1. Timers in 32 bits: `expiration` after 2038, and what a sweep then does.
2. The spelling of paths in the rules and the tables of the judge.
3. Descriptors that the analysis loses (`get_md5sum`), with those of the mails.
