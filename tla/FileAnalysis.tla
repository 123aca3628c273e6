----------------------------- MODULE FileAnalysis -----------------------------
(***************************************************************************)
(* The path of a change of a file through the daemon: the kernel's inotify  *)
(* queue, the analysis queue, do_analysis() with its table of checksums,    *)
(* its alerts and its delayed checks, the timer thread that puts delayed    *)
(* checks back in the queue, and the start of the daemon, which walks the   *)
(* monitored directory before the threads exist.                           *)
(* (src/file_analysis.cpp, src/TaskTimerManager.hpp, src/file_db.cpp,      *)
(* and of src/file_watcher.cpp and src/monitor.cpp what feeds them.)       *)
(*                                                                         *)
(* Two threads run do_analysis(): main, from File_watcher::add_dir while   *)
(* the configuration is loaded, and the analysis thread, from              *)
(* FileAnalysis::loop.  Nothing but the order of main() keeps them apart,  *)
(* so pc and loc are functions of the thread.                              *)
(***************************************************************************)
EXTENDS Sequences, FiniteSets, Functions, TaskTimerManager

CONSTANTS
  Cared,        \* the names (of Files) that pass filter and grep in do_analysis
  Contents,     \* what a regular file may hold, metadata included
  Absent,       \* there is no such file
  Special,      \* no regular file (a directory, a socket...), or lstat fails
  NoFile, NoTask, EmptySum, NoMd5,
  Interval,     \* _interval, 0 turns delayed checks off
  SkipModes,    \* the values --skip may have at a start
  DBMayFail,    \* may an sqlite call fail (disk full, database locked)?
  ChangesBeforeWatch,            \* see Change
  MaxClock, MaxChanges, MaxCrashes  \* bounds of the environment

ASSUME CaredAssumption    == Cared \subseteq Files
ASSUME IntervalAssumption == Interval \in Nat
ASSUME BoundsAssumption   ==
  /\ MaxClock \in Nat /\ MaxChanges \in Nat /\ MaxCrashes \in Nat
  /\ SkipModes \subseteq BOOLEAN
  /\ DBMayFail \in BOOLEAN /\ ChangesBeforeWatch \in BOOLEAN
ASSUME ValuesAssumption   ==
  /\ NoFile \notin Files
  /\ Absent # Special /\ {Absent, Special} \cap Contents = {}
  /\ NoMd5 \notin Contents
  /\ NoTask \notin Timer \cup Nat

Threads == {"main", "analysis"}

VARIABLES
  \* the environment
  disk,          \* what each name is on disk
  clock,         \* time(NULL)
  inotify,       \* events the kernel holds, then the rest of watch()'s buffer
  \* the process
  phase,         \* how far main() is; "down" when there is no process
  skip,          \* _skip
  unscanned,     \* names the directory walk has listed and not yet returned
  anlysis_queue,
  taskmap,       \* _taskmap
  global_id,
  pc, loc,       \* where each thread is in do_analysis, and its locals
  \* what outlives the process
  db,            \* the rows of table files, by name, in rowid order
  \* history and bounds
  told,          \* the last alert given for a name
  view,          \* "dirty": changed, with an event, since the last lstat;
                 \* "seen": not changed since; "unseen": neither
  changes, crashes

environ == <<disk, clock, inotify, changes>>
control == <<phase, skip, unscanned, crashes>>
tasks   == <<taskmap, global_id>>
vars == <<environ, control, anlysis_queue, timers, tasks, pc, loc, db, told, view>>
-------------------------------------------------------------------------------
DiskState == Contents \cup {Absent, Special}

(* get_checksum(): lstat gives size, mode and owner, then the file is       *)
(* opened and read; a file that cannot be read any more leaves the digest   *)
(* part empty.  Where lstat fails or the name is no regular file the        *)
(* caller's string stays empty.                                            *)
Checksum == {EmptySum} \cup [stat : Contents, md5 : {NoMd5} \cup Contents]

SumOf(c) == IF c \in Contents THEN [stat |-> c, md5 |-> c] ELSE EmptySum

Row == [md5sum : Checksum, timestamp : Nat]

Levels == {"none", "CREATED", "CHANGED", "DELETED"}

Labels == {"idle", "cancel", "add", "set_task", "lstat", "md5", "insert",
           "alert_created", "alert_deleted", "del", "update",
           "alert_changed", "del_task"}

Locals == [name : Files \cup {NoFile}, now : Nat, found : BOOLEAN,
           sum : Checksum, stat : DiskState, checksum : Checksum,
           task : {NoTask} \cup Timer]

NoLocals == [name |-> NoFile, now |-> 0, found |-> FALSE, sum |-> EmptySum,
             stat |-> Absent, checksum |-> EmptySum, task |-> NoTask]

TypeOK ==
  /\ disk \in [Files -> DiskState]
  /\ clock \in Nat
  /\ inotify \in Seq(Files)
  /\ phase \in {"down", "watch", "scan", "run"}
  /\ skip \in BOOLEAN
  /\ unscanned \subseteq Files
  /\ anlysis_queue \in Seq(Files)
  /\ TimersOK
  /\ taskmap \in [Files -> {NoTask} \cup Timer]
  /\ global_id \in Nat
  /\ pc \in [Threads -> Labels]
  /\ loc \in [Threads -> Locals]
  /\ db \in [Files -> Seq(Row)]
  /\ told \in [Files -> Levels]
  /\ view \in [Files -> {"unseen", "dirty", "seen"}]
  /\ changes \in Nat
  /\ crashes \in Nat
-------------------------------------------------------------------------------
(* The environment.                                                        *)

Tick ==
  /\ clock < MaxClock \/ \E t \in callbacks : clock < t.expiration
  /\ clock' = clock + 1
  /\ UNCHANGED <<disk, inotify, changes, control, anlysis_queue, timers, tasks,
                 pc, loc, db, told, view>>

(* A name is created, written, replaced or removed.  The kernel queues an   *)
(* event once the directory is watched.  ChangesBeforeWatch says whether    *)
(* changes may fall between the listing of the directory and its watch.     *)
Change(f) ==
  /\ changes < MaxChanges
  /\ ChangesBeforeWatch \/ phase # "watch"
  /\ \E c \in DiskState \ {disk[f]} : disk' = [disk EXCEPT ![f] = c]
  /\ changes' = changes + 1
  /\ \/ /\ phase \in {"scan", "run"}
        /\ inotify' = Append(inotify, f)
        /\ view' = [view EXCEPT ![f] = "dirty"]
     \/ /\ phase \in {"down", "watch"}
        /\ UNCHANGED <<inotify, view>>
  /\ UNCHANGED <<clock, control, anlysis_queue, timers, tasks, pc, loc, db, told>>
-------------------------------------------------------------------------------
(* The start of the process, in thread main: inotify_init, then             *)
(* File_watcher::add_dir lists the directory (EntryIterator::next), adds a  *)
(* watch for it, and returns the listed names one by one.                  *)

Start ==
  /\ phase = "down"
  /\ phase' = "watch"
  /\ skip' \in SkipModes
  /\ unscanned' = {f \in Files : disk[f] # Absent}
  /\ UNCHANGED <<environ, crashes, anlysis_queue, timers, tasks, pc, loc, db, told, view>>

AddWatch ==
  /\ phase = "watch"
  /\ phase' = "scan"
  /\ UNCHANGED <<environ, skip, unscanned, crashes, anlysis_queue, timers, tasks,
                 pc, loc, db, told, view>>

(* FileDB::find; an sqlite error looks like a missing row.                  *)
FindResults(f) ==
  {db[f] # << >>} \cup (IF DBMayFail THEN {FALSE} ELSE {})

(* The check is put off while the row is younger than the interval.        *)
TooEarly_inclusive(f) ==
  Interval # 0 /\ clock <= Head(db[f]).timestamp + Interval
TooEarly_never(f) == FALSE
TooEarly(f) == Interval # 0 /\ clock < Head(db[f]).timestamp + Interval

(* do_analysis(), from its entry to where it reads the file or schedules    *)
(* a delayed check.                                                        *)
do_analysis(t, f) ==
  \/ /\ f \notin Cared
     /\ UNCHANGED <<pc, loc>>
  \/ /\ f \in Cared
     /\ \E found \in FindResults(f) :
          /\ pc' = [pc EXCEPT ![t] = IF found /\ TooEarly(f) THEN "cancel" ELSE "lstat"]
          /\ loc' = [loc EXCEPT ![t] = [NoLocals EXCEPT
                       !.name = f, !.now = clock, !.found = found,
                       !.sum = IF found THEN Head(db[f]).md5sum ELSE EmptySum]]

(* One turn of the walk: a directory is only watched, a name that is gone   *)
(* since it was listed is taken for a directory that does not open, and     *)
(* --skip reads no file.                                                   *)
ScanFile(f) ==
  /\ phase = "scan" /\ pc["main"] = "idle"
  /\ f \in unscanned
  /\ unscanned' = unscanned \ {f}
  /\ \/ /\ disk[f] \notin Contents \/ skip
        /\ UNCHANGED <<pc, loc>>
     \/ /\ disk[f] # Absent /\ ~skip
        /\ do_analysis("main", f)
  /\ UNCHANGED <<environ, phase, skip, crashes, anlysis_queue, timers, tasks, db, told, view>>

(* A deviation: the walk is left to a thread of its own.                    *)
StartThreads_early ==
  /\ phase = "scan"
  /\ unscanned = {}
  /\ phase' = "run"
  /\ UNCHANGED <<environ, skip, unscanned, crashes, anlysis_queue, timers, tasks,
                 pc, loc, db, told, view>>

(* The walk is over: main() creates the two threads and enters loop().      *)
StartThreads ==
  /\ phase = "scan" /\ pc["main"] = "idle"
  /\ unscanned = {}
  /\ phase' = "run"
  /\ UNCHANGED <<environ, skip, unscanned, crashes, anlysis_queue, timers, tasks,
                 pc, loc, db, told, view>>

(* watch() hands the next event to the analysis queue (add_queue).          *)
Watch ==
  /\ phase = "run"
  /\ inotify # << >>
  /\ anlysis_queue' = Append(anlysis_queue, Head(inotify))
  /\ inotify' = Tail(inotify)
  /\ UNCHANGED <<disk, clock, changes, control, timers, tasks, pc, loc, db, told, view>>

(* FileAnalysis::loop takes the oldest node and analyses it.                *)
Dequeue ==
  /\ phase = "run" /\ pc["analysis"] = "idle"
  /\ anlysis_queue # << >>
  /\ anlysis_queue' = Tail(anlysis_queue)
  /\ do_analysis("analysis", Head(anlysis_queue))
  /\ UNCHANGED <<environ, control, timers, tasks, db, told, view>>
-------------------------------------------------------------------------------
(* The rest of do_analysis(), by thread.  Goto ends a step, Return the call. *)

Goto(t, label) == pc' = [pc EXCEPT ![t] = label]

Return(t) ==
  /\ pc' = [pc EXCEPT ![t] = "idle"]
  /\ loc' = [loc EXCEPT ![t] = NoLocals]

(* A deviation: the check already scheduled is left alone.                  *)
CancelOld_none(t) ==
  /\ pc[t] = "cancel"
  /\ Goto(t, "add")
  /\ UNCHANGED <<environ, control, anlysis_queue, timers, tasks, loc, db, told, view>>

(* The delayed check: cancel the one already scheduled for the name, ...    *)
CancelOld(t) ==
  /\ pc[t] = "cancel"
  /\ LET old == taskmap[loc[t].name] IN
       \/ old = NoTask /\ UNCHANGED timers
       \/ old # NoTask /\ cancel(old)
  /\ Goto(t, "add")
  /\ UNCHANGED <<environ, control, anlysis_queue, tasks, loc, db, told, view>>

(* A deviation: no new check for a name that has one.                      *)
AddTask_unless_known(t) ==
  /\ pc[t] = "add"
  /\ LET new == [expiration |-> Interval + loc[t].now, task_id |-> global_id,
                 name |-> loc[t].name] IN
       /\ IF taskmap[loc[t].name] = NoTask THEN add(new) ELSE UNCHANGED timers
       /\ loc' = [loc EXCEPT ![t].task = new]
  /\ global_id' = global_id + 1
  /\ Goto(t, "set_task")
  /\ UNCHANGED <<environ, control, anlysis_queue, taskmap, db, told, view>>

(* ... schedule a new one, an interval from now, ...                        *)
AddTask(t) ==
  /\ pc[t] = "add"
  /\ LET new == [expiration |-> Interval + loc[t].now, task_id |-> global_id,
                 name |-> loc[t].name] IN
       /\ add(new)
       /\ loc' = [loc EXCEPT ![t].task = new]
  /\ global_id' = global_id + 1
  /\ Goto(t, "set_task")
  /\ UNCHANGED <<environ, control, anlysis_queue, taskmap, db, told, view>>

(* ... and remember it.                                                    *)
SetTask(t) ==
  /\ pc[t] = "set_task"
  /\ taskmap' = [taskmap EXCEPT ![loc[t].name] = loc[t].task]
  /\ Return(t)
  /\ UNCHANGED <<environ, control, anlysis_queue, timers, global_id, db, told, view>>

(* Deviations: only the stat part is compared; a deletion is not alerted.   *)
SameStat(s1, s2) == s1 = s2 \/ (EmptySum \notin {s1, s2} /\ s1.stat = s2.stat)

Verdict_stat_only(l) ==
  IF ~l.found               THEN "insert"
  ELSE IF l.stat = Absent   THEN "alert_deleted"
  ELSE IF ~SameStat(l.checksum, l.sum) THEN "update"
  ELSE "del_task"

Verdict_deletes_first(l) ==
  IF ~l.found               THEN "insert"
  ELSE IF l.stat = Absent   THEN "del"
  ELSE IF l.checksum # l.sum THEN "update"
  ELSE "del_task"

(* What do_analysis does with what it has read.                            *)
Verdict(l) ==
  IF ~l.found               THEN "insert"
  ELSE IF l.stat = Absent   THEN "alert_deleted"
  ELSE IF l.checksum # l.sum THEN "update"
  ELSE "del_task"

(* get_checksum, first part: lstat.                                        *)
Lstat(t) ==
  /\ pc[t] = "lstat"
  /\ LET f == loc[t].name
         l == [loc[t] EXCEPT !.stat = disk[f]] IN
       /\ loc' = [loc EXCEPT ![t] = l]
       /\ Goto(t, IF disk[f] \in Contents THEN "md5" ELSE Verdict(l))
       /\ view' = [view EXCEPT ![f] = "seen"]
  /\ UNCHANGED <<environ, control, anlysis_queue, timers, tasks, db, told>>

(* get_checksum, second part: open, read, digest.                           *)
Md5(t) ==
  /\ pc[t] = "md5"
  /\ LET d == disk[loc[t].name]
         l == [loc[t] EXCEPT !.checksum =
                 [stat |-> loc[t].stat, md5 |-> IF d \in Contents THEN d ELSE NoMd5]] IN
       /\ loc' = [loc EXCEPT ![t] = l]
       /\ Goto(t, Verdict(l))
  /\ UNCHANGED <<environ, control, anlysis_queue, timers, tasks, db, told, view>>

(* The row of this moment for what thread t has read.                      *)
NewRow(t) == [md5sum |-> loc[t].checksum, timestamp |-> clock]

(* A statement on the rows of the name: they become rows, or the statement  *)
(* fails and the caller does not look.                                     *)
Execute(t, rows) ==
  /\ \/ db' = [db EXCEPT ![loc[t].name] = rows]
     \/ DBMayFail /\ UNCHANGED db
  /\ UNCHANGED <<environ, control, anlysis_queue, timers, tasks, loc, told, view>>

Insert(t) ==
  /\ pc[t] = "insert"
  /\ Execute(t, Append(db[loc[t].name], NewRow(t)))
  /\ Goto(t, "alert_created")

Update(t) ==
  /\ pc[t] = "update"
  /\ Execute(t, [i \in DOMAIN db[loc[t].name] |-> NewRow(t)])
  /\ Goto(t, "alert_changed")

Del(t) ==
  /\ pc[t] = "del"
  /\ Execute(t, << >>)
  /\ Goto(t, "del_task")

Alert(t, level) ==
  /\ told' = [told EXCEPT ![loc[t].name] = level]
  /\ UNCHANGED <<environ, control, anlysis_queue, timers, tasks, db, view>>

AlertCreated(t) ==
  /\ pc[t] = "alert_created"
  /\ Alert(t, "CREATED")
  /\ Return(t)

AlertChanged(t) ==
  /\ pc[t] = "alert_changed"
  /\ Alert(t, "CHANGED")
  /\ Goto(t, "del_task")
  /\ UNCHANGED loc

AlertDeleted(t) ==
  /\ pc[t] = "alert_deleted"
  /\ Alert(t, "DELETED")
  /\ Goto(t, "del")
  /\ UNCHANGED loc

(* A deviation: the delayed check is not forgotten.                         *)
DelTask_keeps(t) ==
  /\ pc[t] = "del_task"
  /\ Return(t)
  /\ UNCHANGED <<environ, control, anlysis_queue, timers, tasks, db, told, view>>

(* Forget the delayed check of the name; its timer, if it has not fired     *)
(* yet, stays in the timer manager.                                        *)
DelTask(t) ==
  /\ pc[t] = "del_task"
  /\ taskmap' = [taskmap EXCEPT ![loc[t].name] = NoTask]
  /\ Return(t)
  /\ UNCHANGED <<environ, control, anlysis_queue, timers, global_id, db, told, view>>

Analysis(t) ==
  \/ CancelOld(t) \/ AddTask(t) \/ SetTask(t)
  \/ Lstat(t) \/ Md5(t)
  \/ Insert(t) \/ AlertCreated(t)
  \/ AlertDeleted(t) \/ Del(t)
  \/ Update(t) \/ AlertChanged(t)
  \/ DelTask(t)
-------------------------------------------------------------------------------
(* The timer thread, run_timer_loop.                                       *)

SweepStart ==
  /\ phase = "run"
  /\ BeginSweep(clock)
  /\ UNCHANGED <<environ, control, anlysis_queue, tasks, pc, loc, db, told, view>>

(* A deviation: the callback does not reach the queue.                      *)
DelayCheck_lost(timer) ==
  /\ Called(timer)
  /\ UNCHANGED <<environ, control, anlysis_queue, tasks, pc, loc, db, told, view>>

(* delay_check puts the node of the timer back in the queue.                *)
DelayCheck(timer) ==
  /\ Called(timer)
  /\ anlysis_queue' = Append(anlysis_queue, timer.name)
  /\ UNCHANGED <<environ, control, tasks, pc, loc, db, told, view>>

SweepEnd ==
  /\ EndSweep
  /\ UNCHANGED <<environ, control, anlysis_queue, tasks, pc, loc, db, told, view>>
-------------------------------------------------------------------------------
FreshProcess ==
  /\ inotify = << >>
  /\ phase = "down"
  /\ skip = FALSE
  /\ unscanned = {}
  /\ anlysis_queue = << >>
  /\ TimersInit
  /\ taskmap = [f \in Files |-> NoTask]
  /\ global_id = 0
  /\ pc = [t \in Threads |-> "idle"]
  /\ loc = [t \in Threads |-> NoLocals]
  /\ view = [f \in Files |-> "unseen"]

(* The rows a former run may have left: none, or one, just written or old. *)
FormerSums == {SumOf(c) : c \in DiskState \ {Absent}}

FormerRows ==
  {<< >>} \cup {<<r>> : r \in [md5sum : FormerSums, timestamp : {0, Interval}]}

Init ==
  /\ FreshProcess
  /\ disk \in [Files -> DiskState]
  /\ clock = Interval
  /\ db \in [Files -> FormerRows]
  /\ told = [f \in Files |-> "none"]
  /\ changes = 0
  /\ crashes = 0

Step ==
  \/ Start \/ AddWatch \/ StartThreads \/ Watch \/ Dequeue
  \/ \E f \in Files : ScanFile(f)
  \/ \E t \in Threads : Analysis(t)
  \/ SweepStart \/ SweepEnd
  \/ \E timer \in due : DelayCheck(timer)

(* The process dies, from SIGTERM (--stop), SIGPIPE or kill: what it held   *)
(* in memory is gone, the database, the files and the alerts given stay.    *)
Crash ==
  /\ crashes < MaxCrashes
  /\ phase # "down"
  /\ inotify' = << >>
  /\ phase' = "down"
  /\ skip' = FALSE
  /\ unscanned' = {}
  /\ anlysis_queue' = << >>
  /\ TimersLost
  /\ taskmap' = [f \in Files |-> NoTask]
  /\ global_id' = 0
  /\ pc' = [t \in Threads |-> "idle"]
  /\ loc' = [t \in Threads |-> NoLocals]
  /\ view' = [f \in Files |-> "unseen"]
  /\ crashes' = crashes + 1
  /\ UNCHANGED <<disk, clock, changes, db, told>>

(* Nothing left to do: main is in poll(), the analysis thread in            *)
(* pthread_cond_wait(), the timer thread finds an empty map.                *)
Waiting ==
  /\ phase = "run"
  /\ inotify = << >> /\ anlysis_queue = << >> /\ callbacks = {}
  /\ \A t \in Threads : pc[t] = "idle"
  /\ UNCHANGED vars

Next ==
  \/ Tick
  \/ \E f \in Files : Change(f)
  \/ Step
  \/ Crash
  \/ Waiting

Spec == Init /\ [][Next]_vars

(* Each thread keeps running, the clock keeps running, and an alert action  *)
(* returns (the mail server answers or refuses: sendmail has no timeout).   *)
Fairness ==
  /\ WF_vars(Tick)
  /\ WF_vars(Start) /\ WF_vars(AddWatch) /\ WF_vars(StartThreads)
  /\ WF_vars(\E f \in Files : ScanFile(f))
  /\ WF_vars(Watch) /\ WF_vars(Dequeue)
  /\ \A t \in Threads : WF_vars(Analysis(t))
  /\ WF_vars(SweepStart) /\ WF_vars(SweepEnd)
  /\ WF_vars(\E timer \in due : DelayCheck(timer))

FairSpec == Spec /\ Fairness
-------------------------------------------------------------------------------
(* Properties.                                                             *)

Busy(t) == pc[t] # "idle"

Rescanning(f) == \E t \in Threads : pc[t] \in {"cancel", "add", "lstat"} /\ loc[t].name = f

(* Something that will make do_analysis read f: an event, a node of the     *)
(* queue, a timer that will call back, or a call that has not read yet.     *)
InPipeline(f) ==
  \/ f \in Range(inotify)
  \/ f \in Range(anlysis_queue)
  \/ \E timer \in Armed : timer.name = f
  \/ Rescanning(f)

(* No change is lost between the kernel, the two queues, the timers that    *)
(* are cancelled and replaced, and the thread that reads the file while it  *)
(* changes: a file that changed since it was last read will be read again.  *)
NoLostChange ==
  \A f \in Cared : view[f] = "dirty" => InPipeline(f)

(* The table agrees with the disk wherever the file was read after its last *)
(* change and no call of do_analysis is at work on it: no interleaving of   *)
(* reads and changes stores a stale or a torn checksum for good.            *)
InSync(f) ==
  \/ db[f] = << >> /\ disk[f] = Absent
  \/ db[f] # << >> /\ Head(db[f]).md5sum = SumOf(disk[f])

DbInSync ==
  \A f \in Files :
    view[f] = "seen" /\ (\A t \in Threads : loc[t].name # f) => InSync(f)

(* Table files has no UNIQUE constraint on name, and find and insert are    *)
(* two statements: one row per name rests on there being one analysing      *)
(* thread at a time.                                                       *)
OneRowPerFile == \A f \in Files : Len(db[f]) <= 1

(* The fields do_analysis uses without a lock (global_id, "not thread       *)
(* safe", and the database handle) are never used by two threads at once,   *)
(* because main has finished the walk before it creates the threads.        *)
AnalysisExclusive == ~(Busy("main") /\ Busy("analysis"))

(* Task ids tell the timers of the multimap apart, so that cancel erases    *)
(* the timer it was asked to, and not one of another file.                  *)
TaskIdsUnique ==
  \A t1, t2 \in callbacks : t1.task_id = t2.task_id => t1 = t2

(* A delayed check cannot be put off for ever by a stream of events that    *)
(* cancel and replace it: whatever is scheduled for a file runs before two  *)
(* intervals have passed since its row was written.                         *)
DelayBounded ==
  \A timer \in callbacks :
    db[timer.name] # << >> =>
      timer.expiration < Head(db[timer.name]).timestamp + 2 * Interval

(* The task remembered for a file is one that is still to fire, or one      *)
(* whose node is on its way to the analysis that will replace or forget it: *)
(* _taskmap holds no handle that nothing would ever clear.                  *)
TaskmapTracks ==
  \A f \in Files :
    taskmap[f] # NoTask =>
      \/ taskmap[f] \in Armed
      \/ f \in Range(anlysis_queue)
      \/ \E t \in Threads : loc[t].name = f

(* A check that is not delayed leaves the timer of the file behind (DelTask *)
(* forgets it without cancelling it), so a file can have more than one; but *)
(* never more than two that are still to expire.                           *)
PendingTimersBounded ==
  \A f \in Files :
    Cardinality({timer \in callbacks : timer.name = f /\ timer.expiration > clock}) <= 2

(* After a walk that read the files, every existing file has been read or   *)
(* is going to be.                                                         *)
NoMissedFile ==
  phase = "run" /\ ~skip =>
    \A f \in Cared : disk[f] \in Contents => view[f] # "unseen" \/ InPipeline(f)

(* CREATED is given for a name that was there when it was read.             *)
CreatedMeansExists ==
  \A t \in Threads : pc[t] = "alert_created" => loc[t].stat # Absent

(* The row of a file goes only after its deletion was alerted: a crash      *)
(* between the two repeats the alert, it never swallows it.                 *)
NoSilentForget ==
  [][\A f \in Files : db[f] # << >> /\ db'[f] = << >> => told[f] = "DELETED"]_<<db, told>>

(* Every change of a file is looked at in the end.                          *)
EventuallyRead == \A f \in Cared : view[f] = "dirty" ~> view[f] # "dirty"
-------------------------------------------------------------------------------
(* FileAnalysis implements AlertLedger.  The record is the row, gone once    *)
(* its deletion was alerted; an alert that follows the write of a row counts *)
(* as given with it.                                                       *)

At(f, label) == \E t \in Threads : loc[t].name = f /\ pc[t] = label

RecordOf(f) ==
  IF db[f] = << >> \/ At(f, "del") THEN NoTask ELSE Head(db[f]).timestamp

ToldOf(f) ==
  IF At(f, "alert_created") THEN "CREATED"
  ELSE IF At(f, "alert_changed") THEN "CHANGED"
  ELSE told[f]

Ledger == INSTANCE AlertLedger WITH
  NoRecord <- NoTask,
  record   <- [f \in Files |-> RecordOf(f)],
  told     <- [f \in Files |-> ToldOf(f)],
  deaths   <- crashes

(* Every change of the table and the alert that tells of it come in pairs,  *)
(* one alert per change and one change per alert, CHANGED and DELETED only  *)
(* for a file whose row has stood for an interval.                          *)
ImplementsLedger == Ledger!LedgerSpec
===============================================================================
