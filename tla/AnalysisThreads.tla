---------------------------- MODULE AnalysisThreads ----------------------------
(***************************************************************************)
(* The three threads of the daemon and what keeps them apart: the mutex and  *)
(* the condition of the analysis queue, which also guard _taskmap, and       *)
(* callbacks_mutex of the timer manager.  (src/file_analysis.cpp, and       *)
(* src/TaskTimerManager.hpp.)                                              *)
(*                                                                         *)
(* A step is a lock, an unlock, a wait, or an access to something shared;    *)
(* the test of the queue and the pop, and the search of a timer and its       *)
(* erasure, are two steps.  What a file holds is left to FileAnalysis: here   *)
(* a check finds a row or none, and a change or none.                      *)
(***************************************************************************)
EXTENDS Integers, Sequences, Functions, FiniteSets

CONSTANTS
  Files,
  NoFile, NoTask, Nobody,
  Interval,              \* _interval, above 0
  MaxClock, MaxEvents    \* bounds of the environment

ASSUME ThreadsAssumption ==
  /\ Interval \in Nat \ {0} /\ MaxClock \in Nat /\ MaxEvents \in Nat
  /\ NoFile \notin Files

Threads == {"main", "analysis", "timer"}
ASSUME NobodyAssumption == Nobody \notin Threads

VARIABLES
  mutex, callbacks_mutex,   \* the thread that has it, or Nobody
  cond,                     \* of the analysis thread: "none", "waiting", "signalled"
  anlysis_queue, taskmap, global_id,
  callbacks,
  sweep, due,               \* the range of execute(), and what of it is not called yet
  pc,
  node,                     \* the file a thread is busy with
  task,                     \* oldTask or taskTimer of do_analysis
  timestamp,                \* of the row of a file; 0 if there is none
  clock, swept,             \* now, and when the timer thread looked last
  wanted, events            \* history: files with a change nobody has read; bound

structures == <<anlysis_queue, taskmap, global_id, callbacks, sweep, due>>
locks == <<mutex, callbacks_mutex, cond>>
world == <<timestamp, clock, swept, wanted, events>>
vars == <<locks, structures, pc, node, task, world>>

Timer == [expiration : Nat, task_id : Nat, name : Files]
ASSUME NoTaskAssumption == NoTask \notin Timer

Labels == [main     |-> {"poll", "push_lock", "push", "signal", "push_unlock"},
           analysis |-> {"lock", "test", "wait", "pop", "unlock", "analyse", "get_lock", "get_task",
                         "get_unlock", "cancel_lock", "find", "erase_one", "cancel_unlock",
                         "add_lock", "add", "add_unlock", "set_lock", "set_task", "set_unlock",
                         "del_lock", "del_task", "del_unlock"},
           timer    |-> {"sleep", "range", "callback", "push_lock", "push", "signal",
                         "push_unlock", "erase"}]

(* The range of a sweep, and the timer a cancel has found, are iterators of   *)
(* callbacks: whatever is in them is still in the map.                      *)
TypeOK ==
  /\ {mutex, callbacks_mutex} \subseteq Threads \cup {Nobody}
  /\ cond \in {"none", "waiting", "signalled"}
  /\ anlysis_queue \in Seq(Files)
  /\ taskmap \in [Files -> {NoTask} \cup Timer]
  /\ global_id \in Nat
  /\ callbacks \subseteq Timer
  /\ sweep \subseteq callbacks /\ due \subseteq sweep
  /\ pc \in [Threads -> UNION Range(Labels)] /\ \A t \in Threads : pc[t] \in Labels[t]
  /\ node \in [Threads -> Files \cup {NoFile}]
  /\ task \in {NoTask} \cup Timer
  /\ pc["analysis"] = "erase_one" => task \in callbacks
  /\ timestamp \in [Files -> Nat] /\ clock \in Nat /\ swept \in Nat
  /\ wanted \subseteq Files /\ events \in Nat

Init ==
  /\ mutex = Nobody /\ callbacks_mutex = Nobody /\ cond = "none"
  /\ anlysis_queue = << >> /\ taskmap = [f \in Files |-> NoTask] /\ global_id = 0
  /\ callbacks = {} /\ sweep = {} /\ due = {}
  /\ pc = [main |-> "poll", analysis |-> "lock", timer |-> "sleep"]
  /\ node = [t \in Threads |-> NoFile] /\ task = NoTask
  /\ clock = Interval /\ swept = 0
  /\ timestamp \in [Files -> {0, Interval}]
  /\ wanted = {} /\ events = 0
-------------------------------------------------------------------------------
Goto(t, from, to) == pc[t] = from /\ pc' = [pc EXCEPT ![t] = to]

Lock(t, from, to) ==
  /\ Goto(t, from, to)
  /\ mutex = Nobody /\ mutex' = t
  /\ UNCHANGED <<callbacks_mutex, cond, structures, node, task, world>>

Unlock(t, from, to) ==
  /\ Goto(t, from, to)
  /\ mutex' = Nobody
  /\ UNCHANGED <<callbacks_mutex, cond, structures, node, task, world>>

LockCallbacks(t, from, to) ==
  /\ Goto(t, from, to)
  /\ callbacks_mutex = Nobody /\ callbacks_mutex' = t
  /\ UNCHANGED <<mutex, cond, structures, node, task, world>>

UnlockCallbacks(t, from, to) ==
  /\ Goto(t, from, to)
  /\ callbacks_mutex' = Nobody
  /\ UNCHANGED <<mutex, cond, structures, node, task, world>>

(* The clock; it may stop when no timer is to expire.                       *)
Tick ==
  /\ clock < MaxClock \/ \E t \in callbacks : clock < t.expiration
  /\ clock' = clock + 1
  /\ UNCHANGED <<locks, structures, pc, node, task, timestamp, swept, wanted, events>>

(* An event comes out of watch().                                          *)
Event(f) ==
  /\ Goto("main", "poll", "push_lock")
  /\ events < MaxEvents /\ events' = events + 1
  /\ node' = [node EXCEPT !["main"] = f]
  /\ wanted' = wanted \cup {f}
  /\ UNCHANGED <<locks, structures, task, timestamp, clock, swept>>
-------------------------------------------------------------------------------
(* add_queue(), called by main and, from delay_check, by the timer thread.    *)

PushLock(t) == Lock(t, "push_lock", "push")

Push(t) ==
  /\ Goto(t, "push", "signal")
  /\ anlysis_queue' = Append(anlysis_queue, node[t])
  /\ due' = IF t = "timer" THEN {x \in due : \E y \in due : y.expiration < x.expiration
               \/ (y.expiration = x.expiration /\ y.task_id < x.task_id)} ELSE due
  /\ UNCHANGED <<taskmap, global_id, callbacks, sweep, locks, node, task, world>>

(* A deviation: the signal is only given by main.                           *)
Signal_main_only(t) ==
  /\ Goto(t, "signal", "push_unlock")
  /\ cond' = IF cond = "waiting" /\ t = "main" THEN "signalled" ELSE cond
  /\ UNCHANGED <<mutex, callbacks_mutex, structures, node, task, world>>

(* pthread_cond_signal: nothing is remembered where nobody waits.            *)
Signal(t) ==
  /\ Goto(t, "signal", "push_unlock")
  /\ cond' = IF cond = "waiting" THEN "signalled" ELSE cond
  /\ UNCHANGED <<mutex, callbacks_mutex, structures, node, task, world>>

PushUnlock(t) ==
  /\ Goto(t, "push_unlock", IF t = "main" THEN "poll" ELSE "callback")
  /\ mutex' = Nobody
  /\ node' = [node EXCEPT ![t] = NoFile]
  /\ UNCHANGED <<callbacks_mutex, cond, structures, task, world>>

AddQueue(t) == PushLock(t) \/ Push(t) \/ Signal(t) \/ PushUnlock(t)
-------------------------------------------------------------------------------
(* FileAnalysis::loop                                                      *)

LoopLock == Lock("analysis", "lock", "test")

(* A deviation: the mutex is given up before the thread is waiting.           *)
Test_unlocked ==
  /\ Goto("analysis", "test", IF anlysis_queue = << >> THEN "wait" ELSE "pop")
  /\ IF anlysis_queue = << >> THEN mutex' = Nobody /\ cond' \in {"waiting", "none"}
                              ELSE UNCHANGED <<mutex, cond>>
  /\ UNCHANGED <<callbacks_mutex, structures, node, task, world>>

(* The queue is empty: wait, and give up the mutex in one with that.          *)
Test ==
  /\ Goto("analysis", "test", IF anlysis_queue = << >> THEN "wait" ELSE "pop")
  /\ IF anlysis_queue = << >> THEN mutex' = Nobody /\ cond' = "waiting"
                              ELSE UNCHANGED <<mutex, cond>>
  /\ UNCHANGED <<callbacks_mutex, structures, node, task, world>>

(* A deviation: a thread that was woken does not look at the queue again.     *)
Wake_pops ==
  /\ Goto("analysis", "wait", "pop")
  /\ mutex = Nobody /\ mutex' = "analysis"
  /\ cond' = "none"
  /\ UNCHANGED <<callbacks_mutex, structures, node, task, world>>

(* Woken by a signal or, as POSIX allows, without one.                       *)
Wake ==
  /\ Goto("analysis", "wait", "test")
  /\ mutex = Nobody /\ mutex' = "analysis"
  /\ cond' = "none"
  /\ UNCHANGED <<callbacks_mutex, structures, node, task, world>>

Pop ==
  /\ Goto("analysis", "pop", "unlock")
  /\ node' = [node EXCEPT !["analysis"] = Head(anlysis_queue)]
  /\ anlysis_queue' = Tail(anlysis_queue)
  /\ UNCHANGED <<taskmap, global_id, callbacks, sweep, due, locks, task, world>>

LoopUnlock == Unlock("analysis", "unlock", "analyse")

file == node["analysis"]
Known == timestamp[file] # 0
TooEarly == Known /\ clock < timestamp[file] + Interval

(* do_analysis: a check that is not too early reads the file, and inserts,    *)
(* deletes, updates or leaves its row.                                     *)
Check ==
  /\ pc["analysis"] = "analyse" /\ ~TooEarly
  /\ Goto("analysis", "analyse", IF Known THEN "del_lock" ELSE "lock")
  /\ wanted' = wanted \ {file}
  /\ \E stamp \in IF Known THEN {0, timestamp[file], clock} ELSE {clock} :
       timestamp' = [timestamp EXCEPT ![file] = stamp]
  /\ node' = IF Known THEN node ELSE [node EXCEPT !["analysis"] = NoFile]
  /\ UNCHANGED <<locks, structures, task, clock, swept, events>>

Delay ==
  /\ Goto("analysis", "analyse", "get_lock")
  /\ TooEarly
  /\ UNCHANGED <<locks, structures, node, task, world>>

GetLock == Lock("analysis", "get_lock", "get_task")

GetTask ==
  /\ Goto("analysis", "get_task", "get_unlock")
  /\ task' = taskmap[file]
  /\ UNCHANGED <<locks, structures, node, world>>

(* A deviation: the guard of get_task lives as long as do_analysis.          *)
GetUnlock_late ==
  /\ Goto("analysis", "get_unlock", IF task = NoTask THEN "add_lock" ELSE "cancel_lock")
  /\ mutex' = IF task = NoTask THEN Nobody ELSE mutex
  /\ UNCHANGED <<callbacks_mutex, cond, structures, node, task, world>>

GetUnlock ==
  Unlock("analysis", "get_unlock", IF task = NoTask THEN "add_lock" ELSE "cancel_lock")

(* A deviation: cancel without the mutex.                                  *)
CancelLock_none ==
  /\ Goto("analysis", "cancel_lock", "find")
  /\ UNCHANGED <<locks, structures, node, task, world>>

(* cancel(): the search among the timers of equal expiration, and the erase.  *)
CancelLock == LockCallbacks("analysis", "cancel_lock", "find")

Find ==
  /\ Goto("analysis", "find", IF task \in callbacks THEN "erase_one" ELSE "cancel_unlock")
  /\ UNCHANGED <<locks, structures, node, task, world>>

EraseOne ==
  /\ Goto("analysis", "erase_one", "cancel_unlock")
  /\ callbacks' = callbacks \ {task}
  /\ UNCHANGED <<anlysis_queue, taskmap, global_id, sweep, due, locks, node, task, world>>

CancelUnlock == UnlockCallbacks("analysis", "cancel_unlock", "add_lock")

AddLock == LockCallbacks("analysis", "add_lock", "add")

(* The clock may have moved since the row was found too young: taskTimer gets *)
(* an expiration from the `now' of then, which is at most the clock.         *)
Add ==
  /\ Goto("analysis", "add", "add_unlock")
  /\ \E now \in {n \in 0..clock : n < timestamp[file] + Interval /\ n >= timestamp[file]} :
       task' = [expiration |-> now + Interval, task_id |-> global_id, name |-> file]
  /\ callbacks' = callbacks \cup {task'}
  /\ global_id' = global_id + 1
  /\ UNCHANGED <<anlysis_queue, taskmap, sweep, due, locks, node, world>>

AddUnlock == UnlockCallbacks("analysis", "add_unlock", "set_lock")

SetLock == Lock("analysis", "set_lock", "set_task")

SetTask ==
  /\ Goto("analysis", "set_task", "set_unlock")
  /\ taskmap' = [taskmap EXCEPT ![file] = task]
  /\ UNCHANGED <<anlysis_queue, global_id, callbacks, sweep, due, locks, node, task, world>>

DelLock == Lock("analysis", "del_lock", "del_task")

DelTask ==
  /\ Goto("analysis", "del_task", "del_unlock")
  /\ taskmap' = [taskmap EXCEPT ![file] = NoTask]
  /\ UNCHANGED <<anlysis_queue, global_id, callbacks, sweep, due, locks, node, task, world>>

(* The end of do_analysis, with the guard of set_task or del_task.           *)
Return ==
  /\ \E from \in {"set_unlock", "del_unlock"} : Goto("analysis", from, "lock")
  /\ mutex' = Nobody
  /\ node' = [node EXCEPT !["analysis"] = NoFile]
  /\ task' = NoTask
  /\ UNCHANGED <<callbacks_mutex, cond, structures, world>>

Loop ==
  \/ LoopLock \/ Test \/ Wake \/ Pop \/ LoopUnlock \/ Check \/ Delay
  \/ GetLock \/ GetTask \/ GetUnlock \/ CancelLock \/ Find \/ EraseOne \/ CancelUnlock
  \/ AddLock \/ Add \/ AddUnlock \/ SetLock \/ SetTask \/ DelLock \/ DelTask \/ Return
-------------------------------------------------------------------------------
(* TaskTimerManager::execute, which sleeps a second between two sweeps.       *)

(* Each sweep is in a later second; the last second of the bound stands for    *)
(* all that follow.                                                        *)
SweepLock ==
  /\ clock > swept \/ (clock >= MaxClock /\ \E t \in callbacks : t.expiration <= clock)
  /\ LockCallbacks("timer", "sleep", "range")

UpperBound ==
  /\ Goto("timer", "range", "callback")
  /\ sweep' = {t \in callbacks : t.expiration <= clock}
  /\ due' = sweep'
  /\ swept' = clock
  /\ UNCHANGED <<anlysis_queue, taskmap, global_id, callbacks, locks, node, task,
                 timestamp, clock, wanted, events>>

NextTimer(timer) ==
  /\ timer \in due
  /\ \A t \in due : timer.expiration < t.expiration
                    \/ (timer.expiration = t.expiration /\ timer.task_id <= t.task_id)

Callback ==
  /\ \E timer \in due :
       /\ NextTimer(timer)
       /\ node' = [node EXCEPT !["timer"] = timer.name]
  /\ Goto("timer", "callback", "push_lock")
  /\ UNCHANGED <<locks, structures, task, world>>

(* A deviation: what has expired by now is erased, not the range of before.    *)
Erase_afresh ==
  /\ due = {}
  /\ Goto("timer", "callback", "erase")
  /\ callbacks' = {t \in callbacks : t.expiration > clock}
  /\ sweep' = {}
  /\ UNCHANGED <<anlysis_queue, taskmap, global_id, due, locks, node, task, world>>

Erase ==
  /\ due = {}
  /\ Goto("timer", "callback", "erase")
  /\ callbacks' = callbacks \ sweep
  /\ sweep' = {}
  /\ UNCHANGED <<anlysis_queue, taskmap, global_id, due, locks, node, task, world>>

SweepUnlock == UnlockCallbacks("timer", "erase", "sleep")

Execute == SweepLock \/ UpperBound \/ Callback \/ Erase \/ SweepUnlock
-------------------------------------------------------------------------------
(* Nothing to do: main is in poll, the analysis thread waits, no timer is set. *)
Idle ==
  /\ pc = [main |-> "poll", analysis |-> "wait", timer |-> "sleep"]
  /\ cond = "waiting" /\ anlysis_queue = << >> /\ callbacks = {}
  /\ UNCHANGED vars

Next ==
  \/ Tick \/ Idle
  \/ \E f \in Files : Event(f)
  \/ AddQueue("main") \/ AddQueue("timer")
  \/ Loop \/ Execute

Spec == Init /\ [][Next]_vars

(* A thread that can take a step takes one.  A waiting thread is only owed a   *)
(* wake-up when it was signalled.  Spurious wake-ups take the mutex again and  *)
(* again; a thread that wants it is not passed over each time.               *)
Fairness ==
  /\ WF_vars(Tick)
  /\ WF_vars(AddQueue("main")) /\ SF_vars(PushLock("main"))
  /\ WF_vars(AddQueue("timer") \/ Execute) /\ SF_vars(PushLock("timer"))
  /\ WF_vars(Loop /\ ~Wake) /\ WF_vars(Wake /\ cond = "signalled")

FairSpec == Spec /\ Fairness
-------------------------------------------------------------------------------
(* Properties.                                                             *)

WaitsFor(t) ==
  IF pc[t] \in {"push_lock", "lock", "get_lock", "set_lock", "del_lock"} THEN mutex
  ELSE IF pc[t] \in {"cancel_lock", "add_lock", "sleep"} THEN callbacks_mutex
  ELSE Nobody

(* The timer thread takes the mutex of the queue with callbacks_mutex held;   *)
(* the analysis thread uses both and must not hold one while it waits for     *)
(* the other: no two threads wait for each other.                           *)
NoCircularWait ==
  \A t, u \in Threads : ~(WaitsFor(t) = u /\ WaitsFor(u) = t)

(* The analysis thread does not sleep on a queue that has something in it,    *)
(* but for the moment between the push and the signal.                      *)
NoLostWakeup ==
  pc["analysis"] = "wait" /\ cond # "signalled" /\ anlysis_queue # << >> =>
    \E t \in {"main", "timer"} : pc[t] = "signal"

(* front() and pop_front() are never called on an empty queue, spurious       *)
(* wake-ups included.                                                      *)
NeverPopsEmpty == pc["analysis"] = "pop" => anlysis_queue # << >>

(* At every instant a changed file is in main's hand, the queue, a timer that  *)
(* is to fire, or a call of do_analysis that has not read it: also between    *)
(* the unlock of one structure and the lock of the next.                     *)
NoCheckLost ==
  \A f \in wanted :
    \/ \E t \in {"main", "timer"} : node[t] = f /\ pc[t] \in {"push_lock", "push"}
    \/ f \in Range(anlysis_queue)
    \/ \E timer \in callbacks \ (sweep \ due) : timer.name = f
    \/ file = f /\ pc["analysis"] \notin {"del_lock", "del_task", "del_unlock"}

(* Whatever locks, sweeps and other files come between, a changed file is      *)
(* read in the end.                                                        *)
EveryChangeRead == \A f \in Files : f \in wanted ~> f \notin wanted

(* The threads implement the one-step calls that FileAnalysis is written in.  *)
Stage ==
  IF pc["analysis"] \in {"unlock", "analyse", "get_lock", "get_task"} THEN "taken"
  ELSE IF pc["analysis"] \in {"cancel_lock", "find", "erase_one"} THEN "known"
  ELSE IF pc["analysis"] = "get_unlock" /\ task # NoTask THEN "known"
  ELSE IF pc["analysis"] \in {"get_unlock", "cancel_unlock", "add_lock", "add"} THEN "cancelled"
  ELSE IF pc["analysis"] \in {"add_unlock", "set_lock", "set_task"} THEN "scheduled"
  ELSE IF pc["analysis"] \in {"del_lock", "del_task"} THEN "read"
  ELSE "idle"

Steps == INSTANCE AnalysisSteps WITH
  stage <- Stage,
  hand  <- IF Stage = "idle" THEN NoFile ELSE file,
  task  <- IF Stage = "idle" THEN NoTask ELSE task

ImplementsSteps == Steps!StepsSpec
===============================================================================
