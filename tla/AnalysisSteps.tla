----------------------------- MODULE AnalysisSteps -----------------------------
(***************************************************************************)
(* What the threads of the daemon may do to the queue, the task table and    *)
(* the timers, if every call of add_queue, get_task, cancel, add, set_task   *)
(* and del_task were one step, and a sweep three kinds of step.  This is the  *)
(* grain FileAnalysis is written in; AnalysisThreads, which has the mutexes   *)
(* and the condition, implements it.                                       *)
(***************************************************************************)
EXTENDS Sequences, TaskTimerManager

CONSTANTS NoFile, NoTask

VARIABLES
  anlysis_queue,
  taskmap,
  stage, hand,   \* how far the call of do_analysis is, and its file
  task           \* the timer it has looked up or made

sharing == <<anlysis_queue, timers, taskmap, stage, hand, task>>

StepsInit ==
  /\ anlysis_queue = << >>
  /\ TimersInit
  /\ taskmap = [f \in Files |-> NoTask]
  /\ stage = "idle" /\ hand = NoFile /\ task = NoTask

Enqueue ==
  /\ \E f \in Files : anlysis_queue' = Append(anlysis_queue, f)
  /\ UNCHANGED <<timers, taskmap, stage, hand, task>>

Take ==
  /\ stage = "idle" /\ anlysis_queue # << >>
  /\ hand' = Head(anlysis_queue)
  /\ anlysis_queue' = Tail(anlysis_queue)
  /\ stage' = "taken"
  /\ UNCHANGED <<timers, taskmap, task>>

(* The file is new and is recorded; or it is read, or its check delayed ...    *)
Insert ==
  /\ stage = "taken"
  /\ stage' = "idle" /\ hand' = NoFile
  /\ UNCHANGED <<anlysis_queue, timers, taskmap, task>>

Read ==
  /\ stage = "taken"
  /\ stage' = "read"
  /\ UNCHANGED <<anlysis_queue, timers, taskmap, hand, task>>

Lookup ==
  /\ stage = "taken"
  /\ task' = taskmap[hand]
  /\ stage' = IF task' = NoTask THEN "cancelled" ELSE "known"
  /\ UNCHANGED <<anlysis_queue, timers, taskmap, hand>>

Cancel ==
  /\ stage = "known"
  /\ cancel(task)
  /\ stage' = "cancelled"
  /\ UNCHANGED <<anlysis_queue, taskmap, hand, task>>

Schedule ==
  /\ stage = "cancelled"
  /\ task' \in Timer /\ task'.name = hand
  /\ add(task')
  /\ stage' = "scheduled"
  /\ UNCHANGED <<anlysis_queue, taskmap, hand>>

Done == stage' = "idle" /\ hand' = NoFile /\ task' = NoTask

Remember ==
  /\ stage = "scheduled"
  /\ taskmap' = [taskmap EXCEPT ![hand] = task]
  /\ Done
  /\ UNCHANGED <<anlysis_queue, timers>>

(* ... and what was remembered of it is forgotten.                         *)
Forget ==
  /\ stage = "read"
  /\ taskmap' = [taskmap EXCEPT ![hand] = NoTask]
  /\ Done
  /\ UNCHANGED <<anlysis_queue, timers>>

(* execute() takes timers out of the map up to some moment: with a timer, all  *)
(* that expire no later.                                                   *)
Sweep ==
  /\ MutexFree
  /\ sweep' # {} /\ sweep' \in SUBSET callbacks
  /\ \A t \in sweep', u \in callbacks : u.expiration <= t.expiration => u \in sweep'
  /\ due' = sweep'
  /\ UNCHANGED <<anlysis_queue, callbacks, taskmap, stage, hand, task>>

(* The callback of a timer: its file is in the queue before the next is called. *)
CallBack ==
  /\ \E timer \in due : Called(timer) /\ anlysis_queue' = Append(anlysis_queue, timer.name)
  /\ UNCHANGED <<taskmap, stage, hand, task>>

SweepOver ==
  /\ EndSweep
  /\ UNCHANGED <<anlysis_queue, taskmap, stage, hand, task>>

StepsNext ==
  \/ Enqueue \/ Take \/ Insert \/ Read \/ Lookup \/ Cancel \/ Schedule \/ Remember \/ Forget
  \/ Sweep \/ CallBack \/ SweepOver

StepsSpec == StepsInit /\ [][StepsNext]_sharing
===============================================================================
