----------------------------- MODULE ThreadsProofs -----------------------------
(***************************************************************************)
(* What the TLA+ proof system checks of AnalysisThreads, for every set of    *)
(* files, every interval and every bound: the mutexes keep the threads apart, *)
(* no wake-up and no check is lost, and the threads implement AnalysisSteps. *)
(***************************************************************************)
EXTENDS AnalysisThreads, TLAPS

(* Where a thread has the mutex of the queue, and callbacks_mutex.           *)
InQueue == [main     |-> {"push", "signal", "push_unlock"},
            analysis |-> {"test", "pop", "unlock", "get_task", "get_unlock",
                          "set_task", "set_unlock", "del_task", "del_unlock"},
            timer    |-> {"push", "signal", "push_unlock"}]

Sweeping == {"callback", "push_lock", "push", "signal", "push_unlock"}

InTimers == [main     |-> {},
             analysis |-> {"find", "erase_one", "cancel_unlock", "add", "add_unlock"},
             timer    |-> Sweeping \cup {"range", "erase"}]

(* Where the analysis thread has a file, and a timer.                        *)
Idling  == {"lock", "test", "wait", "pop"}
Dealing == {"get_unlock", "cancel_lock", "find", "erase_one", "cancel_unlock",
     "add_lock", "add",
            "add_unlock", "set_lock", "set_task", "set_unlock"}

AllLabels == Labels.main \cup Labels.analysis \cup Labels.timer

Types ==
  /\ mutex \in Threads \cup {Nobody} /\ callbacks_mutex \in Threads \cup {Nobody}
  /\ cond \in {"none", "waiting", "signalled"}
  /\ anlysis_queue \in Seq(Files)
  /\ taskmap \in [Files -> {NoTask} \cup Timer]
  /\ global_id \in Nat
  /\ callbacks \subseteq Timer /\ sweep \subseteq callbacks /\ due \subseteq sweep
  /\ pc \in [Threads -> AllLabels]
  /\ pc["main"] \in Labels.main /\ pc["analysis"] \in Labels.analysis
  /\ pc["timer"] \in Labels.timer
  /\ node \in [Threads -> Files \cup {NoFile}]
  /\ task \in {NoTask} \cup Timer
  /\ timestamp \in [Files -> Nat] /\ clock \in Nat /\ swept \in Nat
  /\ wanted \subseteq Files /\ events \in Nat

(* A thread has a mutex exactly where its code says so.                      *)
Owned ==
  /\ \A t \in Threads : pc[t] \in InQueue[t] <=> mutex = t
  /\ \A t \in Threads : pc[t] \in InTimers[t] <=> callbacks_mutex = t

(* What each thread has in hand.                                           *)
Held ==
  /\ pc["main"] # "poll" => node["main"] \in Files
  /\ pc["timer"] \in Sweeping \ {"callback"} => node["timer"] \in Files
  /\ pc["timer"] \notin Sweeping => sweep = {}
  /\ IF pc["analysis"] \in Idling THEN file = NoFile ELSE file \in Files
  /\ pc["analysis"] \notin Dealing => task = NoTask
  /\ pc["analysis"] \in Dealing \ {"get_unlock", "cancel_unlock", "add_lock", "add"} => task # NoTask
  /\ pc["analysis"] = "erase_one" => task \in callbacks

(* The condition: NoLostWakeup and NeverPopsEmpty, and when it is waited for. *)
Woken ==
  /\ cond # "none" <=> pc["analysis"] = "wait"
  /\ NeverPopsEmpty
  /\ NoLostWakeup

Inv == Types /\ Owned /\ Held /\ Woken
-------------------------------------------------------------------------------
LEMMA LabelsOfThreads == AllLabels = UNION Range(Labels)
BY DEF AllLabels, Range, Labels

LEMMA InvType == Inv => TypeOK
<1> SUFFICES ASSUME Inv PROVE TypeOK
  OBVIOUS
<1>1. \A t \in Threads : pc[t] \in Labels[t]
  BY DEF Inv, Types, Threads
<1>2. pc \in [Threads -> UNION Range(Labels)]
  BY LabelsOfThreads DEF Inv, Types
<1> QED
  BY <1>1, <1>2 DEF Inv, Types, Held, TypeOK

LEMMA InvInit == Init => Inv
BY ThreadsAssumption, NobodyAssumption
DEF Init, Inv, Types, Owned, Held, Woken, AllLabels, Labels, InQueue, InTimers,
     Sweeping, Idling,
    Dealing, Threads, file, NeverPopsEmpty, NoLostWakeup

-------------------------------------------------------------------------------
LEMMA AddQueueInv ==
  ASSUME Inv, NEW t \in {"main", "timer"}, AddQueue(t)
  PROVE  Inv'
<1> USE ThreadsAssumption, NobodyAssumption
    DEF Inv, Types, Owned, Held, Woken, AllLabels, Labels, InQueue, InTimers, Sweeping,
        Idling, Dealing, Threads, file, NeverPopsEmpty, NoLostWakeup, locks,
             structures, world, Goto
<1>1. CASE PushLock(t)
  BY <1>1 DEF PushLock, Lock
<1>2. CASE Push(t)
  BY <1>2 DEF Push
<1>3. CASE Signal(t)
  BY <1>3 DEF Signal
<1>4. CASE PushUnlock(t)
  BY <1>4 DEF PushUnlock
<1> QED
  BY <1>1, <1>2, <1>3, <1>4 DEF AddQueue

LEMMA LoopInv ==
  ASSUME Inv, Loop
  PROVE  Inv'
<1> USE ThreadsAssumption, NobodyAssumption, NoTaskAssumption
    DEF Inv, Types, Owned, Held, Woken, AllLabels, Labels, InQueue, InTimers, Sweeping,
        Idling, Dealing, Threads, file, NeverPopsEmpty, NoLostWakeup, locks,
             structures, world, Goto
<1>1. CASE LoopLock
  BY <1>1 DEF LoopLock, Lock
<1>2. CASE Test
  BY <1>2 DEF Test
<1>3. CASE Wake
  BY <1>3 DEF Wake
<1>4. CASE Pop
  BY <1>4 DEF Pop
<1>5. CASE LoopUnlock
  BY <1>5 DEF LoopUnlock, Unlock
<1>6. CASE Check
  BY <1>6 DEF Check, Known, TooEarly
<1>7. CASE Delay
  BY <1>7 DEF Delay, Known, TooEarly
<1>8. CASE GetLock
  BY <1>8 DEF GetLock, Lock
<1>9. CASE GetTask
  BY <1>9 DEF GetTask
<1>10. CASE GetUnlock
  BY <1>10 DEF GetUnlock, Unlock
<1>11. CASE CancelLock
  BY <1>11 DEF CancelLock, LockCallbacks
<1>12. CASE Find
  BY <1>12 DEF Find
<1>13. CASE EraseOne
  BY <1>13 DEF EraseOne
<1>14. CASE CancelUnlock
  BY <1>14 DEF CancelUnlock, UnlockCallbacks
<1>15. CASE AddLock
  BY <1>15 DEF AddLock, LockCallbacks
<1>16. CASE Add
  BY <1>16 DEF Add, Timer
<1>17. CASE AddUnlock
  BY <1>17 DEF AddUnlock, UnlockCallbacks
<1>18. CASE SetLock
  BY <1>18 DEF SetLock, Lock
<1>19. CASE SetTask
  BY <1>19 DEF SetTask
<1>20. CASE DelLock
  BY <1>20 DEF DelLock, Lock
<1>21. CASE DelTask
  BY <1>21 DEF DelTask
<1>22. CASE Return
  BY <1>22 DEF Return
<1> QED
  BY <1>1, <1>2, <1>3, <1>4, <1>5, <1>6, <1>7, <1>8, <1>9, <1>10, <1>11, <1>12,
       <1>13, <1>14, <1>15, <1>16, <1>17, <1>18, <1>19, <1>20, <1>21, <1>22 DEF Loop

LEMMA ExecuteInv ==
  ASSUME Inv, Execute
  PROVE  Inv'
<1> USE ThreadsAssumption, NobodyAssumption, NoTaskAssumption
    DEF Inv, Types, Owned, Held, Woken, AllLabels, Labels, InQueue, InTimers, Sweeping,
        Idling, Dealing, Threads, file, NeverPopsEmpty, NoLostWakeup, locks,
             structures, world, Goto
<1>1. CASE SweepLock
  BY <1>1 DEF SweepLock, LockCallbacks
<1>2. CASE UpperBound
  BY <1>2 DEF UpperBound, Timer
<1>3. CASE Callback
  BY <1>3 DEF Callback, NextTimer, Timer
<1>4. CASE Erase
  BY <1>4 DEF Erase
<1>5. CASE SweepUnlock
  BY <1>5 DEF SweepUnlock, UnlockCallbacks
<1> QED
  BY <1>1, <1>2, <1>3, <1>4, <1>5 DEF Execute

LEMMA InvStep == Inv /\ [Next]_vars => Inv'
<1> SUFFICES ASSUME Inv, [Next]_vars PROVE Inv'
  OBVIOUS
<1> USE ThreadsAssumption, NobodyAssumption, NoTaskAssumption
    DEF Inv, Types, Owned, Held, Woken, AllLabels, Labels, InQueue, InTimers, Sweeping,
        Idling, Dealing, Threads, file, NeverPopsEmpty, NoLostWakeup, locks,
             structures, world, Goto
<1>1. CASE Tick
  BY <1>1 DEF Tick
<1>2. ASSUME NEW f \in Files, Event(f) PROVE Inv'
  BY <1>2 DEF Event
<1>3. CASE AddQueue("main") \/ AddQueue("timer")
  BY <1>3, AddQueueInv
<1>4. CASE Loop
  BY <1>4, LoopInv
<1>5. CASE Execute
  BY <1>5, ExecuteInv
<1>6. CASE Idle \/ UNCHANGED vars
  BY <1>6 DEF Idle, vars
<1> QED
  BY <1>1, <1>2, <1>3, <1>4, <1>5, <1>6 DEF Next
-------------------------------------------------------------------------------
(* The ids: a timer of the map, and every handle that is kept of one, is the   *)
(* only one with its id, and a handle is of the file it is kept for.         *)
Handles == (callbacks \cup {task} \cup {taskmap[f] : f \in Files}) \ {NoTask}

Ids ==
  /\ \A t \in Handles : t.task_id < global_id
  /\ \A t, u \in Handles : t.task_id = u.task_id => t = u
  /\ \A f \in Files : taskmap[f] # NoTask => taskmap[f].name = f
  /\ task # NoTask => task.name = file

LEMMA IdsInit == Init => Ids
BY NoTaskAssumption DEF Init, Ids, Handles

(* The steps that make no timer and take none over.                         *)
LEMMA IdsKept ==
  ASSUME Inv, Ids, callbacks' \subseteq callbacks, UNCHANGED global_id,
         \/ UNCHANGED task /\ (file' = file \/ task = NoTask)
         \/ task' = NoTask
         \/ task' = taskmap[file] /\ file \in Files /\ UNCHANGED node,
         \/ UNCHANGED taskmap
         \/ taskmap' = [taskmap EXCEPT ![file] = task] /\ file \in Files /\ task # NoTask
         \/ taskmap' = [taskmap EXCEPT ![file] = NoTask]
  PROVE  Ids'
<1>1. Handles' \subseteq Handles
  BY NoTaskAssumption DEF Inv, Types, Handles
<1>2. \A f \in Files : taskmap'[f] # NoTask => taskmap'[f].name = f
  BY DEF Ids, Inv, Types
<1>3. task' # NoTask => task'.name = file'
  BY DEF Ids, file
<1> QED
  BY <1>1, <1>2, <1>3 DEF Ids

LEMMA IdsStep == Inv /\ Ids /\ [Next]_vars => Ids'
<1> SUFFICES ASSUME Inv, Ids, [Next]_vars PROVE Ids'
  OBVIOUS
<1> USE DEF Goto, locks, structures, world, file
<1>1. CASE Add
  <2>1. /\ task' \in Timer /\ task'.task_id = global_id /\ task'.name = file
        /\ callbacks' = callbacks \cup {task'} /\ global_id' = global_id + 1
        /\ UNCHANGED <<taskmap, node>>
    BY <1>1, ThreadsAssumption DEF Add, Timer, Inv, Types, Held, Idling
  <2>2. Handles' \subseteq Handles \cup {task'}
    BY <2>1 DEF Handles
  <2>5. global_id \in Nat /\ \A t \in Handles : t.task_id \in Nat
    BY DEF Inv, Types, Timer, Handles
  <2>3. \A t \in Handles' : t.task_id < global_id'
    BY <2>1, <2>2, <2>5 DEF Ids
  <2>4. \A t, u \in Handles' : t.task_id = u.task_id => t = u
    BY <2>1, <2>2, <2>5 DEF Ids
  <2> QED
    BY <2>1, <2>3, <2>4 DEF Ids
<1>2. CASE Tick \/ Idle \/ UNCHANGED vars
  BY <1>2, IdsKept DEF Tick, Idle, vars
<1>3. ASSUME NEW f \in Files, Event(f) PROVE Ids'
  BY <1>3, IdsKept DEF Event, Inv, Types, Threads
<1>4. ASSUME NEW t \in {"main", "timer"}, AddQueue(t) PROVE Ids'
  <2>1. callbacks' = callbacks /\ UNCHANGED <<global_id, task, taskmap>> /\ file' = file
    BY <1>4 DEF AddQueue, PushLock, Push, Signal, PushUnlock, Lock, Inv, Types, Threads
  <2> QED
    BY <2>1, IdsKept
<1>5. CASE Execute
  <2>1. callbacks' \subseteq callbacks /\ UNCHANGED <<global_id, task, taskmap>> /\ file' = file
    BY <1>5 DEF Execute, SweepLock, UpperBound, Callback, Erase, SweepUnlock,
         LockCallbacks,
                UnlockCallbacks, Inv, Types, Threads
  <2> QED
    BY <2>1, IdsKept
<1>6. CASE LoopLock \/ Test \/ Wake \/ LoopUnlock \/ Delay
  BY <1>6, IdsKept DEF LoopLock, Test, Wake, LoopUnlock, Delay, Lock, Unlock
<1>7. CASE GetLock \/ GetUnlock \/ CancelLock \/ Find \/ CancelUnlock \/ AddLock \/ AddUnlock
           \/ SetLock \/ DelLock
  BY <1>7, IdsKept DEF GetLock, GetUnlock, CancelLock, Find, CancelUnlock, AddLock,
       AddUnlock,
                       SetLock, DelLock, Lock, Unlock, LockCallbacks, UnlockCallbacks
<1>8. CASE Pop \/ Check
  <2>1. task = NoTask
    BY <1>8 DEF Pop, Check, Inv, Held, Dealing
  <2> QED
    BY <1>8, <2>1, IdsKept DEF Pop, Check
<1>9. CASE GetTask \/ EraseOne \/ SetTask \/ DelTask \/ Return
  <2>1. ~Return => file \in Files
    BY <1>9 DEF GetTask, EraseOne, SetTask, DelTask, Inv, Held, Idling
  <2>2. SetTask => task # NoTask
    BY DEF SetTask, Inv, Held, Dealing
  <2> QED
    BY <1>9, <2>1, <2>2, IdsKept DEF GetTask, EraseOne, SetTask, DelTask, Return
<1> QED
  BY <1>1, <1>2, <1>3, <1>4, <1>5, <1>6, <1>7, <1>8, <1>9 DEF Next, Loop
-------------------------------------------------------------------------------
(* A node the timer thread carries is of the timer that is next in the range.  *)
Carried == \E timer \in due : NextTimer(timer) /\ timer.name = node["timer"]

Carrying == pc["timer"] \in {"push_lock", "push"} => Carried

(* The timer that is next is the only one: its push leaves the others due.    *)
LEMMA OneNext ==
  ASSUME Inv, Ids, NEW timer \in due, NextTimer(timer)
  PROVE  {x \in due : \E y \in due : y.expiration < x.expiration
            \/ (y.expiration = x.expiration /\ y.task_id < x.task_id)} = due \ {timer}
<1>1. due \subseteq Timer /\ timer \in Timer
  BY DEF Inv, Types
<1>2. \A x \in due : x.task_id = timer.task_id => x = timer
  BY <1>1, NoTaskAssumption DEF Ids, Handles, Inv, Types
<1>3. ASSUME NEW x \in due, x # timer
      PROVE  \/ timer.expiration < x.expiration
             \/ timer.expiration = x.expiration /\ timer.task_id < x.task_id
  BY <1>1, <1>2, <1>3 DEF NextTimer, Timer
<1>4. ASSUME NEW y \in due
      PROVE ~(\/ y.expiration < timer.expiration
              \/ y.expiration = timer.expiration /\ y.task_id < timer.task_id)
  BY <1>1 DEF NextTimer, Timer
<1> QED
  BY <1>3, <1>4

LEMMA CarryingStep == Inv /\ Carrying /\ [Next]_vars => Carrying'
<1> SUFFICES ASSUME Inv, Carrying, [Next]_vars, pc'["timer"] \in {"push_lock", "push"}
             PROVE  Carried'
  BY DEF Carrying
<1> USE DEF Goto, locks, structures, world, Inv, Types, Threads, AllLabels, Labels
<1>1. CASE Callback
  BY <1>1 DEF Callback, Carried, NextTimer
<1>2. CASE UNCHANGED <<due, pc["timer"], node["timer"]>>
  BY <1>2 DEF Carrying, Carried, NextTimer
<1>3. CASE PushLock("timer")
  BY <1>3 DEF PushLock, Lock, Carrying, Carried, NextTimer
<1>4. CASE ~Callback /\ ~PushLock("timer")
  <2>1. CASE AddQueue("main") \/ \E f \in Files : Event(f)
    BY <2>1, <1>2 DEF AddQueue, PushLock, Lock, Push, Signal, PushUnlock, Event
  <2>2. CASE AddQueue("timer") \/ Execute
    BY <2>2, <1>4 DEF AddQueue, Push, Signal, PushUnlock, Execute, SweepLock,
         UpperBound, Erase,
                      SweepUnlock, LockCallbacks, UnlockCallbacks
  <2>3. CASE Tick \/ Idle \/ UNCHANGED vars
    BY <2>3, <1>2 DEF Tick, Idle, vars
  <2>4. CASE Loop
    BY <2>4, <1>2 DEF Loop, LoopLock, Test, Wake, Pop, LoopUnlock, Check, Delay,
         GetLock, GetTask,
         GetUnlock, CancelLock, Find, EraseOne, CancelUnlock, AddLock, Add,
              AddUnlock, SetLock,
         SetTask, DelLock, DelTask, Return, Lock, Unlock, LockCallbacks, UnlockCallbacks
  <2> QED
    BY <2>1, <2>2, <2>3, <2>4 DEF Next
<1> QED
  BY <1>1, <1>3, <1>4
-------------------------------------------------------------------------------
(* What is in a queue after a push and after a pop.                         *)
LEMMA RangeAppend ==
  ASSUME NEW S, NEW q \in Seq(S), NEW x \in S
  PROVE  Range(Append(q, x)) = Range(q) \cup {x}
<1>1. \A i \in 1..Len(q) : Append(q, x)[i] = q[i]
  OBVIOUS
<1>2. Append(q, x)[Len(q) + 1] = x /\ DOMAIN Append(q, x) = 1..(Len(q) + 1)
  OBVIOUS
<1>3. 1..(Len(q) + 1) = 1..Len(q) \cup {Len(q) + 1} /\ DOMAIN q = 1..Len(q)
  OBVIOUS
<1> QED
  BY <1>1, <1>2, <1>3 DEF Range

LEMMA RangeTail ==
  ASSUME NEW S, NEW q \in Seq(S), q # << >>
  PROVE  Range(q) \subseteq {Head(q)} \cup Range(Tail(q))
<1> SUFFICES ASSUME NEW i \in 1..Len(q), i # 1 PROVE \E j \in DOMAIN Tail(q) : Tail(q)[j] = q[i]
  BY DEF Range
<1>1. i - 1 \in DOMAIN Tail(q) /\ Tail(q)[i - 1] = q[i]
  OBVIOUS
<1> QED
  BY <1>1

(* Where a file is on its way to the analysis thread.                        *)
OnWay(f) ==
  \/ \E t \in {"main", "timer"} : node[t] = f /\ pc[t] \in {"push_lock", "push"}
  \/ f \in Range(anlysis_queue)
  \/ \E timer \in callbacks \ (sweep \ due) : timer.name = f

(* It stays so until it is taken out of the queue or its check is cancelled.   *)
LEMMA StaysOnWay ==
  ASSUME Inv, Ids, Carrying, [Next]_vars, NEW f \in Files, OnWay(f)
  PROVE  \/ OnWay(f)'
         \/ Pop /\ file' = f
         \/ EraseOne /\ task.name = f
<1> USE DEF Goto, locks, structures, world, Threads
<1>t. /\ pc \in [Threads -> AllLabels] /\ node \in [Threads -> Files \cup {NoFile}]
      /\ anlysis_queue \in Seq(Files) /\ sweep \subseteq callbacks /\ due \subseteq sweep
  BY DEF Inv, Types
<1>1. CASE Tick \/ Idle \/ UNCHANGED vars
  BY <1>1 DEF Tick, Idle, vars, OnWay
<1>2. ASSUME NEW g \in Files, Event(g) PROVE OnWay(f)'
  BY <1>2, <1>t DEF Event, OnWay
<1>3. ASSUME NEW t \in {"main", "timer"}, AddQueue(t) PROVE OnWay(f)'
  <2>1. CASE Push(t)
    <3>1. node[t] \in Files
      BY <2>1 DEF Push, Inv, Held, Types, Labels, Sweeping
    <3>2. Range(anlysis_queue)' = Range(anlysis_queue) \cup {node[t]}
      BY <2>1, <3>1, <1>t, RangeAppend DEF Push
    <3>3. CASE t = "main"
      BY <2>1, <3>2, <3>3, <1>t DEF Push, OnWay
    <3>4. CASE t = "timer"
      <4>1. PICK timer \in due : NextTimer(timer) /\ timer.name = node["timer"]
        BY <2>1, <3>4 DEF Push, Carrying, Carried
      <4>2. due' = due \ {timer} /\ UNCHANGED <<callbacks, sweep, node>>
        BY <2>1, <3>4, <4>1, OneNext DEF Push
      <4> QED
        BY <2>1, <3>2, <3>4, <4>1, <4>2, <1>t DEF Push, OnWay
    <3> QED
      BY <3>3, <3>4
  <2>2. CASE PushLock(t) \/ Signal(t) \/ PushUnlock(t)
    BY <2>2, <1>t DEF PushLock, Lock, Signal, PushUnlock, OnWay
  <2> QED
    BY <1>3, <2>1, <2>2 DEF AddQueue
<1>4. CASE Execute
  <2>1. CASE UpperBound
    <3>1. sweep = {}
      BY <2>1 DEF UpperBound, Inv, Held, Sweeping
    <3> QED
      BY <2>1, <3>1, <1>t DEF UpperBound, OnWay
  <2>2. CASE Erase
    BY <2>2, <1>t DEF Erase, OnWay
  <2>3. CASE SweepLock \/ Callback \/ SweepUnlock
    BY <2>3, <1>t DEF SweepLock, Callback, SweepUnlock, LockCallbacks,
         UnlockCallbacks, OnWay
  <2> QED
    BY <1>4, <2>1, <2>2, <2>3 DEF Execute
<1>5. CASE Pop
  <2>1. Range(anlysis_queue) \subseteq {file'} \cup Range(anlysis_queue')
    BY <1>5, <1>t, RangeTail DEF Pop, Inv, Woken, NeverPopsEmpty, file
  <2> QED
    BY <1>5, <2>1, <1>t DEF Pop, OnWay, file
<1>6. CASE EraseOne
  BY <1>6, <1>t DEF EraseOne, OnWay
<1>7. CASE Add
  BY <1>7, <1>t DEF Add, OnWay
<1>8. CASE Loop /\ ~Pop /\ ~EraseOne /\ ~Add
  <2>1. UNCHANGED <<anlysis_queue, callbacks, sweep, due>>
    BY <1>8 DEF Loop, LoopLock, Test, Wake, LoopUnlock, Check, Delay, GetLock, GetTask,
       GetUnlock, CancelLock, Find, CancelUnlock, AddLock, AddUnlock, SetLock,
       SetTask, DelLock, DelTask, Return, Lock, Unlock, LockCallbacks, UnlockCallbacks
  <2>2. \A t \in {"main", "timer"} : pc'[t] = pc[t] /\ node'[t] = node[t]
    BY <1>8, <1>t DEF Loop, LoopLock, Test, Wake, LoopUnlock, Check, Delay, GetLock,
         GetTask,
       GetUnlock, CancelLock, Find, CancelUnlock, AddLock, AddUnlock, SetLock,
       SetTask, DelLock, DelTask, Return, Lock, Unlock, LockCallbacks, UnlockCallbacks
  <2> QED
    BY <2>1, <2>2 DEF OnWay
<1> QED
  BY <1>1, <1>2, <1>3, <1>4, <1>5, <1>6, <1>7, <1>8 DEF Next

(* A file that do_analysis has put off is on its way when its call ends.      *)
PutOff == {"add_unlock", "set_lock", "set_task", "set_unlock"}

Way ==
  /\ \A f \in wanted :
       \/ OnWay(f)
       \/ file = f /\ pc["analysis"] \notin {"del_lock", "del_task", "del_unlock"}
  /\ pc["analysis"] \in PutOff => OnWay(file)

LEMMA WayStep == Inv /\ Ids /\ Carrying /\ Way /\ [Next]_vars => Way'
<1> SUFFICES ASSUME Inv, Ids, Carrying, Way, [Next]_vars PROVE Way'
  OBVIOUS
<1> USE DEF Goto, locks, structures, world, Threads
<1>t. /\ pc \in [Threads -> AllLabels] /\ node \in [Threads -> Files \cup {NoFile}]
      /\ wanted \subseteq Files /\ NoFile \notin Files
      /\ pc["analysis"] \in Labels.analysis
  BY ThreadsAssumption DEF Inv, Types
<1>1. CASE Loop
  <2>1. wanted' \subseteq wanted
    BY <1>1 DEF Loop, LoopLock, Test, Wake, Pop, LoopUnlock, Check, Delay, GetLock,
         GetTask,
       GetUnlock, CancelLock, Find, EraseOne, CancelUnlock, AddLock, Add, AddUnlock,
            SetLock,
       SetTask, DelLock, DelTask, Return, Lock, Unlock, LockCallbacks, UnlockCallbacks
  <2>2. CASE Pop
    <3>1. file = NoFile /\ pc'["analysis"] = "unlock"
      BY <2>2, <1>t DEF Pop, Inv, Held, Idling
    <3> QED
      BY <2>1, <2>2, <3>1, <1>t, StaysOnWay DEF Way, EraseOne, Pop, PutOff
  <2>3. CASE Check
    <3>1. file' = file \/ file' = NoFile
      BY <2>3, <1>t DEF Check, file
    <3>2. pc'["analysis"] \in {"del_lock", "lock"} /\ wanted' = wanted \ {file}
      BY <2>3, <1>t DEF Check
    <3> QED
      BY <2>3, <3>1, <3>2, <1>t, StaysOnWay DEF Way, EraseOne, Check, Pop, PutOff
  <2>4. CASE EraseOne
    <3>1. task.name = file /\ file' = file /\ pc'["analysis"] = "cancel_unlock"
      BY <2>4, <1>t DEF EraseOne, Ids, Inv, Held, Dealing, file
    <3> QED
      BY <2>1, <2>4, <3>1, <1>t, StaysOnWay DEF Way, EraseOne, Pop, PutOff
  <2>5. CASE Add
    <3>1. /\ file' = file /\ pc'["analysis"] = "add_unlock" /\ file \in Files
          /\ UNCHANGED <<sweep, due>> /\ callbacks' = callbacks \cup {task'} /\ task'.name = file
      BY <2>5, <1>t DEF Add, Inv, Held, Idling, file
    <3>2. task' \notin callbacks
      <4>1. task'.task_id = global_id /\ global_id \in Nat
        BY <2>5 DEF Add, Inv, Types
      <4> QED
        BY <4>1, NoTaskAssumption DEF Ids, Handles, Inv, Types, Timer
    <3>3. task' \in callbacks' \ (sweep' \ due')
      BY <3>1, <3>2 DEF Inv, Types
    <3>4. OnWay(file)'
      BY <3>1, <3>3 DEF OnWay
    <3> QED
      BY <2>1, <2>5, <3>1, <3>4, <1>t, StaysOnWay DEF Way, Add, EraseOne, Pop, PutOff
  <2>6. CASE Return
    <3>1. file' = NoFile /\ pc'["analysis"] = "lock"
      BY <2>6, <1>t DEF Return, file
    <3>2. \A f \in wanted : OnWay(f)
      BY <2>6, <1>t DEF Way, Return, PutOff
    <3> QED
      BY <2>1, <2>6, <3>1, <3>2, <1>t, StaysOnWay DEF Way, Return, EraseOne, Pop, PutOff
  <2>7. CASE Loop /\ ~Pop /\ ~Check /\ ~EraseOne /\ ~Add /\ ~Return
    <3>1. file' = file
      BY <2>7, <1>t DEF Loop, LoopLock, Test, Wake, LoopUnlock, Delay, GetLock, GetTask,
       GetUnlock, CancelLock, Find, CancelUnlock, AddLock, AddUnlock, SetLock, file,
       SetTask, DelLock, DelTask, Lock, Unlock, LockCallbacks, UnlockCallbacks
    <3>2. /\ pc'["analysis"] \in PutOff => pc["analysis"] \in PutOff
          /\ pc'["analysis"] \in {"del_lock", "del_task", "del_unlock"}
               => pc["analysis"] \in {"del_lock", "del_task", "del_unlock"}
      BY <2>7, <1>t DEF Loop, LoopLock, Test, Wake, LoopUnlock, Delay, GetLock, GetTask,
       GetUnlock, CancelLock, Find, CancelUnlock, AddLock, AddUnlock, SetLock, PutOff,
       SetTask, DelLock, DelTask, Lock, Unlock, LockCallbacks, UnlockCallbacks
    <3>3. pc["analysis"] \in PutOff => file \in Files
      BY DEF Inv, Held, PutOff, Idling
    <3> QED
      BY <2>1, <2>7, <3>1, <3>2, <3>3, <1>t, StaysOnWay DEF Way
  <2> QED
    BY <1>1, <2>2, <2>3, <2>4, <2>5, <2>6, <2>7
<1>2. ASSUME NEW f \in Files, Event(f) PROVE Way'
  <2>1. OnWay(f)' /\ wanted' = wanted \cup {f}
    BY <1>2, <1>t DEF Event, OnWay
  <2>2. file' = file /\ pc'["analysis"] = pc["analysis"]
    BY <1>2, <1>t DEF Event, file
  <2>3. pc["analysis"] \in PutOff => file \in Files
    BY DEF Inv, Held, PutOff, Idling
  <2>4. ~Pop /\ ~EraseOne
    BY <2>2, <1>t DEF Pop, EraseOne
  <2> QED
    BY <2>1, <2>2, <2>3, <2>4, <1>t, StaysOnWay DEF Way
<1>3. CASE ~Loop /\ ~\E f \in Files : Event(f)
  <2>1. UNCHANGED wanted /\ file' = file /\ pc'["analysis"] = pc["analysis"]
    <3>1. CASE Tick \/ Idle \/ UNCHANGED vars
      BY <3>1 DEF Tick, Idle, vars, file
    <3>2. CASE AddQueue("main") \/ AddQueue("timer")
      BY <3>2, <1>t DEF AddQueue, PushLock, Lock, Push, Signal, PushUnlock, file
    <3>3. CASE Execute
      BY <3>3, <1>t DEF Execute, SweepLock, UpperBound, Callback, Erase, SweepUnlock,
                        LockCallbacks, UnlockCallbacks, file
    <3> QED
      BY <1>3, <3>1, <3>2, <3>3 DEF Next
  <2>2. pc["analysis"] \in PutOff => file \in Files
    BY DEF Inv, Held, PutOff, Idling
  <2>3. ~Pop /\ ~EraseOne
    BY <2>1, <1>t DEF Pop, EraseOne
  <2> QED
    BY <2>1, <2>2, <2>3, <1>t, StaysOnWay DEF Way
<1> QED
  BY <1>1, <1>2, <1>3
-------------------------------------------------------------------------------
(* The invariant of the threads.                                           *)
Whole == Inv /\ Ids /\ Carrying /\ Way

LEMMA WholeHolds == Spec => []Whole
<1>1. Init => Whole
  <2> SUFFICES ASSUME Init PROVE Whole
    OBVIOUS
  <2>1. Carrying
    BY DEF Init, Carrying
  <2>2. Way
    BY DEF Init, Way, PutOff
  <2> QED
    BY <2>1, <2>2, InvInit, IdsInit DEF Whole
<1>2. Whole /\ [Next]_vars => Whole'
  BY InvStep, IdsStep, CarryingStep, WayStep DEF Whole
<1> QED
  BY <1>1, <1>2, PTL DEF Spec

(* What the two mutexes guard is used by one thread at a time: the iterators   *)
(* of a sweep and of a cancel stay valid, whatever the other thread does.     *)
THEOREM ThreadsTypeCorrect == Spec => []TypeOK
BY WholeHolds, InvType, PTL DEF Whole

(* The order of the two mutexes, callbacks_mutex before the mutex of the      *)
(* queue, is kept: no two threads wait for each other.                      *)
THEOREM NoDeadlyEmbrace == Spec => []NoCircularWait
<1>1. Inv => NoCircularWait
  BY NobodyAssumption DEF Inv, Types, Owned, NoCircularWait, WaitsFor, AllLabels,
       Labels, InQueue, InTimers,
     Sweeping, Threads
<1> QED
  BY <1>1, WholeHolds, PTL DEF Whole

(* pthread_cond_signal comes with the queue's mutex held and the test of the   *)
(* queue is repeated with it held: no node waits for a thread that sleeps.    *)
THEOREM NoWakeupIsLost == Spec => []NoLostWakeup
<1>1. Inv => NoLostWakeup
  BY DEF Inv, Woken
<1> QED
  BY <1>1, WholeHolds, PTL DEF Whole

(* Spurious wake-ups included, front() and pop_front() find a node.          *)
THEOREM PopsFindANode == Spec => []NeverPopsEmpty
<1>1. Inv => NeverPopsEmpty
  BY DEF Inv, Woken
<1> QED
  BY <1>1, WholeHolds, PTL DEF Whole

(* Between any unlock and the next lock, a changed file is somewhere that     *)
(* leads to a read of it.                                                  *)
THEOREM NoCheckIsLost == Spec => []NoCheckLost
<1>1. Way => NoCheckLost
  BY DEF Way, NoCheckLost, OnWay
<1> QED
  BY <1>1, WholeHolds, PTL DEF Whole
-------------------------------------------------------------------------------
(* The refinement: each step of a thread is a call of AnalysisSteps or none.   *)
Hand == IF Stage = "idle" THEN NoFile ELSE file
Task == IF Stage = "idle" THEN NoTask ELSE task

Unchanged == UNCHANGED <<anlysis_queue, callbacks, sweep, due, taskmap, Stage, Hand,
     Task>>

LEMMA RefinesInit == Init => Steps!StepsInit
BY DEF Init, Steps!StepsInit, Steps!TimersInit, Stage

LEMMA RefinesNothing == ASSUME Unchanged PROVE UNCHANGED Steps!sharing
BY DEF Unchanged, Steps!sharing, Steps!timers, Hand, Task

(* A step that leaves the analysis thread alone leaves its call where it is.   *)
LEMMA SameCall ==
  ASSUME pc'["analysis"] = pc["analysis"], file' = file, task' = task
  PROVE  UNCHANGED <<Stage, Hand, Task>>
BY DEF Stage, Hand, Task

LEMMA RefinesLoop ==
  ASSUME Inv, Ids, Loop
  PROVE  [Steps!StepsNext]_(Steps!sharing)
<1> USE DEF Goto, locks, structures, world, file, Hand, Task
<1>t. /\ pc \in [Threads -> AllLabels] /\ node \in [Threads -> Files \cup {NoFile}]
      /\ anlysis_queue \in Seq(Files) /\ "analysis" \in Threads
  BY DEF Inv, Types, Threads
<1>1. CASE LoopLock \/ Test \/ Wake \/ LoopUnlock \/ Delay \/ GetLock \/ CancelLock
           \/ CancelUnlock \/ AddLock \/ AddUnlock \/ SetLock \/ DelLock
  <2>1. Unchanged
    BY <1>1, <1>t DEF LoopLock, Test, Wake, LoopUnlock, Delay, GetLock, CancelLock,
         CancelUnlock, AddLock,
          AddUnlock, SetLock, DelLock, Lock, Unlock, LockCallbacks, UnlockCallbacks,
               Stage, Unchanged,
          Inv, Held, Dealing, Idling
  <2> QED
    BY <2>1, RefinesNothing
<1>2. CASE Pop
  <2>1. /\ Stage = "idle" /\ Stage' = "taken" /\ task = NoTask
    BY <1>2, <1>t DEF Pop, Stage, Inv, Held, Dealing
  <2>2. anlysis_queue # << >>
    BY <1>2 DEF Pop, Inv, Woken, NeverPopsEmpty
  <2>3. Steps!Take
    BY <1>2, <1>t, <2>1, <2>2 DEF Pop, Steps!Take, Steps!timers
  <2> QED
    BY <2>3 DEF Steps!StepsNext
<1>3. CASE Check
  <2>1. Stage = "taken" /\ task = NoTask /\ UNCHANGED task
    BY <1>3, <1>t DEF Check, Stage, Inv, Held, Dealing
  <2>2. CASE Known
    <3>1. Stage' = "read" /\ file' = file
      BY <1>3, <1>t, <2>2 DEF Check, Stage
    <3>2. Steps!Read
      BY <1>3, <2>1, <3>1 DEF Check, Steps!Read, Steps!timers
    <3> QED
      BY <3>2 DEF Steps!StepsNext
  <2>3. CASE ~Known
    <3>1. Stage' = "idle"
      BY <1>3, <1>t, <2>3 DEF Check, Stage
    <3>2. Steps!Insert
      BY <1>3, <2>1, <3>1 DEF Check, Steps!Insert, Steps!timers
    <3> QED
      BY <3>2 DEF Steps!StepsNext
  <2> QED
    BY <2>2, <2>3
<1>4. CASE GetTask
  <2>1. /\ Stage = "taken" /\ file' = file
        /\ Stage' = IF task' = NoTask THEN "cancelled" ELSE "known"
    BY <1>4, <1>t DEF GetTask, Stage
  <2>2. Steps!Lookup
    BY <1>4, <2>1 DEF GetTask, Steps!Lookup, Steps!timers
  <2> QED
    BY <2>2 DEF Steps!StepsNext
<1>5. CASE GetUnlock
  <2>1. Unchanged
    BY <1>5, <1>t DEF GetUnlock, Unlock, Stage, Unchanged
  <2> QED
    BY <2>1, RefinesNothing
<1>6. CASE Find \/ EraseOne
  <2>1. task \in Timer /\ task # NoTask
    BY <1>6 DEF Find, EraseOne, Inv, Types, Held, Dealing
  <2>2. sweep = {}
    <3>1. callbacks_mutex = "analysis" /\ pc["timer"] \notin Sweeping
      BY <1>6 DEF Find, EraseOne, Inv, Types, Owned, InTimers, Threads
    <3> QED
      BY <3>1 DEF Inv, Held
  <2>3. Steps!Registered(task) = callbacks \cap {task}
    <3>1. \A t \in callbacks : t.task_id = task.task_id => t = task
      BY <2>1, NoTaskAssumption DEF Ids, Handles, Inv, Types
    <3> QED
      BY <3>1 DEF Steps!Registered
  <2>4. CASE Find /\ task \in callbacks
    <3>1. Unchanged
      BY <2>4, <1>t DEF Find, Stage, Unchanged
    <3> QED
      BY <3>1, RefinesNothing
  <2>5. CASE EraseOne \/ (Find /\ task \notin callbacks)
    <3>1. Stage = "known" /\ Stage' = "cancelled" /\ file' = file /\ task' = task
      BY <2>5, <1>t DEF Find, EraseOne, Stage
    <3>2. Steps!cancel(task)
      BY <2>2, <2>3, <2>5 DEF Steps!cancel, Steps!MutexFree, Find, EraseOne, Inv, Held
    <3>3. UNCHANGED <<anlysis_queue, taskmap>>
      BY <2>5 DEF Find, EraseOne
    <3>4. Steps!Cancel
      BY <3>1, <3>2, <3>3 DEF Steps!Cancel
    <3> QED
      BY <3>4 DEF Steps!StepsNext
  <2> QED
    BY <1>6, <2>4, <2>5
<1>7. CASE Add
  <2>1. /\ Stage = "cancelled" /\ Stage' = "scheduled" /\ file' = file /\ file \in Files
        /\ callbacks' = callbacks \cup {task'} /\ UNCHANGED <<anlysis_queue, taskmap, sweep, due>>
    BY <1>7, <1>t DEF Add, Stage, Inv, Held, Idling
  <2>2. task' \in Timer /\ task'.name = file
    BY <1>7, <2>1, ThreadsAssumption DEF Add, Timer, Inv, Types
  <2>3. sweep = {}
    BY <1>7 DEF Add, Inv, Types, Owned, Held, InTimers, Threads
  <2>4. task' \in Steps!Timer
    BY <2>2 DEF Timer, Steps!Timer
  <2>5. Steps!add(task')
    BY <2>1, <2>3 DEF Steps!add, Steps!MutexFree
  <2>6. Steps!Schedule
    BY <2>1, <2>2, <2>4, <2>5 DEF Steps!Schedule, Steps!add
  <2> QED
    BY <2>6 DEF Steps!StepsNext
<1>8. CASE SetTask
  <2>1. Stage = "scheduled" /\ Stage' = "idle"
    BY <1>8, <1>t DEF SetTask, Stage
  <2>2. Steps!Remember
    BY <1>8, <2>1 DEF SetTask, Steps!Remember, Steps!Done, Steps!timers
  <2> QED
    BY <2>2 DEF Steps!StepsNext
<1>9. CASE DelTask
  <2>1. Stage = "read" /\ Stage' = "idle"
    BY <1>9, <1>t DEF DelTask, Stage
  <2>2. Steps!Forget
    BY <1>9, <2>1 DEF DelTask, Steps!Forget, Steps!Done, Steps!timers
  <2> QED
    BY <2>2 DEF Steps!StepsNext
<1>10. CASE Return
  <2>1. Stage = "idle" /\ Stage' = "idle"
    BY <1>10, <1>t DEF Return, Stage
  <2> QED
    BY <1>10, <2>1, RefinesNothing DEF Return, Unchanged
<1> QED
  BY <1>1, <1>2, <1>3, <1>4, <1>5, <1>6, <1>7, <1>8, <1>9, <1>10 DEF Loop

LEMMA RefinesAddQueue ==
  ASSUME Inv, Ids, Carrying, NEW t \in {"main", "timer"}, AddQueue(t)
  PROVE  [Steps!StepsNext]_(Steps!sharing)
<1> USE DEF Goto, locks, structures, world, Threads
<1>t. pc \in [Threads -> AllLabels] /\ node \in [Threads -> Files \cup {NoFile}]
  BY DEF Inv, Types
<1>c. UNCHANGED <<Stage, Hand, Task>>
  <2>1. pc'["analysis"] = pc["analysis"] /\ file' = file /\ task' = task
    BY <1>t DEF AddQueue, PushLock, Lock, Push, Signal, PushUnlock, file
  <2> QED
    BY <2>1, SameCall
<1>1. CASE PushLock(t) \/ Signal(t) \/ PushUnlock(t)
  BY <1>1, <1>c, RefinesNothing DEF PushLock, Lock, Signal, PushUnlock, Unchanged
<1>2. CASE Push(t)
  <2>1. node[t] \in Files
    BY <1>2 DEF Push, Inv, Held, Types, Labels, Sweeping
  <2>2. CASE t = "main"
    <3>1. Steps!Enqueue
      BY <1>2, <1>c, <2>1, <2>2 DEF Push, Steps!Enqueue, Steps!timers, Hand, Task
    <3> QED
      BY <3>1 DEF Steps!StepsNext
  <2>3. CASE t = "timer"
    <3>1. PICK timer \in due : NextTimer(timer) /\ timer.name = node["timer"]
      BY <1>2, <2>3 DEF Push, Carrying, Carried
    <3>2. due' = due \ {timer}
      BY <1>2, <2>3, <3>1, OneNext DEF Push
    <3>3. Steps!Called(timer)
      BY <1>2, <3>1, <3>2 DEF Push, NextTimer, Steps!Called, Steps!NextDue
    <3>4. Steps!CallBack
      BY <1>2, <1>c, <2>3, <3>1, <3>3 DEF Push, Steps!CallBack, Hand, Task
    <3> QED
      BY <3>4 DEF Steps!StepsNext
  <2> QED
    BY <2>2, <2>3
<1> QED
  BY <1>1, <1>2 DEF AddQueue

LEMMA RefinesExecute ==
  ASSUME Inv, Execute
  PROVE  [Steps!StepsNext]_(Steps!sharing)
<1> USE DEF Goto, locks, structures, world, Threads
<1>t. pc \in [Threads -> AllLabels] /\ node \in [Threads -> Files \cup {NoFile}]
  BY DEF Inv, Types
<1>c. UNCHANGED <<Stage, Hand, Task>>
  <2>1. pc'["analysis"] = pc["analysis"] /\ file' = file /\ task' = task
    BY <1>t DEF Execute, SweepLock, UpperBound, Callback, Erase, SweepUnlock,
         LockCallbacks,
                UnlockCallbacks, file
  <2> QED
    BY <2>1, SameCall
<1>1. CASE SweepLock \/ Callback \/ SweepUnlock
  BY <1>1, <1>c, RefinesNothing
  DEF SweepLock, Callback, SweepUnlock, LockCallbacks, UnlockCallbacks, Unchanged
<1>2. CASE UpperBound
  <2>1. sweep = {} /\ due = {}
    BY <1>2 DEF UpperBound, Inv, Types, Held, Sweeping
  <2>2. CASE sweep' = {}
    BY <1>2, <1>c, <2>1, <2>2, RefinesNothing DEF UpperBound, Unchanged
  <2>3. CASE sweep' # {}
    <3>1. \A x \in callbacks : x.expiration \in Nat
      BY DEF Inv, Types, Timer
    <3>2. clock \in Nat
      BY DEF Inv, Types
    <3>3. \A x \in sweep', y \in callbacks : y.expiration <= x.expiration => y \in sweep'
      BY <1>2, <3>1, <3>2 DEF UpperBound
    <3>4. /\ sweep' # {} /\ sweep' \subseteq callbacks /\ due' = sweep'
          /\ UNCHANGED <<anlysis_queue, callbacks, taskmap>>
      BY <1>2, <2>3 DEF UpperBound
    <3>5. Steps!Sweep
      BY <1>c, <2>1, <3>3, <3>4 DEF Steps!Sweep, Steps!MutexFree, Hand, Task
    <3> QED
      BY <3>5 DEF Steps!StepsNext
  <2> QED
    BY <2>2, <2>3
<1>3. CASE Erase
  <2>1. CASE sweep = {}
    BY <1>3, <1>c, <2>1, RefinesNothing DEF Erase, Unchanged
  <2>2. CASE sweep # {}
    <3>1. Steps!SweepOver
      BY <1>3, <1>c, <2>2 DEF Erase, Steps!SweepOver, Steps!EndSweep, Hand, Task
    <3> QED
      BY <3>1 DEF Steps!StepsNext
  <2> QED
    BY <2>1, <2>2
<1> QED
  BY <1>1, <1>2, <1>3 DEF Execute

(* Seen from the queue, the task table and the timers, the calls of the three  *)
(* threads are the single steps that FileAnalysis is written in: no lock is   *)
(* given up too early or taken too late for that.                           *)
THEOREM ThreadsImplementSteps == Spec => ImplementsSteps
<1>1. Init => Steps!StepsInit
  BY RefinesInit
<1>2. Whole /\ [Next]_vars => [Steps!StepsNext]_(Steps!sharing)
  <2> SUFFICES ASSUME Whole, [Next]_vars PROVE [Steps!StepsNext]_(Steps!sharing)
    OBVIOUS
  <2>1. CASE Tick \/ Idle \/ UNCHANGED vars \/ \E f \in Files : Event(f)
    <3>1. pc'["analysis"] = pc["analysis"] /\ file' = file /\ task' = task
      BY <2>1 DEF Tick, Idle, vars, Event, Goto, file, Whole, Inv, Types, Threads
    <3>2. Unchanged
      BY <2>1, <3>1, SameCall DEF Unchanged, Tick, Idle, vars, Event, structures
    <3> QED
      BY <3>2, RefinesNothing
  <2>2. CASE AddQueue("main") \/ AddQueue("timer")
    BY <2>2, RefinesAddQueue DEF Whole
  <2>3. CASE Loop
    BY <2>3, RefinesLoop DEF Whole
  <2>4. CASE Execute
    BY <2>4, RefinesExecute DEF Whole
  <2> QED
    BY <2>1, <2>2, <2>3, <2>4 DEF Next
<1> QED
  BY <1>1, <1>2, WholeHolds, PTL DEF Spec, ImplementsSteps, Steps!StepsSpec
===============================================================================
