-------------------------- MODULE FileAnalysisProofs --------------------------
(***************************************************************************)
(* What the TLA+ proof system checks of FileAnalysis, for every set of      *)
(* files and contents, every interval and every bound of the environment.  *)
(***************************************************************************)
EXTENDS FileAnalysis, TLAPS

(* Checksums and the locals of an idle thread have their types.             *)
LEMMA SumOfType == \A c \in DiskState : SumOf(c) \in Checksum
BY DEF SumOf, Checksum, DiskState

LEMMA NoLocalsType == NoLocals \in Locals
BY DEF NoLocals, Locals, Checksum, DiskState

LEMMA InitType == Init => TypeOK
<1> SUFFICES ASSUME Init PROVE TypeOK
  OBVIOUS
<1> USE DEF Init, FreshProcess
<1>1. disk \in [Files -> DiskState] /\ clock \in Nat /\ inotify \in Seq(Files)
  BY IntervalAssumption
<1>2. TimersOK
  BY DEF TimersInit, TimersOK
<1>3. taskmap \in [Files -> {NoTask} \cup Timer]
  OBVIOUS
<1>4. pc \in [Threads -> Labels]
  BY DEF Labels
<1>5. loc \in [Threads -> Locals]
  BY NoLocalsType
<1>6. FormerRows \subseteq Seq(Row)
  <2>1. FormerSums \subseteq Checksum
    BY SumOfType DEF FormerSums
  <2>2. [md5sum : FormerSums, timestamp : {0, Interval}] \subseteq Row
    BY <2>1, IntervalAssumption DEF Row
  <2>3. \A r \in Row : <<r>> \in Seq(Row)
    OBVIOUS
  <2>4. \A r \in [md5sum : FormerSums, timestamp : {0, Interval}] : <<r>> \in Seq(Row)
    BY <2>2, <2>3
  <2> DEFINE R == [md5sum : FormerSums, timestamp : {0, Interval}]
  <2>5. FormerRows = {<< >>} \cup {<<r>> : r \in R}
    BY DEF FormerRows
  <2>6. << >> \in Seq(Row)
    OBVIOUS
  <2> HIDE DEF R
  <2>7. \A x \in {<<r>> : r \in R} : \E r \in R : x = <<r>>
    OBVIOUS
  <2> QED
    BY <2>4, <2>5, <2>6, <2>7 DEF R
<1>7. db \in [Files -> Seq(Row)]
  BY <1>6
<1>8. told \in [Files -> Levels] /\ view \in [Files -> {"unseen", "dirty", "seen"}]
  BY DEF Levels
<1> QED
  BY <1>1, <1>2, <1>3, <1>4, <1>5, <1>7, <1>8 DEF TypeOK

(* A thread inside do_analysis has the name of a file, and opens it only if  *)
(* lstat found a regular file.                                             *)
BusyLocals ==
  \A t \in Threads :
    /\ Busy(t) => loc[t].name \in Files
    /\ pc[t] = "md5" => loc[t].stat \in Contents

TypeInv == TypeOK /\ BusyLocals

(* What the steps of the timer manager do to its state.                     *)
LEMMA TimersStepType ==
  ASSUME TimersOK
  PROVE  /\ \A timer \in Timer : add(timer) => TimersOK'
         /\ \A timer : cancel(timer) => TimersOK'
         /\ \A now : BeginSweep(now) => TimersOK'
         /\ \A timer : Called(timer) => TimersOK'
         /\ EndSweep => TimersOK'
         /\ TimersLost => TimersOK'
         /\ UNCHANGED timers => TimersOK'
<1> USE DEF TimersOK
<1>1. ASSUME NEW timer \in Timer, add(timer) PROVE TimersOK'
  BY <1>1 DEF add, MutexFree
<1>2. ASSUME NEW timer, cancel(timer) PROVE TimersOK'
  BY <1>2 DEF cancel, MutexFree
<1>3. ASSUME NEW now, BeginSweep(now) PROVE TimersOK'
  BY <1>3 DEF BeginSweep
<1>4. ASSUME NEW timer, Called(timer) PROVE TimersOK'
  BY <1>4 DEF Called
<1>5. ASSUME EndSweep PROVE TimersOK'
  BY <1>5 DEF EndSweep
<1>6. ASSUME TimersLost PROVE TimersOK'
  BY <1>6 DEF TimersLost
<1>7. ASSUME UNCHANGED timers PROVE TimersOK'
  BY <1>7 DEF timers
<1> QED
  BY <1>1, <1>2, <1>3, <1>4, <1>5, <1>6, <1>7

(* The entry of do_analysis keeps the types of what it changes.             *)
LEMMA DoAnalysisType ==
  ASSUME TypeInv, NEW t \in Threads, NEW f \in Files, do_analysis(t, f)
  PROVE  pc' \in [Threads -> Labels] /\ loc' \in [Threads -> Locals] /\ BusyLocals'
<1> USE DEF TypeInv, TypeOK, BusyLocals, Busy
<1>1. CASE UNCHANGED <<pc, loc>>
  BY <1>1
<1>2. CASE ~UNCHANGED <<pc, loc>>
  <2>1. PICK found \in FindResults(f) :
          /\ pc' = [pc EXCEPT ![t] = IF found /\ TooEarly(f) THEN "cancel" ELSE "lstat"]
          /\ loc' = [loc EXCEPT ![t] = [NoLocals EXCEPT
                       !.name = f, !.now = clock, !.found = found,
                       !.sum = IF found THEN Head(db[f]).md5sum ELSE EmptySum]]
    BY <1>2 DEF do_analysis
  <2>2. found \in BOOLEAN /\ (found => db[f] # << >>)
    BY <2>1 DEF FindResults
  <2>3. (IF found THEN Head(db[f]).md5sum ELSE EmptySum) \in Checksum
    <3>1. CASE found
      <4>1. Head(db[f]) \in Row
        BY <2>2, <3>1
      <4> QED
        BY <3>1, <4>1 DEF Row
    <3>2. CASE ~found
      BY <3>2 DEF Checksum
    <3> QED
      BY <3>1, <3>2
  <2>4. [NoLocals EXCEPT !.name = f, !.now = clock, !.found = found,
           !.sum = IF found THEN Head(db[f]).md5sum ELSE EmptySum] \in Locals
    BY <2>2, <2>3, NoLocalsType DEF Locals
  <2>5. loc'[t].name = f /\ pc'[t] \in {"cancel", "lstat"}
    BY <2>1 DEF NoLocals
  <2>6. \A u \in Threads \ {t} : loc'[u] = loc[u] /\ pc'[u] = pc[u]
    BY <2>1
  <2>7. BusyLocals'
    BY <2>5, <2>6
  <2> QED
    BY <2>1, <2>4, <2>7 DEF Labels
<1> QED
  BY <1>1, <1>2

(* The steps of do_analysis after its entry keep the types.                 *)
LEMMA AnalysisType ==
  ASSUME TypeInv, NEW t \in Threads, Analysis(t)
  PROVE  TypeInv'
<1> USE DEF TypeInv, BusyLocals, Busy, TypeOK, environ, control, tasks
<1> DEFINE f == loc[t].name
<1>1. loc[t] \in Locals /\ pc[t] \in Labels
  OBVIOUS
<1>2. f \in Files
  BY DEF Analysis, CancelOld, AddTask, SetTask, Lstat, Md5, Insert, AlertCreated,
         AlertDeleted, Del, Update, AlertChanged, DelTask
<1>3. ASSUME NEW label \in Labels, label # "md5", Goto(t, label), UNCHANGED loc
      PROVE  pc' \in [Threads -> Labels] /\ loc' \in [Threads -> Locals] /\ BusyLocals'
  BY <1>2, <1>3 DEF Goto
<1>4. ASSUME Return(t)
      PROVE  pc' \in [Threads -> Labels] /\ loc' \in [Threads -> Locals] /\ BusyLocals'
  BY <1>4, NoLocalsType DEF Return, Labels
<1>5. NewRow(t) \in Row
  BY <1>1 DEF NewRow, Row, Locals
<1>6. ASSUME NEW rows \in Seq(Row), Execute(t, rows)
      PROVE  db' \in [Files -> Seq(Row)]
  BY <1>6 DEF Execute
<1>7. CASE CancelOld(t)
  <2>1. TimersOK'
    BY <1>7, TimersStepType DEF CancelOld
  <2> QED
    BY <1>3, <1>7, <2>1 DEF CancelOld, Labels
<1>8. CASE AddTask(t)
  <2> DEFINE new == [expiration |-> Interval + loc[t].now, task_id |-> global_id, name |-> f]
  <2>1. new \in Timer
    BY <1>1, <1>2, IntervalAssumption DEF Timer, Locals
  <2>2. add(new) /\ loc' = [loc EXCEPT ![t].task = new]
    BY <1>8 DEF AddTask
  <2>3. TimersOK'
    BY <2>1, <2>2, TimersStepType
  <2>4. [loc[t] EXCEPT !.task = new] \in Locals /\ [loc[t] EXCEPT !.task = new].name = f
    BY <1>1, <2>1 DEF Locals
  <2>5. pc' \in [Threads -> Labels] /\ loc' \in [Threads -> Locals] /\ BusyLocals'
    BY <1>2, <1>8, <2>2, <2>4 DEF AddTask, Goto, Labels
  <2> QED
    BY <1>8, <2>3, <2>5 DEF AddTask
<1>9. CASE SetTask(t)
  <2>1. taskmap' \in [Files -> {NoTask} \cup Timer]
    BY <1>1, <1>9 DEF SetTask, Locals
  <2>2. TimersOK'
    BY <1>9, TimersStepType DEF SetTask
  <2> QED
    BY <1>4, <1>9, <2>1, <2>2 DEF SetTask
<1>10. CASE Lstat(t)
  <2> DEFINE l == [loc[t] EXCEPT !.stat = disk[f]]
  <2>1. l \in Locals /\ l.name = f
    BY <1>1, <1>2 DEF Locals
  <2>2. /\ Verdict(l) \in Labels \ {"md5"}
        /\ "md5" \in Labels
    BY DEF Verdict, Labels
  <2>3. TimersOK'
    BY <1>10, TimersStepType DEF Lstat
  <2>4. pc' \in [Threads -> Labels] /\ loc' \in [Threads -> Locals] /\ BusyLocals'
    <3>1. loc' = [loc EXCEPT ![t] = l] /\ l.stat = disk[f]
      BY <1>1, <1>10 DEF Lstat, Locals
    <3>2. CASE disk[f] \in Contents
      <4>1. pc' = [pc EXCEPT ![t] = "md5"]
        BY <1>10, <3>2 DEF Lstat, Goto
      <4> QED
        BY <1>2, <2>1, <2>2, <3>1, <3>2, <4>1
    <3>3. CASE disk[f] \notin Contents
      <4>1. pc' = [pc EXCEPT ![t] = Verdict(l)]
        BY <1>10, <3>3 DEF Lstat, Goto
      <4> QED
        BY <1>2, <2>1, <2>2, <3>1, <4>1
    <3> QED
      BY <3>2, <3>3
  <2> QED
    BY <1>10, <2>3, <2>4 DEF Lstat
<1>11. CASE Md5(t)
  <2> DEFINE d == disk[f]
             sum == [stat |-> loc[t].stat, md5 |-> IF d \in Contents THEN d ELSE NoMd5]
             l == [loc[t] EXCEPT !.checksum = sum]
  <2>1. loc[t].stat \in Contents
    BY <1>11 DEF Md5
  <2>2. sum \in Checksum
    BY <2>1 DEF Checksum
  <2>3. l \in Locals /\ l.name = f
    BY <1>1, <2>2 DEF Locals
  <2>4. Verdict(l) \in Labels \ {"md5"}
    BY DEF Verdict, Labels
  <2>5. pc' \in [Threads -> Labels] /\ loc' \in [Threads -> Locals] /\ BusyLocals'
    BY <1>2, <1>11, <2>3, <2>4 DEF Md5, Goto
  <2>6. TimersOK'
    BY <1>11, TimersStepType DEF Md5
  <2> QED
    BY <1>11, <2>5, <2>6 DEF Md5
<1>12. CASE Insert(t)
  <2>1. Append(db[f], NewRow(t)) \in Seq(Row)
    BY <1>2, <1>5
  <2>2. db' \in [Files -> Seq(Row)]
    BY <1>6, <1>12, <2>1 DEF Insert
  <2>3. TimersOK'
    BY <1>12, TimersStepType DEF Insert, Execute
  <2> QED
    BY <1>3, <1>12, <2>2, <2>3 DEF Insert, Execute, Labels
<1>13. CASE Update(t)
  <2>1. [i \in DOMAIN db[f] |-> NewRow(t)] \in Seq(Row)
    <3>1. db[f] \in Seq(Row)
      BY <1>2
    <3>2. DOMAIN db[f] = 1..Len(db[f]) /\ Len(db[f]) \in Nat
      BY <3>1
    <3>3. \A n \in Nat : \A r \in Row : [i \in 1..n |-> r] \in Seq(Row)
      OBVIOUS
    <3> QED
      BY <1>5, <3>2, <3>3
  <2>2. db' \in [Files -> Seq(Row)]
    BY <1>6, <1>13, <2>1 DEF Update
  <2>3. TimersOK'
    BY <1>13, TimersStepType DEF Update, Execute
  <2> QED
    BY <1>3, <1>13, <2>2, <2>3 DEF Update, Execute, Labels
<1>14. CASE Del(t)
  <2>1. db' \in [Files -> Seq(Row)]
    <3>1. << >> \in Seq(Row)
      OBVIOUS
    <3> QED
      BY <1>6, <1>14, <3>1 DEF Del
  <2>2. TimersOK'
    BY <1>14, TimersStepType DEF Del, Execute
  <2> QED
    BY <1>3, <1>14, <2>1, <2>2 DEF Del, Execute, Labels
<1>15. ASSUME NEW level \in Levels, Alert(t, level)
       PROVE  told' \in [Files -> Levels] /\ TimersOK'
  BY <1>15, TimersStepType DEF Alert
<1>16. CASE AlertCreated(t)
  BY <1>4, <1>15, <1>16 DEF AlertCreated, Alert, Levels
<1>17. CASE AlertDeleted(t)
  BY <1>3, <1>15, <1>17 DEF AlertDeleted, Alert, Levels, Labels
<1>18. CASE AlertChanged(t)
  BY <1>3, <1>15, <1>18 DEF AlertChanged, Alert, Levels, Labels
<1>19. CASE DelTask(t)
  <2>1. TimersOK'
    BY <1>19, TimersStepType DEF DelTask
  <2> QED
    BY <1>4, <1>19, <2>1 DEF DelTask
<1> QED
  BY <1>7, <1>8, <1>9, <1>10, <1>11, <1>12, <1>13, <1>14, <1>16, <1>17, <1>18, <1>19
     DEF Analysis

LEMMA TypeStep == TypeInv /\ [Next]_vars => TypeInv'
<1> SUFFICES ASSUME TypeInv, [Next]_vars PROVE TypeInv'
  OBVIOUS
<1> USE DEF TypeInv, BusyLocals, Busy, TypeOK, environ, control, tasks
<1>1. CASE Tick
  BY <1>1, TimersStepType DEF Tick
<1>2. ASSUME NEW f \in Files, Change(f) PROVE TypeInv'
  <2>1. inotify' \in Seq(Files) /\ view' \in [Files -> {"unseen", "dirty", "seen"}]
    <3>1. Append(inotify, f) \in Seq(Files)
      OBVIOUS
    <3>2. [view EXCEPT ![f] = "dirty"] \in [Files -> {"unseen", "dirty", "seen"}]
      OBVIOUS
    <3> QED
      BY <1>2, <3>1, <3>2 DEF Change
  <2>2. disk' \in [Files -> DiskState] /\ changes' \in Nat
    BY <1>2 DEF Change
  <2>3. TimersOK'
    BY <1>2, TimersStepType DEF Change
  <2> QED
    BY <1>2, <2>1, <2>2, <2>3 DEF Change
<1>3. CASE Start
  <2>1. TimersOK'
    BY <1>3, TimersStepType DEF Start
  <2> QED
    BY <1>3, <2>1, BoundsAssumption DEF Start
<1>4. CASE AddWatch
  BY <1>4, TimersStepType DEF AddWatch
<1>5. CASE StartThreads
  BY <1>5, TimersStepType DEF StartThreads
<1>6. CASE Watch
  <2>1. Head(inotify) \in Files /\ Tail(inotify) \in Seq(Files)
    BY <1>6 DEF Watch
  <2>2. TimersOK'
    BY <1>6, TimersStepType DEF Watch
  <2> QED
    BY <1>6, <2>1, <2>2 DEF Watch
<1>7. CASE Dequeue
  <2>1. Head(anlysis_queue) \in Files /\ Tail(anlysis_queue) \in Seq(Files)
    BY <1>7 DEF Dequeue
  <2>2. pc' \in [Threads -> Labels] /\ loc' \in [Threads -> Locals] /\ BusyLocals'
    BY <1>7, <2>1, DoAnalysisType DEF Dequeue, Threads
  <2>3. TimersOK'
    BY <1>7, TimersStepType DEF Dequeue
  <2> QED
    BY <1>7, <2>1, <2>2, <2>3 DEF Dequeue
<1>8. ASSUME NEW f \in Files, ScanFile(f) PROVE TypeInv'
  <2>1. pc' \in [Threads -> Labels] /\ loc' \in [Threads -> Locals] /\ BusyLocals'
    BY <1>8, DoAnalysisType DEF ScanFile, Threads
  <2>2. TimersOK'
    BY <1>8, TimersStepType DEF ScanFile
  <2> QED
    BY <1>8, <2>1, <2>2 DEF ScanFile
<1>9. ASSUME NEW t \in Threads, Analysis(t) PROVE TypeInv'
  BY <1>9, AnalysisType
<1>10. CASE SweepStart
  BY <1>10, TimersStepType DEF SweepStart
<1>11. ASSUME NEW timer \in due, DelayCheck(timer) PROVE TypeInv'
  <2>1. timer.name \in Files
    BY DEF TimersOK, Timer
  <2>2. TimersOK'
    BY <1>11, TimersStepType DEF DelayCheck
  <2> QED
    BY <1>11, <2>1, <2>2 DEF DelayCheck
<1>12. CASE SweepEnd
  BY <1>12, TimersStepType DEF SweepEnd
<1>13. CASE Crash
  <2>1. loc' \in [Threads -> Locals] /\ pc' \in [Threads -> Labels] /\ BusyLocals'
    BY <1>13, NoLocalsType DEF Crash, Labels
  <2>2. TimersOK'
    BY <1>13, TimersStepType DEF Crash
  <2>3. /\ inotify' \in Seq(Files) /\ anlysis_queue' \in Seq(Files)
        /\ phase' \in {"down", "watch", "scan", "run"} /\ skip' \in BOOLEAN
        /\ unscanned' \subseteq Files /\ global_id' \in Nat /\ crashes' \in Nat
    <3>1. << >> \in Seq(Files)
      OBVIOUS
    <3>2. /\ inotify' = << >> /\ anlysis_queue' = << >> /\ phase' = "down"
          /\ skip' = FALSE /\ unscanned' = {} /\ global_id' = 0
          /\ crashes' = crashes + 1
      BY <1>13 DEF Crash
    <3>3. inotify' \in Seq(Files) /\ anlysis_queue' \in Seq(Files)
      BY <3>1, <3>2
    <3>4. phase' \in {"down", "watch", "scan", "run"} /\ skip' \in BOOLEAN
      BY <3>2
    <3>5. unscanned' \subseteq Files /\ global_id' \in Nat /\ crashes' \in Nat
      BY <3>2
    <3> QED
      BY <3>3, <3>4, <3>5
  <2>4. taskmap' \in [Files -> {NoTask} \cup Timer]
    BY <1>13 DEF Crash
  <2>5. view' \in [Files -> {"unseen", "dirty", "seen"}]
    BY <1>13 DEF Crash
  <2>6. UNCHANGED <<disk, clock, changes, db, told>>
    BY <1>13 DEF Crash
  <2> QED
    BY <2>1, <2>2, <2>3, <2>4, <2>5, <2>6
<1>14. CASE UNCHANGED vars
  BY <1>14, TimersStepType DEF vars
<1>15. CASE Step
  BY <1>3, <1>4, <1>5, <1>6, <1>7, <1>8, <1>9, <1>10, <1>11, <1>12, <1>15 DEF Step
<1> QED
  BY <1>1, <1>2, <1>13, <1>14, <1>15 DEF Next, Waiting

(* Whatever the files, the interval and the failures, every variable has    *)
(* the values its declaration says; in particular the range a sweep of the  *)
(* timers works on stays inside the map.                                    *)
THEOREM TypeCorrect == Spec => []TypeOK
<1>1. Init => TypeInv
  BY InitType DEF TypeInv, BusyLocals, Busy, Init, FreshProcess
<1>2. TypeInv /\ [Next]_vars => TypeInv'
  BY TypeStep
<1>3. TypeInv => TypeOK
  BY DEF TypeInv
<1> QED
  BY <1>1, <1>2, <1>3, PTL DEF Spec
-------------------------------------------------------------------------------
(* One thread analyses at a time: main during the walk, the analysis thread  *)
(* afterwards.                                                             *)
OneAnalyst ==
  /\ phase # "scan" => pc["main"] = "idle"
  /\ phase # "run" => pc["analysis"] = "idle"

(* What a step of do_analysis leaves alone.                                 *)
LEMMA AnalysisFrame ==
  ASSUME TypeInv, NEW t \in Threads, Analysis(t)
  PROVE  /\ pc[t] # "idle"
         /\ \A u \in Threads \ {t} : pc'[u] = pc[u] /\ loc'[u] = loc[u]
         /\ UNCHANGED <<inotify, anlysis_queue, phase>>
BY DEF TypeInv, TypeOK, Analysis, CancelOld, AddTask, SetTask, Lstat, Md5, Insert,
       AlertCreated, AlertDeleted, Del, Update, AlertChanged, DelTask, Goto, Return,
       Execute, Alert, environ, control

LEMMA OneAnalystStep == TypeInv /\ OneAnalyst /\ [Next]_vars => OneAnalyst'
<1> SUFFICES ASSUME TypeInv, OneAnalyst, [Next]_vars PROVE OneAnalyst'
  OBVIOUS
<1> USE DEF OneAnalyst, Threads, control
<1>1. ASSUME NEW t \in Threads, Analysis(t) PROVE OneAnalyst'
  BY <1>1, AnalysisFrame
<1>2. ASSUME NEW f \in Files, ScanFile(f) PROVE OneAnalyst'
  BY <1>2 DEF ScanFile, do_analysis, TypeInv, TypeOK
<1>3. CASE Dequeue
  BY <1>3 DEF Dequeue, do_analysis, TypeInv, TypeOK
<1>4. CASE Start \/ AddWatch \/ StartThreads \/ Watch
  BY <1>4 DEF Start, AddWatch, StartThreads, Watch
<1>5. CASE SweepStart \/ SweepEnd \/ \E timer \in due : DelayCheck(timer)
  BY <1>5 DEF SweepStart, SweepEnd, DelayCheck
<1>6. CASE Tick \/ \E f \in Files : Change(f)
  BY <1>6 DEF Tick, Change
<1>7. CASE Crash
  BY <1>7 DEF Crash
<1>8. CASE UNCHANGED vars
  BY <1>8 DEF vars
<1> QED
  BY <1>1, <1>2, <1>3, <1>4, <1>5, <1>6, <1>7, <1>8 DEF Next, Step, Waiting

(* Nothing do_analysis uses without a lock is ever used by two threads.      *)
THEOREM AnalysisIsExclusive == Spec => []AnalysisExclusive
<1>1. Init => TypeInv /\ OneAnalyst
  BY InitType DEF TypeInv, BusyLocals, Busy, OneAnalyst, Init, FreshProcess, Threads
<1>2. TypeInv /\ OneAnalyst /\ [Next]_vars => (TypeInv /\ OneAnalyst)'
  BY TypeStep, OneAnalystStep
<1>3. TypeInv /\ OneAnalyst => AnalysisExclusive
  BY DEF OneAnalyst, AnalysisExclusive, Busy
<1> QED
  BY <1>1, <1>2, <1>3, PTL DEF Spec
-------------------------------------------------------------------------------
(* The timers somebody can name: those of the map, those remembered for a    *)
(* file, and the one a thread is about to remember.                        *)
Handles ==
  callbacks \cup ({taskmap[f] : f \in Files} \ {NoTask})
            \cup {loc[t].task : t \in {u \in Threads : pc[u] = "set_task"}}

(* An id stands for one timer, wherever the timer is named, and each handle  *)
(* kept for a file is of a timer of that file.                             *)
HandlesInv ==
  /\ Handles \subseteq Timer
  /\ \A x \in Handles : x.task_id < global_id
  /\ \A x, y \in Handles : x.task_id = y.task_id => x = y
  /\ \A f \in Files : taskmap[f] # NoTask => taskmap[f].name = f
  /\ \A t \in Threads : pc[t] = "set_task" => loc[t].task.name = loc[t].name

(* Most steps name no new timer.                                           *)
LEMMA SameHandles ==
  ASSUME TypeInv, HandlesInv, UNCHANGED <<taskmap, global_id>>,
         callbacks' \subseteq callbacks,
         \A t \in Threads : pc'[t] = "set_task" => pc[t] = "set_task" /\ loc'[t] = loc[t]
  PROVE  HandlesInv'
<1>1. Handles' \subseteq Handles
  BY DEF Handles
<1> QED
  BY <1>1 DEF HandlesInv

LEMMA HandlesStep == TypeInv /\ HandlesInv /\ [Next]_vars => HandlesInv'
<1> SUFFICES ASSUME TypeInv, HandlesInv, [Next]_vars PROVE HandlesInv'
  OBVIOUS
<1> USE DEF control, environ, tasks, timers
<1>1. ASSUME NEW t \in Threads, AddTask(t) PROVE HandlesInv'
  <2> DEFINE new == [expiration |-> Interval + loc[t].now, task_id |-> global_id,
                     name |-> loc[t].name]
  <2>1. /\ callbacks' = callbacks \cup {new} /\ global_id' = global_id + 1
        /\ taskmap' = taskmap /\ loc' = [loc EXCEPT ![t].task = new]
        /\ pc' = [pc EXCEPT ![t] = "set_task"]
    BY <1>1 DEF AddTask, add, Goto
  <2>2. loc'[t].task = new /\ loc'[t].name = loc[t].name
    BY <2>1 DEF TypeInv, TypeOK, Locals
  <2>3. \A u \in Threads \ {t} : pc'[u] = pc[u] /\ loc'[u] = loc[u]
    BY <2>1 DEF TypeInv, TypeOK
  <2>4. Handles' \subseteq Handles \cup {new}
    BY <2>1, <2>2, <2>3 DEF Handles
  <2>5. new \in Timer
    <3>1. loc[t].name \in Files /\ loc[t] \in Locals
      BY <1>1 DEF TypeInv, TypeOK, BusyLocals, Busy, AddTask
    <3> QED
      BY <3>1, IntervalAssumption DEF Timer, Locals, TypeInv, TypeOK
  <2>6. global_id \in Nat /\ new.task_id = global_id /\ new.name = loc[t].name
    BY DEF TypeInv, TypeOK
  <2>7. \A x \in Handles : x \in Timer /\ x.task_id \in Nat /\ x.task_id < global_id
    BY DEF HandlesInv, Timer
  <2>8. /\ Handles' \subseteq Timer
        /\ \A x \in Handles' : x.task_id < global_id'
        /\ \A x, y \in Handles' : x.task_id = y.task_id => x = y
    BY <2>1, <2>4, <2>5, <2>6, <2>7 DEF HandlesInv
  <2>9. \A f \in Files : taskmap'[f] # NoTask => taskmap'[f].name = f
    BY <2>1 DEF HandlesInv
  <2>10. \A u \in Threads : pc'[u] = "set_task" => loc'[u].task.name = loc'[u].name
    BY <2>2, <2>3, <2>6 DEF HandlesInv
  <2> QED
    BY <2>8, <2>9, <2>10 DEF HandlesInv
<1>2. ASSUME NEW t \in Threads, SetTask(t) PROVE HandlesInv'
  <2>1. /\ UNCHANGED <<callbacks, global_id>> /\ pc[t] = "set_task"
        /\ taskmap' = [taskmap EXCEPT ![loc[t].name] = loc[t].task]
        /\ pc' = [pc EXCEPT ![t] = "idle"] /\ loc' = [loc EXCEPT ![t] = NoLocals]
    BY <1>2 DEF SetTask, Return
  <2>2. \A f \in Files : taskmap'[f] = taskmap[f] \/ (f = loc[t].name /\ taskmap'[f] = loc[t].task)
    BY <2>1 DEF TypeInv, TypeOK
  <2>3. \A u \in Threads : pc'[u] = "set_task" => pc[u] = "set_task" /\ loc'[u] = loc[u]
    BY <2>1 DEF TypeInv, TypeOK
  <2>4. Handles' \subseteq Handles
    BY <2>1, <2>2, <2>3 DEF Handles
  <2> QED
    BY <2>1, <2>2, <2>3, <2>4 DEF HandlesInv
<1>3. ASSUME NEW t \in Threads, DelTask(t) PROVE HandlesInv'
  <2>1. /\ UNCHANGED <<callbacks, global_id>>
        /\ taskmap' = [taskmap EXCEPT ![loc[t].name] = NoTask]
        /\ pc' = [pc EXCEPT ![t] = "idle"] /\ loc' = [loc EXCEPT ![t] = NoLocals]
    BY <1>3 DEF DelTask, Return
  <2>2. \A f \in Files : taskmap'[f] \in {taskmap[f], NoTask}
    BY <2>1 DEF TypeInv, TypeOK
  <2>3. \A u \in Threads : pc'[u] = "set_task" => pc[u] = "set_task" /\ loc'[u] = loc[u]
    BY <2>1 DEF TypeInv, TypeOK
  <2>4. Handles' \subseteq Handles
    BY <2>1, <2>2, <2>3 DEF Handles
  <2> QED
    BY <2>1, <2>2, <2>3, <2>4 DEF HandlesInv
<1>4. ASSUME NEW t \in Threads, Analysis(t), ~AddTask(t), ~SetTask(t), ~DelTask(t)
      PROVE  HandlesInv'
  <2>1. \A u \in Threads \ {t} : pc'[u] = pc[u] /\ loc'[u] = loc[u]
    BY <1>4, AnalysisFrame
  <2>2. UNCHANGED <<taskmap, global_id>> /\ pc'[t] # "set_task"
    BY <1>4 DEF Analysis, CancelOld, Lstat, Md5, Insert, AlertCreated, AlertDeleted, Del,
         Update, AlertChanged, Goto, Return, Execute, Alert, Verdict, TypeInv, TypeOK
  <2>3. callbacks' \subseteq callbacks
    BY <1>4 DEF Analysis, CancelOld, cancel, Lstat, Md5, Insert, AlertCreated, AlertDeleted,
         Del, Update, AlertChanged, Execute, Alert
  <2> QED
    BY <2>1, <2>2, <2>3, SameHandles
<1>5. ASSUME NEW t \in Threads, NEW f \in Files, do_analysis(t, f),
             UNCHANGED <<taskmap, global_id, callbacks>>
      PROVE  HandlesInv'
  <2>1. \A u \in Threads : pc'[u] = "set_task" => pc[u] = "set_task" /\ loc'[u] = loc[u]
    BY <1>5 DEF do_analysis, TypeInv, TypeOK
  <2> QED
    BY <1>5, <2>1, SameHandles
<1>6. ASSUME UNCHANGED <<pc, loc, taskmap, global_id>>, callbacks' \subseteq callbacks
      PROVE  HandlesInv'
  BY <1>6, SameHandles
<1>7. ASSUME NEW f \in Files, ScanFile(f) PROVE HandlesInv'
  BY <1>5, <1>6, <1>7 DEF ScanFile, Threads
<1>8. CASE Dequeue
  <2>1. Head(anlysis_queue) \in Files
    BY <1>8 DEF Dequeue, TypeInv, TypeOK
  <2> QED
    BY <1>5, <1>8, <2>1 DEF Dequeue, Threads
<1>9. CASE Start \/ AddWatch \/ StartThreads \/ Watch
  BY <1>6, <1>9 DEF Start, AddWatch, StartThreads, Watch
<1>10. CASE SweepStart \/ SweepEnd \/ \E timer \in due : DelayCheck(timer)
  BY <1>6, <1>10 DEF SweepStart, BeginSweep, SweepEnd, EndSweep, DelayCheck, Called
<1>11. CASE Tick \/ \E f \in Files : Change(f)
  BY <1>6, <1>11 DEF Tick, Change
<1>12. CASE Crash
  <2>1. callbacks' = {} /\ \A f \in Files : taskmap'[f] = NoTask
    BY <1>12 DEF Crash, TimersLost
  <2>2. \A t \in Threads : pc'[t] # "set_task"
    BY <1>12 DEF Crash
  <2>3. Handles' = {}
    BY <2>1, <2>2 DEF Handles
  <2> QED
    BY <2>1, <2>2, <2>3 DEF HandlesInv
<1>13. CASE UNCHANGED vars
  BY <1>6, <1>13 DEF vars
<1> QED
  BY <1>1, <1>2, <1>3, <1>4, <1>7, <1>8, <1>9, <1>10, <1>11, <1>12, <1>13
     DEF Next, Step, Waiting

LEMMA HandlesInit == Init => HandlesInv
<1> SUFFICES ASSUME Init PROVE HandlesInv
  OBVIOUS
<1>1. callbacks = {} /\ \A f \in Files : taskmap[f] = NoTask
  BY DEF Init, FreshProcess, TimersInit
<1>2. \A t \in Threads : pc[t] # "set_task"
  BY DEF Init, FreshProcess
<1>3. Handles = {}
  BY <1>1, <1>2 DEF Handles
<1> QED
  BY <1>1, <1>2, <1>3 DEF HandlesInv

(* cancel can tell the timers of the map apart by their ids.                *)
THEOREM TaskIdsAreUnique == Spec => []TaskIdsUnique
<1>1. Init => TypeInv /\ HandlesInv
  BY InitType, HandlesInit DEF TypeInv, BusyLocals, Busy, Init, FreshProcess
<1>2. TypeInv /\ HandlesInv /\ [Next]_vars => (TypeInv /\ HandlesInv)'
  BY TypeStep, HandlesStep
<1>3. TypeInv /\ HandlesInv => TaskIdsUnique
  BY DEF HandlesInv, Handles, TaskIdsUnique
<1> QED
  BY <1>1, <1>2, <1>3, PTL DEF Spec
-------------------------------------------------------------------------------
LEMMA RangeAppend ==
  ASSUME NEW S, NEW s \in Seq(S), NEW x \in S
  PROVE  Range(Append(s, x)) = Range(s) \cup {x}
<1> DEFINE n == Len(s)
<1>1. DOMAIN s = 1..n /\ n \in Nat
  OBVIOUS
<1>2. DOMAIN Append(s, x) = 1..n+1
  OBVIOUS
<1>3. \A i \in 1..n : Append(s, x)[i] = s[i]
  OBVIOUS
<1>4. Append(s, x)[n + 1] = x
  OBVIOUS
<1> HIDE DEF n
<1>5. ASSUME NEW y \in Range(Append(s, x)) PROVE y \in Range(s) \cup {x}
  <2>1. PICK i \in 1..n+1 : y = Append(s, x)[i]
    BY <1>2 DEF Range
  <2>2. CASE i = n + 1
    BY <1>4, <2>1, <2>2
  <2>3. CASE i \in 1..n
    BY <1>1, <1>3, <2>1, <2>3 DEF Range
  <2> QED
    BY <1>1, <2>2, <2>3
<1>6. ASSUME NEW y \in Range(s) PROVE y \in Range(Append(s, x))
  <2>1. PICK i \in 1..n : y = s[i]
    BY <1>1 DEF Range
  <2>2. i \in 1..n+1 /\ y = Append(s, x)[i]
    BY <1>1, <1>3, <2>1
  <2> QED
    BY <1>2, <2>2 DEF Range
<1>7. x \in Range(Append(s, x))
  <2>1. n + 1 \in 1..n+1
    BY <1>1
  <2> QED
    BY <1>2, <1>4, <2>1 DEF Range
<1> QED
  BY <1>5, <1>6, <1>7

LEMMA RangeTail ==
  ASSUME NEW S, NEW s \in Seq(S), s # << >>, NEW y \in Range(s), y # Head(s)
  PROVE  y \in Range(Tail(s))
<1> DEFINE n == Len(s)
<1>1. DOMAIN s = 1..n /\ n \in Nat /\ n > 0
  OBVIOUS
<1>2. DOMAIN Tail(s) = 1..n-1 /\ \A i \in 1..n-1 : Tail(s)[i] = s[i + 1]
  OBVIOUS
<1>3. Head(s) = s[1]
  OBVIOUS
<1> HIDE DEF n
<1>4. PICK i \in 1..n : y = s[i]
  BY <1>1 DEF Range
<1>5. i # 1
  BY <1>3, <1>4
<1>6. i - 1 \in 1..n-1 /\ Tail(s)[i - 1] = y
  <2>1. i - 1 \in 1..n-1 /\ (i - 1) + 1 = i
    BY <1>1, <1>4, <1>5
  <2> QED
    BY <1>2, <1>4, <2>1
<1> QED
  BY <1>2, <1>6 DEF Range

(* A file stays in the pipeline as long as no step takes from it.           *)
LEMMA PipelineKept ==
  ASSUME NEW f, InPipeline(f),
         f \in Range(inotify) => InPipeline(f)',
         f \in Range(anlysis_queue) => InPipeline(f)',
         \A timer \in Armed : timer.name = f => InPipeline(f)',
         Rescanning(f) => InPipeline(f)'
  PROVE  InPipeline(f)'
BY DEF InPipeline

(* A call that has not read the file yet goes on until it has, or until it   *)
(* has a timer that will bring it back.                                    *)
LEMMA AnalysisKeepsPipeline ==
  ASSUME TypeInv, HandlesInv, NEW t \in Threads, Analysis(t),
         NEW f \in Cared, InPipeline(f), view'[f] # "seen"
  PROVE  InPipeline(f)'
<1> USE DEF control, environ, tasks, timers, TypeInv, TypeOK
<1>1. f \in Files
  BY CaredAssumption
<1>2. /\ pc[t] # "idle"
      /\ \A u \in Threads \ {t} : pc'[u] = pc[u] /\ loc'[u] = loc[u]
      /\ UNCHANGED <<inotify, anlysis_queue>>
  BY AnalysisFrame
<1>3. f \in Range(inotify) \/ f \in Range(anlysis_queue) => InPipeline(f)'
  BY <1>2 DEF InPipeline
<1>4. ASSUME Armed \subseteq Armed'
      PROVE  \A timer \in Armed : timer.name = f => InPipeline(f)'
  BY <1>4 DEF InPipeline
<1>5. ASSUME NEW u \in Threads \ {t}, pc[u] \in {"cancel", "add", "lstat"}, loc[u].name = f
      PROVE  InPipeline(f)'
  BY <1>2, <1>5 DEF InPipeline, Rescanning
<1>6. CASE CancelOld(t)
  <2>1. pc' = [pc EXCEPT ![t] = "add"] /\ loc' = loc /\ pc[t] = "cancel"
    BY <1>6 DEF CancelOld, Goto
  <2>2. Rescanning(f) => InPipeline(f)'
    BY <2>1 DEF Rescanning, InPipeline
  <2>3. loc[t].name = f => Rescanning(f)
    BY <2>1 DEF Rescanning
  <2>4. ASSUME NEW timer \in Armed, timer.name = f, loc[t].name # f
        PROVE  timer \in Armed'
    <3> DEFINE old == taskmap[loc[t].name]
    <3>1. loc[t].name \in Files
      BY <2>1 DEF BusyLocals, Busy
    <3>2. CASE old = NoTask /\ UNCHANGED timers
      BY <2>4, <3>2 DEF Armed
    <3>3. CASE old # NoTask /\ cancel(old)
      <4>1. old \in Handles /\ old.name # f /\ timer \in Handles
        BY <2>4, <3>1, <3>3 DEF HandlesInv, Handles, Armed
      <4>2. timer.task_id # old.task_id
        BY <2>4, <4>1 DEF HandlesInv
      <4>3. UNCHANGED <<sweep, due>> /\ timer \in callbacks'
        BY <2>4, <3>3, <4>2 DEF cancel, Registered, Armed
      <4> QED
        BY <2>4, <4>3 DEF Armed
    <3> QED
      BY <1>6, <3>2, <3>3 DEF CancelOld
  <2>5. \A timer \in Armed : timer.name = f => InPipeline(f)'
    BY <2>2, <2>3, <2>4 DEF InPipeline
  <2> QED
    BY <1>3, <2>2, <2>5, PipelineKept
<1>7. CASE AddTask(t)
  <2> DEFINE new == [expiration |-> Interval + loc[t].now, task_id |-> global_id,
                     name |-> loc[t].name]
  <2>1. callbacks' = callbacks \cup {new} /\ UNCHANGED <<sweep, due>> /\ sweep = {}
    BY <1>7 DEF AddTask, add, MutexFree
  <2>2. Armed \subseteq Armed' /\ new \in Armed'
    BY <2>1 DEF Armed
  <2>3. loc[t].name = f => InPipeline(f)'
    BY <2>2 DEF InPipeline
  <2>4. Rescanning(f) => InPipeline(f)'
    BY <1>5, <2>3 DEF Rescanning
  <2> QED
    BY <1>3, <1>4, <2>2, <2>4, PipelineKept
<1>8. CASE Lstat(t)
  <2>1. UNCHANGED timers /\ view' = [view EXCEPT ![loc[t].name] = "seen"]
    BY <1>8 DEF Lstat
  <2>2. loc[t].name # f
    BY <1>1, <2>1
  <2>3. Rescanning(f) => InPipeline(f)'
    BY <1>5, <2>2 DEF Rescanning
  <2>4. Armed \subseteq Armed'
    BY <2>1 DEF Armed
  <2> QED
    BY <1>3, <1>4, <2>3, <2>4, PipelineKept
<1>9. CASE ~(CancelOld(t) \/ AddTask(t) \/ Lstat(t))
  <2>1. UNCHANGED <<callbacks, sweep, due>> /\ pc[t] \notin {"cancel", "add", "lstat"}
    BY <1>9 DEF Analysis, SetTask, Md5, Insert, AlertCreated, AlertDeleted, Del, Update,
                AlertChanged, DelTask, Execute, Alert
  <2>2. Rescanning(f) => InPipeline(f)'
    BY <1>5, <2>1 DEF Rescanning
  <2>3. Armed \subseteq Armed'
    BY <2>1 DEF Armed
  <2> QED
    BY <1>3, <1>4, <2>2, <2>3, PipelineKept
<1> QED
  BY <1>6, <1>7, <1>8, <1>9

(* The entry of do_analysis takes a name it cares for into a call that will  *)
(* read it, and leaves the calls of the other thread alone.                 *)
LEMMA EntryRescans ==
  ASSUME TypeInv, NEW t \in Threads, pc[t] = "idle", NEW g \in Files, do_analysis(t, g)
  PROVE  /\ \A f \in Files : Rescanning(f) => Rescanning(f)'
         /\ g \in Cared => Rescanning(g)'
<1> USE DEF TypeInv, TypeOK
<1>1. \A f \in Files : Rescanning(f) => Rescanning(f)'
  BY DEF do_analysis, Rescanning
<1>2. ASSUME g \in Cared PROVE Rescanning(g)'
  <2>1. PICK found \in FindResults(g) :
          /\ pc' = [pc EXCEPT ![t] = IF found /\ TooEarly(g) THEN "cancel" ELSE "lstat"]
          /\ loc' = [loc EXCEPT ![t] = [NoLocals EXCEPT
                       !.name = g, !.now = clock, !.found = found,
                       !.sum = IF found THEN Head(db[g]).md5sum ELSE EmptySum]]
    BY <1>2 DEF do_analysis
  <2>2. pc'[t] \in {"cancel", "add", "lstat"} /\ loc'[t].name = g
    BY <2>1 DEF NoLocals
  <2> QED
    BY <2>2 DEF Rescanning
<1> QED
  BY <1>1, <1>2

(* A file leaves the pipeline by being read, or with the process.           *)
LEMMA PipelineStep ==
  ASSUME TypeInv, HandlesInv, [Next]_vars, ~Crash,
         NEW f \in Cared, InPipeline(f), view'[f] # "seen"
  PROVE  InPipeline(f)'
<1> USE DEF control, environ, tasks, timers, TypeInv, TypeOK
<1>1. f \in Files
  BY CaredAssumption
<1>2. ASSUME NEW t \in Threads, Analysis(t) PROVE InPipeline(f)'
  BY <1>2, AnalysisKeepsPipeline
<1>3. ASSUME UNCHANGED <<inotify, anlysis_queue, pc, loc>>, Armed \subseteq Armed'
      PROVE  InPipeline(f)'
  BY <1>3 DEF InPipeline, Rescanning
<1>4. CASE Tick \/ Start \/ AddWatch \/ StartThreads \/ UNCHANGED vars
  BY <1>3, <1>4 DEF Tick, Start, AddWatch, StartThreads, vars, Armed
<1>5. CASE SweepStart \/ SweepEnd
  BY <1>3, <1>5 DEF SweepStart, BeginSweep, MutexFree, SweepEnd, EndSweep, Armed
<1>6. ASSUME NEW timer \in due, DelayCheck(timer) PROVE InPipeline(f)'
  <2>1. timer.name \in Files
    BY DEF TimersOK, Timer
  <2>2. Range(anlysis_queue') = Range(anlysis_queue) \cup {timer.name}
    BY <1>6, <2>1, RangeAppend DEF DelayCheck
  <2>3. \A x \in Armed : x \in Armed' \/ x = timer
    BY <1>6 DEF DelayCheck, Called, Armed
  <2> QED
    BY <1>6, <2>2, <2>3 DEF DelayCheck, InPipeline, Rescanning
<1>7. ASSUME NEW g \in Files, Change(g) PROVE InPipeline(f)'
  <2>1. UNCHANGED <<anlysis_queue, pc, loc>> /\ Armed' = Armed
    BY <1>7 DEF Change, Armed
  <2>2. CASE inotify' = Append(inotify, g)
    <3>1. Range(inotify') = Range(inotify) \cup {g}
      BY <2>2, RangeAppend
    <3> QED
      BY <2>1, <3>1 DEF InPipeline, Rescanning
  <2>3. CASE UNCHANGED inotify
    BY <1>3, <2>1, <2>3
  <2> QED
    BY <1>7, <2>2, <2>3 DEF Change
<1>8. CASE Watch
  <2>1. Head(inotify) \in Files /\ inotify # << >>
    BY <1>8 DEF Watch
  <2>2. Range(anlysis_queue') = Range(anlysis_queue) \cup {Head(inotify)}
    BY <1>8, <2>1, RangeAppend DEF Watch
  <2>3. f \in Range(inotify) => f \in Range(inotify') \/ f = Head(inotify)
    BY <1>8, <2>1, RangeTail DEF Watch
  <2> QED
    BY <1>8, <2>2, <2>3 DEF Watch, InPipeline, Rescanning, Armed
<1>9. CASE Dequeue
  <2>0. PICK g \in Files : g = Head(anlysis_queue)
    BY <1>9 DEF Dequeue
  <2>1. f \in Range(anlysis_queue) => f \in Range(anlysis_queue') \/ f = g
    BY <1>9, <2>0, RangeTail DEF Dequeue
  <2>2. UNCHANGED inotify /\ Armed' = Armed
    BY <1>9 DEF Dequeue, Armed
  <2>3. (Rescanning(f) => Rescanning(f)') /\ (f = g => Rescanning(f)')
    BY <1>1, <1>9, <2>0, EntryRescans DEF Dequeue, Threads
  <2> QED
    BY <2>1, <2>2, <2>3, PipelineKept DEF InPipeline
<1>10. ASSUME NEW g \in Files, ScanFile(g) PROVE InPipeline(f)'
  <2>1. UNCHANGED <<inotify, anlysis_queue>> /\ Armed' = Armed
    BY <1>10 DEF ScanFile, Armed
  <2>2. Rescanning(f) => Rescanning(f)'
    <3>1. CASE UNCHANGED <<pc, loc>>
      BY <3>1 DEF Rescanning
    <3>2. CASE do_analysis("main", g)
      BY <1>1, <1>10, <3>2, EntryRescans DEF ScanFile, Threads
    <3> QED
      BY <1>10, <3>1, <3>2 DEF ScanFile
  <2> QED
    BY <2>1, <2>2 DEF InPipeline
<1> QED
  BY <1>2, <1>4, <1>5, <1>6, <1>7, <1>8, <1>9, <1>10 DEF Next, Step, Waiting

(* A name becomes dirty only together with its event.                       *)
LEMMA DirtyHasEvent ==
  ASSUME TypeInv, [Next]_vars, NEW f \in Files, view'[f] # view[f]
  PROVE  \/ view'[f] = "dirty" /\ f \in Range(inotify')
         \/ view'[f] = "seen" /\ \E t \in Threads : Lstat(t)
         \/ Crash
<1> USE DEF control, environ, tasks, timers, TypeInv, TypeOK
<1>1. ASSUME NEW t \in Threads, Analysis(t), ~Lstat(t) PROVE FALSE
  BY <1>1 DEF Analysis, CancelOld, AddTask, SetTask, Md5, Insert, AlertCreated, AlertDeleted,
              Del, Update, AlertChanged, DelTask, Execute, Alert
<1>2. ASSUME NEW t \in Threads, Lstat(t) PROVE view'[f] = "seen"
  BY <1>2 DEF Lstat
<1>3. ASSUME NEW g \in Files, Change(g) PROVE view'[f] = "dirty" /\ f \in Range(inotify')
  <2>1. inotify' = Append(inotify, g) /\ view' = [view EXCEPT ![g] = "dirty"]
    BY <1>3 DEF Change
  <2>2. Range(inotify') = Range(inotify) \cup {g}
    BY <2>1, RangeAppend
  <2> QED
    BY <2>1, <2>2
<1>4. ASSUME NEW g \in Files, ScanFile(g) PROVE FALSE
  BY <1>4 DEF ScanFile
<1>5. CASE Tick \/ Start \/ AddWatch \/ StartThreads \/ Watch \/ Dequeue \/ UNCHANGED vars
  BY <1>5 DEF Tick, Start, AddWatch, StartThreads, Watch, Dequeue, vars
<1>6. CASE SweepStart \/ SweepEnd \/ \E timer \in due : DelayCheck(timer)
  BY <1>6 DEF SweepStart, SweepEnd, DelayCheck
<1> QED
  BY <1>1, <1>2, <1>3, <1>4, <1>5, <1>6 DEF Next, Step, Waiting

LEMMA NoLostChangeStep ==
  TypeInv /\ HandlesInv /\ NoLostChange /\ [Next]_vars => NoLostChange'
<1> SUFFICES ASSUME TypeInv, HandlesInv, NoLostChange, [Next]_vars,
                    NEW f \in Cared, view'[f] = "dirty"
             PROVE  InPipeline(f)'
  BY DEF NoLostChange
<1>1. f \in Files
  BY CaredAssumption
<1>2. ~Crash
  BY <1>1 DEF Crash
<1>3. CASE view[f] = "dirty"
  BY <1>2, <1>3, PipelineStep DEF NoLostChange
<1>4. CASE view[f] # "dirty"
  <2>1. f \in Range(inotify')
    BY <1>1, <1>2, <1>4, DirtyHasEvent
  <2> QED
    BY <2>1 DEF InPipeline
<1> QED
  BY <1>3, <1>4

(* No change is lost, whatever the number of files, the interval, the        *)
(* failures of the database and the deaths of the process: a file that has  *)
(* changed since it was last read is in the kernel's queue, in the analysis *)
(* queue, behind a timer that will call back, or about to be read.          *)
THEOREM NoChangeIsLost == Spec => []NoLostChange
<1>1. Init => TypeInv /\ HandlesInv /\ NoLostChange
  <2>1. Init => NoLostChange
    BY CaredAssumption DEF Init, FreshProcess, NoLostChange
  <2> QED
    BY <2>1, InitType, HandlesInit DEF TypeInv, BusyLocals, Busy, Init, FreshProcess
<1>2. TypeInv /\ HandlesInv /\ NoLostChange /\ [Next]_vars
        => (TypeInv /\ HandlesInv /\ NoLostChange)'
  BY TypeStep, HandlesStep, NoLostChangeStep
<1> QED
  BY <1>1, <1>2, PTL DEF Spec
-------------------------------------------------------------------------------
(* Until the directory is watched every file is on the list of the walk; a   *)
(* file the walk has left behind was read or is on its way.                 *)
Accounted(f) == view[f] # "unseen" \/ f \in unscanned \/ InPipeline(f)

WalkInv ==
  /\ phase = "watch" => \A f \in Files : disk[f] # Absent => f \in unscanned
  /\ phase \in {"scan", "run"} /\ ~skip =>
       \A f \in Cared : disk[f] \in Contents => Accounted(f)
  /\ phase = "run" => unscanned = {}

LEMMA WalkStep ==
  ASSUME ChangesBeforeWatch = FALSE
  PROVE  TypeInv /\ HandlesInv /\ WalkInv /\ [Next]_vars => WalkInv'
<1> SUFFICES ASSUME TypeInv, HandlesInv, WalkInv, [Next]_vars PROVE WalkInv'
  OBVIOUS
<1> USE DEF control, environ, TypeInv, TypeOK
(* What a step does to the phase, the list and the disk.                     *)
<1>1. \/ UNCHANGED <<phase, skip, unscanned, disk>>
      \/ Start \/ AddWatch \/ StartThreads \/ Crash
      \/ \E f \in Files : Change(f) \/ ScanFile(f)
  BY DEF Next, Step, Waiting, Tick, Watch, Dequeue, SweepStart, SweepEnd, DelayCheck,
         Analysis, CancelOld, AddTask, SetTask, Lstat, Md5, Insert, AlertCreated,
         AlertDeleted, Del, Update, AlertChanged, DelTask, Execute, Alert, vars
<1>2. phase' = "watch" => \A f \in Files : disk'[f] # Absent => f \in unscanned'
  BY <1>1 DEF WalkInv, Start, AddWatch, StartThreads, Crash, Change, ScanFile
<1>3. phase' = "run" => unscanned' = {}
  BY <1>1 DEF WalkInv, Start, AddWatch, StartThreads, Crash, Change, ScanFile
<1>4. ASSUME phase' \in {"scan", "run"}, ~skip',
             NEW f \in Cared, disk'[f] \in Contents, view'[f] = "unseen", f \notin unscanned'
      PROVE  InPipeline(f)'
  <2>1. f \in Files /\ disk'[f] # Absent
    BY <1>4, CaredAssumption, ValuesAssumption
  <2>2. ~Crash /\ ~Start
    BY <1>4 DEF Crash, Start
  <2>3. view[f] = "unseen"
    BY <1>4, <2>1, <2>2, DirtyHasEvent
  <2>4. disk[f] \in Contents
    <3>1. ASSUME NEW g \in Files, Change(g) PROVE g # f /\ disk'[f] = disk[f]
      <4>1. view' = [view EXCEPT ![g] = "dirty"]
        BY <1>4, <3>1 DEF Change
      <4>2. g # f
        BY <1>4, <2>1, <4>1
      <4> QED
        BY <2>1, <3>1, <4>2 DEF Change
    <3> QED
      BY <1>1, <1>4, <2>2, <3>1 DEF AddWatch, StartThreads, ScanFile
  <2>5. CASE AddWatch
    BY <1>4, <2>1, <2>4, <2>5, ValuesAssumption DEF AddWatch, WalkInv
  <2>6. CASE ScanFile(f)
    <3>1. do_analysis("main", f) /\ pc["main"] = "idle"
      BY <1>4, <2>4, <2>6 DEF ScanFile
    <3>2. Rescanning(f)'
      BY <2>1, <3>1, EntryRescans DEF Threads
    <3> QED
      BY <3>2 DEF InPipeline
  <2>7. CASE ~AddWatch /\ ~ScanFile(f)
    <3>1. f \notin unscanned /\ phase \in {"scan", "run"} /\ ~skip
      BY <1>1, <1>4, <2>2, <2>7 DEF StartThreads, Change, ScanFile
    <3>2. InPipeline(f)
      BY <2>3, <2>4, <3>1 DEF WalkInv, Accounted
    <3> QED
      BY <1>4, <2>2, <3>2, PipelineStep
  <2> QED
    BY <2>5, <2>6, <2>7
<1> QED
  BY <1>2, <1>3, <1>4 DEF WalkInv, Accounted

(* A walk that reads the files misses none of them, however files change     *)
(* under it, if none changes between the listing of the directory and its   *)
(* watch (which change_before_watch shows to be needed).                    *)
THEOREM NoFileIsMissed ==
  ASSUME ChangesBeforeWatch = FALSE
  PROVE  Spec => []NoMissedFile
<1>1. Init => TypeInv /\ HandlesInv /\ WalkInv
  BY InitType, HandlesInit
     DEF TypeInv, BusyLocals, Busy, WalkInv, Init, FreshProcess
<1>2. TypeInv /\ HandlesInv /\ WalkInv /\ [Next]_vars
        => (TypeInv /\ HandlesInv /\ WalkInv)'
  BY TypeStep, HandlesStep, WalkStep
<1>3. WalkInv => NoMissedFile
  BY DEF WalkInv, Accounted, NoMissedFile
<1> QED
  BY <1>1, <1>2, <1>3, PTL DEF Spec
-------------------------------------------------------------------------------
(* What a thread found in the table is still so when it inserts.            *)
FoundInv ==
  \A t \in Threads :
    /\ pc[t] \in {"lstat", "md5", "insert"} /\ ~loc[t].found => db[loc[t].name] = << >>
    /\ pc[t] = "insert" => ~loc[t].found

RowInv == FoundInv /\ OneRowPerFile

LEMMA RowsAnalysis ==
  ASSUME DBMayFail = FALSE, TypeInv, OneAnalyst, RowInv, NEW t \in Threads, Analysis(t)
  PROVE  RowInv'
<1> USE DEF TypeInv, TypeOK, RowInv
<1> DEFINE f == loc[t].name
<1>1. /\ pc[t] # "idle" /\ f \in Files /\ pc[t] \in Labels
      /\ \A u \in Threads \ {t} : pc'[u] = pc[u] /\ loc'[u] = loc[u]
  BY AnalysisFrame DEF BusyLocals, Busy
<1>2. \A u \in Threads \ {t} : pc[u] = "idle"
  BY <1>1 DEF OneAnalyst, Threads
<1>3. ASSUME pc'[t] \notin {"lstat", "md5", "insert"} PROVE FoundInv'
  BY <1>1, <1>2, <1>3 DEF FoundInv
<1>4. ASSUME UNCHANGED db PROVE OneRowPerFile'
  BY <1>4 DEF OneRowPerFile
<1>5. CASE Lstat(t)
  <2> DEFINE l == [loc[t] EXCEPT !.stat = disk[f]]
  <2>1. /\ UNCHANGED db /\ loc' = [loc EXCEPT ![t] = l] /\ pc[t] = "lstat"
        /\ pc' = [pc EXCEPT ![t] = IF disk[f] \in Contents THEN "md5" ELSE Verdict(l)]
    BY <1>5 DEF Lstat, Goto
  <2>2. loc'[t].name = f /\ loc'[t].found = loc[t].found /\ l.found = loc[t].found
    BY <2>1 DEF Locals
  <2>3. pc'[t] = "insert" => ~loc[t].found
    BY <2>1, <2>2 DEF Verdict
  <2>4. FoundInv'
    BY <1>1, <1>2, <2>1, <2>2, <2>3 DEF FoundInv
  <2> QED
    BY <1>4, <2>1, <2>4
<1>6. CASE Md5(t)
  <2> DEFINE l == [loc[t] EXCEPT !.checksum =
                     [stat |-> loc[t].stat,
                      md5 |-> IF disk[f] \in Contents THEN disk[f] ELSE NoMd5]]
  <2>1. /\ UNCHANGED db /\ loc' = [loc EXCEPT ![t] = l] /\ pc[t] = "md5"
        /\ pc' = [pc EXCEPT ![t] = Verdict(l)]
    BY <1>6 DEF Md5, Goto
  <2>2. loc'[t].name = f /\ loc'[t].found = loc[t].found /\ l.found = loc[t].found
    BY <2>1 DEF Locals
  <2>3. pc'[t] = "insert" => ~loc[t].found
    BY <2>1, <2>2 DEF Verdict
  <2>4. FoundInv'
    BY <1>1, <1>2, <2>1, <2>2, <2>3 DEF FoundInv
  <2> QED
    BY <1>4, <2>1, <2>4
<1>7. CASE Insert(t)
  <2>1. db[f] = << >> /\ pc'[t] = "alert_created"
    BY <1>7 DEF Insert, Goto, FoundInv
  <2>2. db' = [db EXCEPT ![f] = Append(db[f], NewRow(t))]
    BY <1>7 DEF Insert, Execute
  <2>3. Len(Append(db[f], NewRow(t))) = 1
    BY <2>1
  <2>4. OneRowPerFile'
    BY <1>1, <2>2, <2>3 DEF OneRowPerFile
  <2> QED
    BY <1>3, <2>1, <2>4
<1>8. CASE Update(t)
  <2>1. db' = [db EXCEPT ![f] = [i \in DOMAIN db[f] |-> NewRow(t)]]
    BY <1>8 DEF Update, Execute
  <2>2. db[f] \in Seq(Row)
    BY <1>1
  <2>3. Len([i \in DOMAIN db[f] |-> NewRow(t)]) = Len(db[f])
    <3>1. \A n \in Nat : \A r : Len([i \in 1..n |-> r]) = n
      OBVIOUS
    <3> QED
      BY <2>2, <3>1
  <2>4. OneRowPerFile'
    BY <1>1, <2>1, <2>3 DEF OneRowPerFile
  <2>5. pc'[t] = "alert_changed"
    BY <1>8 DEF Update, Goto
  <2> QED
    BY <1>3, <2>4, <2>5
<1>9. CASE Del(t)
  <2>1. db' = [db EXCEPT ![f] = << >>] /\ pc'[t] = "del_task"
    BY <1>9 DEF Del, Execute, Goto
  <2>2. OneRowPerFile'
    BY <1>1, <2>1 DEF OneRowPerFile
  <2> QED
    BY <1>3, <2>1, <2>2
<1>10. CASE ~(Lstat(t) \/ Md5(t) \/ Insert(t) \/ Update(t) \/ Del(t))
  <2>1. UNCHANGED db /\ pc'[t] \notin {"lstat", "md5", "insert"}
    BY <1>10 DEF Analysis, CancelOld, AddTask, SetTask, AlertCreated, AlertDeleted,
                 AlertChanged, DelTask, Alert, Goto, Return
  <2> QED
    BY <1>3, <1>4, <2>1
<1> QED
  BY <1>5, <1>6, <1>7, <1>8, <1>9, <1>10

LEMMA RowsStep ==
  ASSUME DBMayFail = FALSE
  PROVE  TypeInv /\ OneAnalyst /\ RowInv /\ [Next]_vars => RowInv'
<1> SUFFICES ASSUME TypeInv, OneAnalyst, RowInv, [Next]_vars PROVE RowInv'
  OBVIOUS
<1> USE DEF TypeInv, TypeOK, RowInv, control, environ, tasks, timers
<1>1. ASSUME NEW t \in Threads, Analysis(t) PROVE RowInv'
  BY <1>1, RowsAnalysis
<1>2. ASSUME UNCHANGED <<pc, loc, db>> PROVE RowInv'
  BY <1>2 DEF FoundInv, OneRowPerFile
<1>3. ASSUME NEW t \in Threads, NEW f \in Files, do_analysis(t, f), UNCHANGED db
      PROVE  RowInv'
  <2>1. CASE UNCHANGED <<pc, loc>>
    BY <1>2, <1>3, <2>1
  <2>2. CASE ~UNCHANGED <<pc, loc>>
    <3>1. PICK found \in FindResults(f) :
            /\ pc' = [pc EXCEPT ![t] = IF found /\ TooEarly(f) THEN "cancel" ELSE "lstat"]
            /\ loc' = [loc EXCEPT ![t] = [NoLocals EXCEPT
                         !.name = f, !.now = clock, !.found = found,
                         !.sum = IF found THEN Head(db[f]).md5sum ELSE EmptySum]]
      BY <1>3, <2>2 DEF do_analysis
    <3>2. found = (db[f] # << >>)
      BY <3>1 DEF FindResults
    <3>3. /\ loc'[t].name = f /\ loc'[t].found = found
          /\ pc'[t] \in {"cancel", "lstat"}
      BY <3>1 DEF NoLocals
    <3>4. \A u \in Threads \ {t} : loc'[u] = loc[u] /\ pc'[u] = pc[u]
      BY <3>1
    <3>5. FoundInv'
      BY <1>3, <3>2, <3>3, <3>4 DEF FoundInv
    <3> QED
      BY <1>3, <3>5 DEF OneRowPerFile
  <2> QED
    BY <2>1, <2>2
<1>4. ASSUME NEW f \in Files, ScanFile(f) PROVE RowInv'
  BY <1>2, <1>3, <1>4 DEF ScanFile, Threads
<1>5. CASE Dequeue
  <2>1. Head(anlysis_queue) \in Files
    BY <1>5 DEF Dequeue
  <2> QED
    BY <1>3, <1>5, <2>1 DEF Dequeue, Threads
<1>6. CASE Start \/ AddWatch \/ StartThreads \/ Watch \/ UNCHANGED vars
  BY <1>2, <1>6 DEF Start, AddWatch, StartThreads, Watch, vars
<1>7. CASE SweepStart \/ SweepEnd \/ \E timer \in due : DelayCheck(timer)
  BY <1>2, <1>7 DEF SweepStart, SweepEnd, DelayCheck
<1>8. CASE Tick \/ \E f \in Files : Change(f)
  BY <1>2, <1>8 DEF Tick, Change
<1>9. CASE Crash
  <2>1. UNCHANGED db /\ \A t \in Threads : pc'[t] = "idle"
    BY <1>9 DEF Crash
  <2> QED
    BY <2>1 DEF FoundInv, OneRowPerFile
<1> QED
  BY <1>1, <1>4, <1>5, <1>6, <1>7, <1>8, <1>9 DEF Next, Step, Waiting

LEMMA RowsInit == Init => RowInv
<1> SUFFICES ASSUME Init PROVE RowInv
  OBVIOUS
<1>1. \A t \in Threads : pc[t] = "idle"
  BY DEF Init, FreshProcess
<1>2. \A rows \in FormerRows : Len(rows) <= 1
  <2> DEFINE R == [md5sum : FormerSums, timestamp : {0, Interval}]
  <2>1. FormerRows = {<< >>} \cup {<<r>> : r \in R}
    BY DEF FormerRows
  <2> HIDE DEF R
  <2>2. \A rows \in {<<r>> : r \in R} : \E r \in R : rows = <<r>>
    OBVIOUS
  <2>3. Len(<< >>) = 0 /\ \A r \in R : Len(<<r>>) = 1
    OBVIOUS
  <2> SUFFICES ASSUME NEW rows \in FormerRows PROVE Len(rows) <= 1
    OBVIOUS
  <2>4. CASE rows = << >>
    BY <2>3, <2>4
  <2>5. CASE rows # << >>
    <3>1. PICK r \in R : rows = <<r>>
      BY <2>1, <2>2, <2>5
    <3> QED
      BY <2>3, <3>1
  <2> QED
    BY <2>4, <2>5
<1>3. OneRowPerFile
  BY <1>2 DEF Init, OneRowPerFile
<1> QED
  BY <1>1, <1>3 DEF RowInv, FoundInv

(* The table keeps one row per file, across deaths of the process, although  *)
(* nothing in its schema says so and find and insert are two statements.     *)
(* It takes a database that does not fail: an error of find looks like a     *)
(* missing row.                                                            *)
THEOREM RowsAreUnique ==
  ASSUME DBMayFail = FALSE
  PROVE  Spec => []OneRowPerFile
<1>1. Init => TypeInv /\ OneAnalyst /\ RowInv
  BY InitType, RowsInit
     DEF TypeInv, BusyLocals, Busy, OneAnalyst, Init, FreshProcess, Threads
<1>2. TypeInv /\ OneAnalyst /\ RowInv /\ [Next]_vars => (TypeInv /\ OneAnalyst /\ RowInv)'
  BY TypeStep, OneAnalystStep, RowsStep
<1>3. RowInv => OneRowPerFile
  BY DEF RowInv
<1> QED
  BY <1>1, <1>2, <1>3, PTL DEF Spec
===============================================================================
