------------------------------ MODULE DelayProofs ------------------------------
(***************************************************************************)
(* The delayed checks of FileAnalysis, for every set of files and contents, *)
(* every interval and every bound: a check is not put off for ever, the     *)
(* task remembered for a file is one that will come back, and a file has    *)
(* two timers ahead of it at most.                                         *)
(***************************************************************************)
EXTENDS FileAnalysisProofs, FiniteSetTheorems

Stamp(f) == Head(db[f]).timestamp

LEMMA HeadAppend ==
  ASSUME NEW S, NEW s \in Seq(S), NEW x \in S
  PROVE  Append(s, x) # << >> /\ Head(Append(s, x)) = IF s = << >> THEN x ELSE Head(s)
<1>1. Len(s) \in Nat /\ (s # << >> => Len(s) > 0)
  OBVIOUS
<1>2. Len(Append(s, x)) = Len(s) + 1 /\ Append(s, x) \in Seq(S)
  OBVIOUS
<1>3. Append(s, x) # << >> /\ Head(Append(s, x)) = Append(s, x)[1]
  <2>1. Len(Append(s, x)) # 0
    BY <1>1, <1>2
  <2>2. Append(s, x) # << >>
    <3>1. Len(<< >>) = 0
      OBVIOUS
    <3> DEFINE a == Append(s, x)
    <3> HIDE DEF a
    <3>2. Len(a) # 0 => a # << >>
      BY <3>1
    <3> QED
      BY <2>1, <3>2 DEF a
  <2> QED
    BY <2>2
<1>4. CASE s = << >>
  BY <1>3, <1>4
<1>5. CASE s # << >>
  BY <1>1, <1>3, <1>5
<1> QED
  BY <1>3, <1>4, <1>5

LEMMA HeadOfAll ==
  ASSUME NEW S, NEW s \in Seq(S), NEW x \in S, NEW r, r = [i \in DOMAIN s |-> x]
  PROVE  /\ s = << >> => r = << >>
         /\ s # << >> => r # << >> /\ Head(r) = x
<1>1. DOMAIN s = 1..Len(s) /\ Len(s) \in Nat /\ (s # << >> => Len(s) > 0)
  OBVIOUS
<1>2. \A n \in Nat : [i \in 1..n |-> x] \in Seq(S) /\ Len([i \in 1..n |-> x]) = n
  OBVIOUS
<1>3. r \in Seq(S) /\ Len(r) = Len(s)
  BY <1>1, <1>2
<1>4. CASE s = << >>
  BY <1>3, <1>4
<1>5. CASE s # << >>
  <2>1. r # << >> /\ Head(r) = r[1] /\ 1 \in DOMAIN s
    BY <1>1, <1>3, <1>5
  <2> QED
    BY <2>1
<1> QED
  BY <1>4, <1>5

(* What a step of do_analysis does to the rows of the table.                *)
LEMMA RowChange ==
  ASSUME TypeInv, NEW t \in Threads, Analysis(t)
  PROVE  LET f == loc[t].name IN
         /\ f \in Files
         /\ \A g \in Files \ {f} : db'[g] = db[g]
         /\ \/ UNCHANGED db
            \/ /\ Insert(t) /\ db'[f] # << >>
               /\ Head(db'[f]) = IF db[f] = << >> THEN NewRow(t) ELSE Head(db[f])
            \/ /\ Update(t) /\ (db[f] = << >> <=> db'[f] = << >>)
               /\ db[f] # << >> => Head(db'[f]) = NewRow(t)
            \/ Del(t) /\ db'[f] = << >>
<1> USE DEF TypeInv, TypeOK
<1> DEFINE f == loc[t].name
<1>1. f \in Files /\ db[f] \in Seq(Row) /\ NewRow(t) \in Row
  BY AnalysisFrame DEF BusyLocals, Busy, NewRow, Row, Locals
<1>2. ASSUME NEW rows, Execute(t, rows)
      PROVE  UNCHANGED db \/ (db'[f] = rows /\ \A g \in Files \ {f} : db'[g] = db[g])
  BY <1>1, <1>2 DEF Execute
<1>3. CASE Insert(t)
  <2>1. \/ UNCHANGED db
        \/ /\ db'[f] = Append(db[f], NewRow(t))
           /\ \A g \in Files \ {f} : db'[g] = db[g]
    BY <1>2, <1>3 DEF Insert
  <2>2. CASE UNCHANGED db
    BY <1>1, <2>2
  <2>3. CASE /\ db'[f] = Append(db[f], NewRow(t))
             /\ \A g \in Files \ {f} : db'[g] = db[g]
    <3>1. /\ db'[f] # << >>
          /\ Head(db'[f]) = IF db[f] = << >> THEN NewRow(t) ELSE Head(db[f])
      <4>1. db[f] \in Seq(Row) /\ NewRow(t) \in Row
        BY <1>1
      <4> HIDE DEF f, TypeInv, TypeOK
      <4>2. \A r \in Seq(Row) : \A x \in Row :
              Append(r, x) # << >> /\ Head(Append(r, x)) = IF r = << >> THEN x ELSE Head(r)
        BY HeadAppend
      <4> HIDE DEF Row
      <4> QED
        BY <2>3, <4>1, <4>2, Zenon
    <3> QED
      BY <1>1, <1>3, <2>3, <3>1
  <2> QED
    BY <2>1, <2>2, <2>3
<1>4. CASE Update(t)
  <2> DEFINE rows == [i \in DOMAIN db[f] |-> NewRow(t)]
  <2>1. UNCHANGED db \/ (db'[f] = rows /\ \A g \in Files \ {f} : db'[g] = db[g])
    BY <1>2, <1>4 DEF Update
  <2>2. (db[f] = << >> => rows = << >>)
        /\ (db[f] # << >> => rows # << >> /\ Head(rows) = NewRow(t))
    BY <1>1, HeadOfAll
  <2> HIDE DEF rows
  <2>3. CASE UNCHANGED db
    BY <1>1, <2>3
  <2>4. CASE db'[f] = rows /\ \A g \in Files \ {f} : db'[g] = db[g]
    <3>1. (db[f] = << >> <=> db'[f] = << >>) /\ (db[f] # << >> => Head(db'[f]) = NewRow(t))
      BY <2>2, <2>4
    <3> QED
      BY <1>1, <1>4, <2>4, <3>1
  <2> QED
    BY <2>1, <2>3, <2>4
<1>5. CASE Del(t)
  BY <1>1, <1>2, <1>5 DEF Del
<1>6. CASE ~(Insert(t) \/ Update(t) \/ Del(t))
  BY <1>1, <1>6 DEF Analysis, CancelOld, AddTask, SetTask, Lstat, Md5, AlertCreated,
                    AlertDeleted, AlertChanged, DelTask, Alert
<1> QED
  BY <1>3, <1>4, <1>5, <1>6

(* A call keeps the name and the time it was entered with.                  *)
LEMMA NowKept ==
  ASSUME TypeInv, NEW t \in Threads, Analysis(t), pc'[t] # "idle"
  PROVE  loc'[t].name = loc[t].name /\ loc'[t].now = loc[t].now
<1> USE DEF TypeInv, TypeOK
<1>1. loc[t] \in Locals
  OBVIOUS
<1>2. CASE AddTask(t) \/ Lstat(t) \/ Md5(t)
  BY <1>1, <1>2 DEF AddTask, Lstat, Md5, Locals
<1>3. CASE ~(AddTask(t) \/ Lstat(t) \/ Md5(t))
  BY <1>3 DEF Analysis, CancelOld, SetTask, Insert, AlertCreated, AlertDeleted, Del, Update,
              AlertChanged, DelTask, Return, Execute, Alert
<1> QED
  BY <1>2, <1>3

(* The entry of do_analysis: nothing for a name it does not care for, and   *)
(* else a call with the row it found.                                      *)
LEMMA EntryCases ==
  ASSUME TypeInv, NEW t \in Threads, NEW f \in Files, do_analysis(t, f)
  PROVE  \/ f \notin Cared /\ UNCHANGED <<pc, loc>>
         \/ /\ f \in Cared
            /\ loc'[t].found \in FindResults(f)
            /\ pc'[t] = IF loc'[t].found /\ TooEarly(f) THEN "cancel" ELSE "lstat"
            /\ loc'[t] \in Locals
            /\ loc'[t].name = f /\ loc'[t].now = clock /\ loc'[t].checksum = EmptySum
            /\ loc'[t].found => loc'[t].sum = Head(db[f]).md5sum /\ db[f] # << >>
            /\ \A u \in Threads \ {t} : pc'[u] = pc[u] /\ loc'[u] = loc[u]
<1> USE DEF TypeInv, TypeOK
<1>1. CASE f \notin Cared
  BY <1>1 DEF do_analysis
<1>2. CASE f \in Cared
  <2>1. PICK found \in FindResults(f) :
          /\ pc' = [pc EXCEPT ![t] = IF found /\ TooEarly(f) THEN "cancel" ELSE "lstat"]
          /\ loc' = [loc EXCEPT ![t] = [NoLocals EXCEPT
                       !.name = f, !.now = clock, !.found = found,
                       !.sum = IF found THEN Head(db[f]).md5sum ELSE EmptySum]]
    BY <1>2 DEF do_analysis
  <2>2. loc' \in [Threads -> Locals]
    BY DoAnalysisType
  <2>3. found => db[f] # << >>
    BY <2>1 DEF FindResults
  <2> QED
    BY <1>2, <2>1, <2>2, <2>3 DEF NoLocals
<1> QED
  BY <1>1, <1>2
-------------------------------------------------------------------------------
(* Times never run ahead of the clock, and a check is put off only while    *)
(* the row of its file is younger than the interval.                        *)
TimesInv ==
  /\ \A f \in Files : db[f] # << >> => Stamp(f) <= clock
  /\ \A t \in Threads : Busy(t) => loc[t].now <= clock
  /\ \A t \in Threads : pc[t] \in {"cancel", "add"} =>
       /\ db[loc[t].name] # << >>
       /\ Interval > 0 /\ loc[t].now < Stamp(loc[t].name) + Interval
  /\ \A timer \in callbacks : Interval > 0 /\ timer.expiration <= clock + Interval
  /\ DelayBounded

LEMMA StampType ==
  ASSUME TypeOK, NEW f \in Files, db[f] # << >>
  PROVE  Stamp(f) \in Nat
<1>1. Head(db[f]) \in Row
  BY DEF TypeOK
<1> QED
  BY <1>1 DEF Stamp, Row

LEMMA TimesAnalysis ==
  ASSUME TypeInv, OneAnalyst, TimesInv, NEW t \in Threads, Analysis(t)
  PROVE  TimesInv'
<1> USE DEF TypeInv, TypeOK
<1> DEFINE f == loc[t].name
<1>1. /\ pc[t] # "idle" /\ f \in Files
      /\ \A u \in Threads \ {t} : pc'[u] = pc[u] /\ loc'[u] = loc[u] /\ pc[u] = "idle"
  BY AnalysisFrame DEF BusyLocals, Busy, OneAnalyst, Threads
<1>2. clock' = clock /\ clock \in Nat
  BY DEF Analysis, CancelOld, AddTask, SetTask, Lstat, Md5, Insert, AlertCreated,
         AlertDeleted, Del, Update, AlertChanged, DelTask, Execute, Alert, environ
<1>3. NewRow(t).timestamp = clock
  BY DEF NewRow
<1>4. \A g \in Files : db'[g] # << >> =>
        Stamp(g)' = clock \/ (db[g] # << >> /\ Stamp(g)' = Stamp(g))
  BY <1>1, <1>3, RowChange DEF Stamp
<1>5. ASSUME NEW g \in Files, db'[g] # << >> PROVE Stamp(g)' <= clock'
  <2>1. db[g] # << >> => Stamp(g) <= clock
    BY DEF TimesInv
  <2> QED
    BY <1>2, <1>4, <1>5, <2>1
<1>6. ASSUME NEW u \in Threads, Busy(u)' PROVE loc'[u].now <= clock'
  BY <1>1, <1>2, <1>6, NowKept DEF TimesInv, Busy
<1>7. ASSUME NEW u \in Threads, pc'[u] \in {"cancel", "add"}
      PROVE  /\ db'[loc'[u].name] # << >>
             /\ Interval > 0 /\ loc'[u].now < Stamp(loc[u].name)' + Interval
  <2>1. u = t /\ CancelOld(t)
    BY <1>1, <1>7 DEF Analysis, CancelOld, AddTask, SetTask, Lstat, Md5, Insert, AlertCreated,
         AlertDeleted, Del, Update, AlertChanged, DelTask, Goto, Return, Verdict
  <2> QED
    BY <2>1 DEF CancelOld, TimesInv, Stamp
<1>8. ASSUME NEW timer \in callbacks'
      PROVE  \/ timer \in callbacks
             \/ /\ UNCHANGED db /\ timer.name = f /\ pc[t] = "add"
                /\ timer.expiration = Interval + loc[t].now
  BY <1>8 DEF Analysis, CancelOld, cancel, AddTask, add, SetTask, Lstat, Md5, Insert,
         AlertCreated, AlertDeleted, Del, Update, AlertChanged, DelTask, Execute, Alert, timers
<1>9. ASSUME NEW timer \in callbacks'
      PROVE  Interval > 0 /\ timer.expiration <= clock' + Interval
  <2>1. loc[t].now \in Nat
    BY DEF Locals
  <2> QED
    BY <1>1, <1>2, <1>8, <2>1, IntervalAssumption DEF TimesInv, Busy
<1>10. ASSUME NEW timer \in callbacks', db'[timer.name] # << >>
       PROVE  timer.expiration < Stamp(timer.name)' + 2 * Interval
  <2>1. timer.expiration \in Int /\ timer.name \in Files
    <3>1. TypeInv'
      BY AnalysisType
    <3> QED
      BY <3>1 DEF TimersOK, Timer
  <2>2. CASE timer \notin callbacks
    <3>1. /\ db[f] # << >> /\ loc[t].now < Stamp(f) + Interval
          /\ loc[t].now \in Nat /\ Stamp(f) \in Nat
      BY <1>1, <1>8, <2>2, StampType DEF TimesInv, Locals
    <3>2. Stamp(timer.name)' = Stamp(f)
      BY <1>8, <2>2 DEF Stamp
    <3> QED
      BY <1>8, <2>2, <3>1, <3>2, IntervalAssumption
  <2>3. CASE timer \in callbacks
    <3>1. CASE Stamp(timer.name)' = clock
      <4>1. Interval > 0 /\ timer.expiration <= clock + Interval
        BY <2>3 DEF TimesInv
      <4> QED
        BY <1>2, <2>1, <3>1, <4>1, IntervalAssumption
    <3>2. CASE db[timer.name] # << >> /\ Stamp(timer.name)' = Stamp(timer.name)
      BY <2>3, <3>2 DEF TimesInv, DelayBounded, Stamp
    <3> QED
      BY <1>4, <1>10, <2>1, <3>1, <3>2
  <2> QED
    BY <2>2, <2>3
<1> QED
  BY <1>5, <1>6, <1>7, <1>9, <1>10 DEF TimesInv, DelayBounded, Stamp

LEMMA TimesStep == TypeInv /\ OneAnalyst /\ TimesInv /\ [Next]_vars => TimesInv'
<1> SUFFICES ASSUME TypeInv, OneAnalyst, TimesInv, [Next]_vars PROVE TimesInv'
  OBVIOUS
<1> USE DEF TypeInv, TypeOK, control, environ, tasks, timers
<1>1. ASSUME NEW t \in Threads, Analysis(t) PROVE TimesInv'
  BY <1>1, TimesAnalysis
<1>2. ASSUME UNCHANGED <<pc, loc, db, clock>>, callbacks' \subseteq callbacks PROVE TimesInv'
  BY <1>2 DEF TimesInv, DelayBounded, Stamp, Busy
<1>3. ASSUME NEW t \in Threads, NEW f \in Files, do_analysis(t, f),
             UNCHANGED <<db, clock, callbacks>>
      PROVE  TimesInv'
  <2>1. CASE UNCHANGED <<pc, loc>>
    BY <1>2, <1>3, <2>1
  <2>2. CASE ~UNCHANGED <<pc, loc>>
    <3>1. /\ pc'[t] = IF loc'[t].found /\ TooEarly(f) THEN "cancel" ELSE "lstat"
          /\ loc'[t].name = f /\ loc'[t].now = clock
          /\ loc'[t].found => db[f] # << >>
          /\ \A u \in Threads \ {t} : pc'[u] = pc[u] /\ loc'[u] = loc[u]
      BY <1>3, <2>2, EntryCases
    <3>2. ASSUME pc'[t] \in {"cancel", "add"}
          PROVE  db[f] # << >> /\ Interval > 0 /\ clock < Stamp(f) + Interval
      BY <3>1, <3>2, IntervalAssumption DEF TooEarly, Stamp
    <3>3. ASSUME NEW u \in Threads, Busy(u)' PROVE loc'[u].now <= clock'
      <4>1. CASE u = t
        BY <1>3, <3>1, <4>1
      <4>2. CASE u # t
        BY <1>3, <3>1, <3>3, <4>2 DEF TimesInv, Busy
      <4> QED
        BY <4>1, <4>2
    <3>4. ASSUME NEW u \in Threads, pc'[u] \in {"cancel", "add"}
          PROVE  /\ db'[loc'[u].name] # << >>
                 /\ Interval > 0 /\ loc'[u].now < Stamp(loc[u].name)' + Interval
      <4>1. CASE u = t
        BY <1>3, <3>1, <3>2, <3>4, <4>1 DEF Stamp
      <4>2. CASE u # t
        BY <1>3, <3>1, <3>4, <4>2 DEF TimesInv, Stamp
      <4> QED
        BY <4>1, <4>2
    <3> QED
      BY <1>3, <3>3, <3>4 DEF TimesInv, DelayBounded, Stamp
  <2> QED
    BY <2>1, <2>2
<1>4. ASSUME NEW f \in Files, ScanFile(f) PROVE TimesInv'
  BY <1>2, <1>3, <1>4 DEF ScanFile, Threads
<1>5. CASE Dequeue
  <2>1. Head(anlysis_queue) \in Files
    BY <1>5 DEF Dequeue
  <2> QED
    BY <1>3, <1>5, <2>1 DEF Dequeue, Threads
<1>6. CASE Start \/ AddWatch \/ StartThreads \/ Watch \/ UNCHANGED vars
  BY <1>2, <1>6 DEF Start, AddWatch, StartThreads, Watch, vars
<1>7. CASE SweepStart \/ SweepEnd \/ \E timer \in due : DelayCheck(timer)
  BY <1>2, <1>7 DEF SweepStart, BeginSweep, SweepEnd, EndSweep, DelayCheck, Called
<1>8. ASSUME NEW f \in Files, Change(f) PROVE TimesInv'
  BY <1>2, <1>8 DEF Change
<1>9. CASE Tick
  <2>1. clock' = clock + 1 /\ clock \in Nat /\ UNCHANGED <<pc, loc, db, callbacks>>
    BY <1>9 DEF Tick
  <2>2. \A g \in Files : db[g] # << >> => Stamp(g) \in Nat
    BY StampType
  <2>3. \A t \in Threads : loc[t].now \in Nat
    BY DEF Locals
  <2>4. \A timer \in callbacks : timer.expiration \in Int
    BY DEF TimersOK, Timer
  <2>5. \A g \in Files : db'[g] # << >> => Stamp(g)' <= clock'
    BY <2>1, <2>2 DEF TimesInv, Stamp
  <2>6. \A t \in Threads : Busy(t)' => loc'[t].now <= clock'
    BY <2>1, <2>3 DEF TimesInv, Busy
  <2>7. \A timer \in callbacks' : Interval > 0 /\ timer.expiration <= clock' + Interval
    BY <2>1, <2>4, IntervalAssumption DEF TimesInv
  <2> QED
    BY <2>1, <2>5, <2>6, <2>7 DEF TimesInv, DelayBounded, Stamp
<1>10. CASE Crash
  <2>1. /\ UNCHANGED <<db, clock>> /\ callbacks' = {}
        /\ \A t \in Threads : pc'[t] = "idle"
    BY <1>10 DEF Crash, TimersLost
  <2> QED
    BY <2>1 DEF TimesInv, DelayBounded, Stamp, Busy
<1> QED
  BY <1>1, <1>4, <1>5, <1>6, <1>7, <1>8, <1>9, <1>10 DEF Next, Step, Waiting

LEMMA TimesInit == Init => TimesInv
<1> SUFFICES ASSUME Init PROVE TimesInv
  OBVIOUS
<1>1. /\ callbacks = {} /\ clock = Interval /\ \A t \in Threads : pc[t] = "idle"
  BY DEF Init, FreshProcess, TimersInit
<1>2. ASSUME NEW f \in Files, db[f] # << >> PROVE Stamp(f) <= clock
  <2> DEFINE R == [md5sum : FormerSums, timestamp : {0, Interval}]
  <2>1. db[f] \in {<< >>} \cup {<<r>> : r \in R}
    BY DEF Init, FormerRows
  <2>2. \A r \in R : r.timestamp \in {0, Interval}
    OBVIOUS
  <2> HIDE DEF R
  <2>3. \A rows \in {<<r>> : r \in R} : \E r \in R : rows = <<r>>
    OBVIOUS
  <2>4. PICK r \in R : db[f] = <<r>>
    BY <1>2, <2>1, <2>3
  <2> QED
    BY <1>1, <2>2, <2>4, IntervalAssumption DEF Stamp
<1> QED
  BY <1>1, <1>2 DEF TimesInv, DelayBounded, Busy

(* However events cancel and replace it, and whatever fails, a delayed check *)
(* comes before two intervals have passed since the row of its file was     *)
(* written.                                                                *)
THEOREM DelaysAreBounded == Spec => []DelayBounded
<1>1. Init => TypeInv /\ OneAnalyst /\ TimesInv
  BY InitType, TimesInit
     DEF TypeInv, BusyLocals, Busy, OneAnalyst, Init, FreshProcess, Threads
<1>2. TypeInv /\ OneAnalyst /\ TimesInv /\ [Next]_vars
        => (TypeInv /\ OneAnalyst /\ TimesInv)'
  BY TypeStep, OneAnalystStep, TimesStep
<1>3. TimesInv => DelayBounded
  BY DEF TimesInv
<1> QED
  BY <1>1, <1>2, <1>3, PTL DEF Spec
-------------------------------------------------------------------------------
(* A timer that will call back, or whose node waits in the queue.           *)
Coming(x) == x \in Armed \/ x.name \in Range(anlysis_queue)

LEMMA ComingAnalysis ==
  ASSUME TypeInv, HandlesInv, NEW t \in Threads, Analysis(t), NEW x, Coming(x),
         ~CancelOld(t) \/ x.name # loc[t].name
  PROVE  Coming(x)'
<1> USE DEF TypeInv, TypeOK, control, environ, tasks, timers
<1>1. ASSUME UNCHANGED anlysis_queue, Armed \subseteq Armed' PROVE Coming(x)'
  BY <1>1 DEF Coming
<1>2. CASE ~CancelOld(t)
  BY <1>1, <1>2 DEF Analysis, AddTask, add, MutexFree, SetTask, Lstat, Md5, Insert,
       AlertCreated, AlertDeleted, Del, Update, AlertChanged, DelTask, Execute, Alert, Armed
<1>3. CASE CancelOld(t) /\ x.name # loc[t].name
  <2> DEFINE old == taskmap[loc[t].name]
  <2>1. loc[t].name \in Files /\ UNCHANGED anlysis_queue
    BY <1>3 DEF CancelOld, BusyLocals, Busy
  <2>2. CASE x \notin Armed \/ UNCHANGED timers
    BY <2>1, <2>2 DEF Coming, Armed
  <2>3. CASE x \in Armed /\ old # NoTask /\ cancel(old)
    <3>1. old \in Handles /\ old.name # x.name /\ x \in Handles
      BY <1>3, <2>1, <2>3 DEF HandlesInv, Handles, Armed
    <3>2. x.task_id # old.task_id
      BY <3>1 DEF HandlesInv
    <3>3. UNCHANGED <<sweep, due>> /\ x \in callbacks'
      BY <2>3, <3>2 DEF cancel, Registered, Armed
    <3> QED
      BY <2>3, <3>3 DEF Coming, Armed
  <2> QED
    BY <1>3, <2>2, <2>3 DEF CancelOld
<1> QED
  BY <1>2, <1>3

LEMMA ComingKept ==
  ASSUME TypeInv, HandlesInv, [Next]_vars, ~Crash, NEW x, Coming(x)
  PROVE  \/ Coming(x)'
         \/ Dequeue /\ x.name = Head(anlysis_queue)
         \/ \E t \in Threads : CancelOld(t) /\ x.name = loc[t].name
<1> USE DEF TypeInv, TypeOK, control, environ, tasks, timers
<1>1. ASSUME UNCHANGED anlysis_queue, Armed \subseteq Armed' PROVE Coming(x)'
  BY <1>1 DEF Coming
<1>2. ASSUME NEW t \in Threads, Analysis(t), ~CancelOld(t) \/ x.name # loc[t].name
      PROVE  Coming(x)'
  BY <1>2, ComingAnalysis
<1>4. CASE Tick \/ Start \/ AddWatch \/ StartThreads \/ UNCHANGED vars
  BY <1>1, <1>4 DEF Tick, Start, AddWatch, StartThreads, vars, Armed
<1>5. ASSUME NEW f \in Files, Change(f) \/ ScanFile(f) PROVE Coming(x)'
  BY <1>1, <1>5 DEF Change, ScanFile, Armed
<1>6. CASE SweepStart \/ SweepEnd
  BY <1>1, <1>6 DEF SweepStart, BeginSweep, MutexFree, SweepEnd, EndSweep, Armed
<1>7. ASSUME NEW timer \in due, DelayCheck(timer) PROVE Coming(x)'
  <2>1. timer.name \in Files
    BY DEF TimersOK, Timer
  <2>2. Range(anlysis_queue') = Range(anlysis_queue) \cup {timer.name}
    BY <1>7, <2>1, RangeAppend DEF DelayCheck
  <2>3. \A y \in Armed : y \in Armed' \/ y = timer
    BY <1>7 DEF DelayCheck, Called, Armed
  <2> QED
    BY <2>2, <2>3 DEF Coming
<1>8. CASE Watch
  <2>1. Head(inotify) \in Files
    BY <1>8 DEF Watch
  <2>2. Range(anlysis_queue') = Range(anlysis_queue) \cup {Head(inotify)}
    BY <1>8, <2>1, RangeAppend DEF Watch
  <2> QED
    BY <1>8, <2>2 DEF Watch, Coming, Armed
<1>9. ASSUME Dequeue, x.name # Head(anlysis_queue) PROVE Coming(x)'
  <2>1. x.name \in Range(anlysis_queue) => x.name \in Range(anlysis_queue')
    BY <1>9, RangeTail DEF Dequeue
  <2> QED
    BY <1>9, <2>1 DEF Dequeue, Coming, Armed
<1> QED
  BY <1>2, <1>4, <1>5, <1>6, <1>7, <1>8, <1>9 DEF Next, Step, Waiting

(* Why every task that is remembered is still on its way: the one about to   *)
(* be remembered is; only a file with a row, or one whose row has just been *)
(* deleted, has one, so the branch that returns without forgetting (a new   *)
(* file) has none to forget; and only a name the analysis cares for has one, *)
(* so the node that brings it back is not dropped.                          *)
Forgetting(f) == \E t \in Threads : pc[t] = "del_task" /\ loc[t].name = f

HeldInv ==
  /\ \A f \in Files : taskmap[f] # NoTask => f \in Cared /\ (db[f] # << >> \/ Forgetting(f))
  /\ \A t \in Threads : Busy(t) => loc[t].name \in Cared
  /\ \A t \in Threads : ~Busy(t) => loc[t].name = NoFile
  /\ \A t \in Threads : pc[t] = "set_task" =>
       db[loc[t].name] # << >> /\ Coming(loc[t].task)
  /\ \A t \in Threads : pc[t] = "alert_created" => taskmap[loc[t].name] = NoTask

TrackInv == HeldInv /\ TaskmapTracks

LEMMA TrackAnalysis ==
  ASSUME DBMayFail = FALSE, TypeInv, OneAnalyst, HandlesInv, RowInv, TimesInv, TrackInv,
         NEW t \in Threads, Analysis(t)
  PROVE  TrackInv'
<1> USE DEF TypeInv, TypeOK
<1> DEFINE f == loc[t].name
<1>1. /\ pc[t] # "idle" /\ f \in Files /\ f \in Cared
      /\ \A u \in Threads \ {t} : pc'[u] = pc[u] /\ loc'[u] = loc[u] /\ pc[u] = "idle"
      /\ UNCHANGED anlysis_queue
  BY AnalysisFrame DEF BusyLocals, Busy, OneAnalyst, Threads, TrackInv, HeldInv
<1>2. pc'[t] # "idle" => loc'[t].name = f
  BY NowKept
<1>3. pc'[t] = "idle" => loc'[t].name = NoFile /\ (SetTask(t) \/ AlertCreated(t) \/ DelTask(t))
  BY DEF Analysis, CancelOld, AddTask, SetTask, Lstat, Md5, Insert, AlertCreated, AlertDeleted,
         Del, Update, AlertChanged, DelTask, Goto, Return, Execute, Alert, Verdict, NoLocals
<1>4. \A g \in Files : db'[g] # db[g] => g = f /\ (Insert(t) \/ Update(t) \/ Del(t))
  BY RowChange
<1>5. /\ \A g \in Files \ {f} : taskmap'[g] = taskmap[g]
      /\ \/ taskmap'[f] = taskmap[f] /\ ~SetTask(t) /\ ~DelTask(t)
         \/ SetTask(t) /\ taskmap'[f] = loc[t].task
         \/ DelTask(t) /\ taskmap'[f] = NoTask
  BY <1>1 DEF Analysis, CancelOld, AddTask, SetTask, Lstat, Md5, Insert, AlertCreated,
         AlertDeleted, Del, Update, AlertChanged, DelTask, Execute, Alert, tasks
<1>6. \A u \in Threads : (Busy(u)' => loc'[u].name \in Cared) /\ (~Busy(u)' => loc'[u].name = NoFile)
  BY <1>1, <1>2, <1>3 DEF TrackInv, HeldInv, Busy
<1>7. ASSUME NEW g \in Files, taskmap'[g] # NoTask
      PROVE  g \in Cared /\ (db'[g] # << >> \/ Forgetting(g)')
  <2>1. CASE SetTask(t) /\ g = f
    <3>1. db[f] # << >> /\ UNCHANGED db
      BY <2>1 DEF SetTask, TrackInv, HeldInv
    <3> QED
      BY <1>1, <2>1, <3>1
  <2>2. CASE ~(SetTask(t) /\ g = f)
    <3>1. taskmap[g] # NoTask /\ (g = f => ~DelTask(t))
      BY <1>1, <1>5, <1>7, <2>2
    <3>2. g \in Cared /\ (db[g] # << >> \/ Forgetting(g))
      BY <3>1 DEF TrackInv, HeldInv
    <3>3. CASE db[g] # << >>
      <4>1. CASE Del(t) /\ g = f
        <5>1. pc'[t] = "del_task" /\ loc'[t].name = g
          BY <4>1 DEF Del, Goto, Execute
        <5> QED
          BY <3>2, <5>1 DEF Forgetting
      <4>2. CASE ~(Del(t) /\ g = f)
        BY <1>1, <3>2, <3>3, <4>2, RowChange
      <4> QED
        BY <4>1, <4>2
    <3>4. CASE Forgetting(g)
      <4>1. pc[t] = "del_task" /\ g = f
        BY <1>1, <3>4 DEF Forgetting
      <4> QED
        BY <3>1, <4>1 DEF Analysis, CancelOld, AddTask, SetTask, Lstat, Md5, Insert,
           AlertCreated, AlertDeleted, Del, Update, AlertChanged
    <3> QED
      BY <3>2, <3>3, <3>4
  <2> QED
    BY <2>1, <2>2
<1>8. ASSUME NEW u \in Threads, pc'[u] = "set_task"
      PROVE  db'[loc'[u].name] # << >> /\ Coming(loc[u].task)'
  <2>1. u = t /\ AddTask(t)
    BY <1>1, <1>8 DEF Analysis, CancelOld, AddTask, SetTask, Lstat, Md5, Insert, AlertCreated,
       AlertDeleted, Del, Update, AlertChanged, DelTask, Goto, Return, Verdict
  <2>2. db[f] # << >> /\ UNCHANGED db /\ loc'[u].name = f
    BY <1>2, <1>8, <2>1 DEF AddTask, TimesInv
  <2>3. loc'[u].task \in Armed'
    BY <2>1 DEF AddTask, add, MutexFree, Armed
  <2> QED
    BY <2>2, <2>3 DEF Coming
<1>9. ASSUME NEW u \in Threads, pc'[u] = "alert_created"
      PROVE  taskmap'[loc'[u].name] = NoTask
  <2>1. u = t /\ Insert(t)
    BY <1>1, <1>9 DEF Analysis, CancelOld, AddTask, SetTask, Lstat, Md5, Insert, AlertCreated,
       AlertDeleted, Del, Update, AlertChanged, DelTask, Goto, Return, Verdict
  <2>2. pc[t] = "insert" /\ loc' = loc /\ UNCHANGED taskmap
    BY <2>1 DEF Insert, Execute, tasks
  <2>3. db[f] = << >>
    BY <2>2 DEF RowInv, FoundInv
  <2>4. ~Forgetting(f)
    BY <1>1, <2>2 DEF Forgetting
  <2> QED
    BY <1>1, <2>1, <2>2, <2>3, <2>4 DEF TrackInv, HeldInv
<1>10. ASSUME NEW g \in Files, taskmap'[g] # NoTask
       PROVE  \/ taskmap'[g] \in Armed'
              \/ g \in Range(anlysis_queue')
              \/ \E u \in Threads : loc'[u].name = g
  <2>1. CASE g = f /\ pc'[t] # "idle"
    BY <1>2, <2>1
  <2>2. CASE g = f /\ pc'[t] = "idle"
    <3>1. ~DelTask(t)
      BY <1>1, <1>5, <1>10, <2>2 DEF DelTask, SetTask
    <3>2. ~AlertCreated(t)
      BY <1>1, <1>5, <1>10, <2>2 DEF AlertCreated, SetTask, TrackInv, HeldInv
    <3>3. SetTask(t) /\ taskmap'[g] = loc[t].task
      BY <1>3, <1>5, <2>2, <3>1, <3>2 DEF SetTask
    <3>4. Coming(loc[t].task) /\ loc[t].task.name = f /\ UNCHANGED timers
      BY <3>3 DEF SetTask, TrackInv, HeldInv, HandlesInv
    <3> QED
      BY <1>1, <2>2, <3>3, <3>4 DEF Coming, Armed, timers
  <2>3. CASE g # f
    <3>1. taskmap'[g] = taskmap[g] /\ taskmap[g].name = g
      BY <1>5, <1>10, <2>3 DEF HandlesInv
    <3>2. ASSUME NEW u \in Threads PROVE loc[u].name # g
      <4>1. CASE u = t
        BY <2>3, <4>1
      <4>2. CASE u # t
        BY <1>1, <4>2, ValuesAssumption DEF TrackInv, HeldInv, Busy
      <4> QED
        BY <4>1, <4>2
    <3>3. Coming(taskmap[g])
      BY <1>10, <3>1, <3>2 DEF TrackInv, TaskmapTracks, Coming
    <3>4. Coming(taskmap[g])'
      <4> DEFINE x == taskmap[g]
      <4>1. x = x' /\ x.name # f
        BY <2>3, <3>1
      <4> HIDE DEF x
      <4>2. Coming(x) => x \in Armed' \/ x.name \in Range(anlysis_queue')
        BY <4>1, ComingAnalysis DEF Coming
      <4> QED
        BY <3>3, <4>1, <4>2 DEF Coming, x
    <3> QED
      BY <3>1, <3>4 DEF Coming
  <2> QED
    BY <2>1, <2>2, <2>3
<1> QED
  BY <1>6, <1>7, <1>8, <1>9, <1>10 DEF TrackInv, HeldInv, TaskmapTracks

(* What is remembered, across the steps that leave the calls alone or enter   *)
(* one.                                                                    *)
LEMMA TrackKept ==
  ASSUME TypeInv, OneAnalyst, HandlesInv, TrackInv, [Next]_vars, ~Crash,
         UNCHANGED <<taskmap, db>>,
         ~\E t \in Threads : CancelOld(t),
         \A t \in Threads :
           \/ pc'[t] = pc[t] /\ loc'[t] = loc[t]
           \/ /\ pc[t] = "idle" /\ pc'[t] \in {"cancel", "lstat"}
              /\ loc'[t].name \in Cared,
         Dequeue /\ Head(anlysis_queue) \in Cared =>
           \E t \in Threads : loc'[t].name = Head(anlysis_queue)
  PROVE  TrackInv'
<1> USE DEF TypeInv, TypeOK
<1>1. ASSUME NEW f \in Files, taskmap'[f] # NoTask
      PROVE  f \in Cared /\ (db'[f] # << >> \/ Forgetting(f)')
  <2>1. f \in Cared /\ (db[f] # << >> \/ Forgetting(f))
    BY <1>1 DEF TrackInv, HeldInv
  <2>2. Forgetting(f) => Forgetting(f)'
    BY DEF Forgetting
  <2> QED
    BY <2>1, <2>2
<1>2. ASSUME NEW t \in Threads PROVE Busy(t)' => loc'[t].name \in Cared
  BY DEF TrackInv, HeldInv, Busy
<1>3. ASSUME NEW t \in Threads PROVE ~Busy(t)' => loc'[t].name = NoFile
  BY DEF TrackInv, HeldInv, Busy
<1>4. ASSUME NEW t \in Threads, pc'[t] = "set_task"
      PROVE  db'[loc'[t].name] # << >> /\ Coming(loc[t].task)'
  <2>1. pc[t] = "set_task" /\ loc'[t] = loc[t]
    BY <1>4
  <2>2. db[loc[t].name] # << >> /\ Coming(loc[t].task)
    BY <2>1 DEF TrackInv, HeldInv
  <2>3. ~Dequeue
    BY <2>1 DEF Dequeue, OneAnalyst, Threads
  <2> DEFINE x == loc[t].task
  <2>4. x = x'
    BY <2>1
  <2> HIDE DEF x
  <2>5. Coming(x) => x \in Armed' \/ x.name \in Range(anlysis_queue')
    BY <2>3, <2>4, ComingKept DEF Coming
  <2> QED
    BY <2>1, <2>2, <2>4, <2>5 DEF Coming, x
<1>5. ASSUME NEW t \in Threads, pc'[t] = "alert_created"
      PROVE  taskmap'[loc'[t].name] = NoTask
  BY <1>5 DEF TrackInv, HeldInv
<1>6. ASSUME NEW f \in Files, taskmap'[f] # NoTask
      PROVE  \/ taskmap'[f] \in Armed'
             \/ f \in Range(anlysis_queue')
             \/ \E t \in Threads : loc'[t].name = f
  <2>1. taskmap[f].name = f /\ f \in Cared
    BY <1>6 DEF HandlesInv, TrackInv, HeldInv
  <2>2. CASE \E t \in Threads : loc[t].name = f
    BY <2>1, <2>2, CaredAssumption, ValuesAssumption DEF TrackInv, HeldInv, Busy
  <2>3. CASE Dequeue /\ f = Head(anlysis_queue)
    BY <2>1, <2>3
  <2>4. CASE ~(\E t \in Threads : loc[t].name = f) /\ ~(Dequeue /\ f = Head(anlysis_queue))
    <3>1. Coming(taskmap[f])
      BY <1>6, <2>1, <2>4 DEF TrackInv, TaskmapTracks, Coming
    <3> DEFINE x == taskmap[f]
    <3>2. x = x' /\ x.name = f
      BY <2>1
    <3> HIDE DEF x
    <3>3. Coming(x) => x \in Armed' \/ x.name \in Range(anlysis_queue')
      BY <2>4, <3>2, ComingKept DEF Coming
    <3> QED
      BY <3>1, <3>2, <3>3 DEF x
  <2> QED
    BY <2>2, <2>3, <2>4
<1> QED
  BY <1>1, <1>2, <1>3, <1>4, <1>5, <1>6 DEF TrackInv, HeldInv, TaskmapTracks

LEMMA TrackStep ==
  ASSUME DBMayFail = FALSE
  PROVE  /\ TypeInv /\ OneAnalyst /\ HandlesInv /\ RowInv /\ TimesInv /\ TrackInv
         /\ [Next]_vars
         => TrackInv'
<1> SUFFICES ASSUME TypeInv, OneAnalyst, HandlesInv, RowInv, TimesInv, TrackInv, [Next]_vars
             PROVE  TrackInv'
  OBVIOUS
<1> USE DEF TypeInv, TypeOK, control, environ, tasks, timers
<1>1. ASSUME NEW t \in Threads, Analysis(t) PROVE TrackInv'
  BY <1>1, TrackAnalysis
<1>2. ASSUME UNCHANGED <<pc, loc, taskmap, db>>, ~Dequeue, ~Crash PROVE TrackInv'
  <2>1. ~\E t \in Threads : CancelOld(t)
    BY <1>2 DEF CancelOld, Goto, Labels
  <2> QED
    BY <1>2, <2>1, TrackKept
<1>3. ASSUME NEW t \in Threads, pc[t] = "idle", NEW g \in Files, do_analysis(t, g), ~Crash,
             UNCHANGED <<taskmap, db>>, Dequeue => g = Head(anlysis_queue)
      PROVE  TrackInv'
  <2>1. \/ g \notin Cared /\ UNCHANGED <<pc, loc>>
        \/ /\ g \in Cared
           /\ loc'[t].name = g /\ pc'[t] \in {"cancel", "lstat"}
           /\ \A u \in Threads \ {t} : pc'[u] = pc[u] /\ loc'[u] = loc[u]
    BY <1>3, EntryCases
  <2>2. ~\E u \in Threads : CancelOld(u)
    BY <1>3, <2>1 DEF CancelOld, Goto
  <2>3. Dequeue /\ Head(anlysis_queue) \in Cared =>
          \E u \in Threads : loc'[u].name = Head(anlysis_queue)
    BY <1>3, <2>1
  <2>4. \A u \in Threads :
           \/ pc'[u] = pc[u] /\ loc'[u] = loc[u]
           \/ /\ pc[u] = "idle" /\ pc'[u] \in {"cancel", "lstat"}
              /\ loc'[u].name \in Cared
    BY <1>3, <2>1
  <2> QED
    BY <1>3, <2>2, <2>3, <2>4, TrackKept
<1>4. ASSUME NEW f \in Files, ScanFile(f) PROVE TrackInv'
  <2>1. ~Dequeue /\ ~Crash
    BY <1>4, BoundsAssumption DEF ScanFile, Dequeue, Crash
  <2> QED
    BY <1>2, <1>3, <1>4, <2>1 DEF ScanFile, Threads
<1>5. CASE Dequeue
  <2>1. Head(anlysis_queue) \in Files /\ ~Crash
    BY <1>5 DEF Dequeue, Crash
  <2> QED
    BY <1>3, <1>5, <2>1 DEF Dequeue, Threads
<1>6. CASE Start \/ AddWatch \/ StartThreads \/ Watch \/ UNCHANGED vars
  <2>1. ~Dequeue /\ ~Crash
    BY <1>6 DEF Start, AddWatch, StartThreads, Watch, Dequeue, Crash, vars
  <2> QED
    BY <1>2, <1>6, <2>1 DEF Start, AddWatch, StartThreads, Watch, vars
<1>7. CASE SweepStart \/ SweepEnd \/ \E timer \in due : DelayCheck(timer)
  <2>1. ~Dequeue /\ ~Crash
    BY <1>7 DEF SweepStart, BeginSweep, SweepEnd, EndSweep, DelayCheck, Called, Dequeue, Crash
  <2> QED
    BY <1>2, <1>7, <2>1 DEF SweepStart, SweepEnd, DelayCheck
<1>8. CASE Tick \/ \E f \in Files : Change(f)
  <2>1. ~Dequeue /\ ~Crash
    BY <1>8 DEF Tick, Change, Dequeue, Crash
  <2> QED
    BY <1>2, <1>8, <2>1 DEF Tick, Change
<1>9. CASE Crash
  <2>1. /\ \A f \in Files : taskmap'[f] = NoTask
        /\ \A t \in Threads : pc'[t] = "idle" /\ loc'[t].name = NoFile
    BY <1>9 DEF Crash, NoLocals
  <2> QED
    BY <2>1 DEF TrackInv, HeldInv, TaskmapTracks, Busy
<1> QED
  BY <1>1, <1>4, <1>5, <1>6, <1>7, <1>8, <1>9 DEF Next, Step, Waiting

(* The task remembered for a file is one that will bring the file back, or   *)
(* one whose node or call is on its way: nothing is remembered for ever. It  *)
(* takes a database that does not fail, because a find that fails leads to  *)
(* the branch of a new file, which forgets nothing.                         *)
THEOREM TasksAreTracked ==
  ASSUME DBMayFail = FALSE
  PROVE  Spec => []TaskmapTracks
<1> DEFINE Inv == TypeInv /\ OneAnalyst /\ HandlesInv /\ RowInv /\ TimesInv /\ TrackInv
<1>1. Init => Inv
  <2>1. Init => TrackInv
    BY DEF Init, FreshProcess, NoLocals, TrackInv, HeldInv, TaskmapTracks, Busy
  <2> QED
    BY <2>1, InitType, HandlesInit, RowsInit, TimesInit
       DEF TypeInv, BusyLocals, Busy, OneAnalyst, Init, FreshProcess, Threads
<1>2. Inv /\ [Next]_vars => Inv'
  BY TypeStep, OneAnalystStep, HandlesStep, RowsStep, TimesStep, TrackStep
<1>3. Inv => TaskmapTracks
  BY DEF TrackInv
<1> QED
  BY <1>1, <1>2, <1>3, PTL DEF Spec
-------------------------------------------------------------------------------
(* The timers ahead of a file, and those of them nothing remembers (DelTask  *)
(* forgets a timer without cancelling it).                                 *)
Pending(f) == {x \in callbacks : x.name = f /\ x.expiration > clock}

Stale(f) ==
  {x \in Pending(f) : x # taskmap[f] /\ \A t \in Threads : pc[t] = "set_task" => x # loc[t].task}

One(S) == \A x, y \in S : x = y

On(f, labels) == \E t \in Threads : pc[t] \in labels /\ loc[t].name = f

Delaying == {"cancel", "add", "set_task"}
Reading  == Labels \ (Delaying \cup {"idle"})

SoonIn(S, f) == \A x \in S : x.expiration <= Stamp(f) + Interval
Old(f)       == clock >= Stamp(f) + Interval

(* Why there is one of them at most.  A timer that is left behind was added   *)
(* when the row was young, and is left when the row is old.  If the row is  *)
(* then written again, the next delayed check is only forgotten when that   *)
(* row is old in its turn, and the timer left first has expired.  If it is  *)
(* not, the row stays old and no check of the file is delayed any more.     *)
Quota(f) ==
  /\ One(Stale(f))
  /\ On(f, {"add", "set_task"}) => taskmap[f] \notin callbacks
  /\ On(f, Delaying) => SoonIn(Stale(f), f)
  /\ On(f, Reading) => One(Pending(f))
  /\ db[f] # << >> => SoonIn(Stale(f), f) \/ (Old(f) /\ One(Pending(f)))
  /\ On(f, {"lstat", "md5", "update", "alert_deleted", "del"}) /\ db[f] # << >> => Old(f)
  /\ On(f, {"alert_changed", "del_task"}) /\ db[f] # << >> => SoonIn(Pending(f), f) \/ Old(f)

QuotaInv == \A f \in Files : Quota(f)

(* Fewer timers and later times keep it.                                    *)
LEMMA QuotaKept ==
  ASSUME TypeInv, NEW f \in Files, Quota(f),
         Pending(f)' \subseteq Pending(f), Stale(f)' \subseteq Stale(f),
         callbacks' \subseteq callbacks, taskmap'[f] = taskmap[f],
         db'[f] = db[f], clock' \in Nat, clock' >= clock,
         \A labels : On(f, labels)' => On(f, labels)
  PROVE  Quota(f)'
<1> USE DEF TypeInv, TypeOK
<1>1. Stamp(f)' = Stamp(f)
  BY DEF Stamp
<1>2. db[f] # << >> => Stamp(f) \in Nat
  BY StampType
<1>3. db[f] # << >> /\ Old(f) => Old(f)'
  BY <1>1, <1>2, IntervalAssumption DEF Old
<1>4. (One(Stale(f)) => One(Stale(f))') /\ (One(Pending(f)) => One(Pending(f))')
  BY DEF One
<1>5. /\ SoonIn(Stale(f), f) => SoonIn(Stale(f), f)'
      /\ SoonIn(Pending(f), f) => SoonIn(Pending(f), f)'
  BY <1>1 DEF SoonIn
<1> HIDE DEF TypeInv, TypeOK
<1>6. (taskmap[f] \notin callbacks) => (taskmap[f] \notin callbacks)'
  OBVIOUS
<1> QED
  BY <1>3, <1>4, <1>5, <1>6 DEF Quota

(* Every timer is due within an interval.                                   *)
LEMMA PendingSoon ==
  ASSUME TypeInv, TimesInv, NEW x \in callbacks
  PROVE  x.expiration \in Int /\ x.expiration <= clock + Interval
BY DEF TypeInv, TypeOK, TimersOK, Timer, TimesInv

(* The thread at work is the only one, and it works on the file it entered   *)
(* with.                                                                   *)
LEMMA OneAtWork ==
  ASSUME TypeInv, OneAnalyst, NEW t \in Threads, Analysis(t)
  PROVE  /\ pc[t] # "idle" /\ pc[t] \in Labels /\ loc[t].name \in Files
         /\ \A u \in Threads \ {t} : pc'[u] = pc[u] /\ loc'[u] = loc[u] /\ pc[u] = "idle"
         /\ pc'[t] # "idle" => loc'[t].name = loc[t].name
         /\ pc'[t] = "idle" => loc'[t].name = NoFile
         /\ clock' = clock /\ clock \in Nat
<1> USE DEF TypeInv, TypeOK
<1>1. /\ pc[t] # "idle" /\ pc[t] \in Labels /\ loc[t].name \in Files
      /\ \A u \in Threads \ {t} : pc'[u] = pc[u] /\ loc'[u] = loc[u] /\ pc[u] = "idle"
  BY AnalysisFrame DEF BusyLocals, Busy, OneAnalyst, Threads
<1>2. /\ pc'[t] # "idle" => loc'[t].name = loc[t].name
      /\ pc'[t] = "idle" => loc'[t].name = NoFile
  <2>1. pc'[t] = "idle" => loc'[t].name = NoFile
    BY DEF Analysis, CancelOld, AddTask, SetTask, Lstat, Md5, Insert, AlertCreated,
       AlertDeleted, Del, Update, AlertChanged, DelTask, Goto, Return, Execute, Alert,
       Verdict, NoLocals
  <2> QED
    BY <2>1, NowKept
<1>3. clock' = clock /\ clock \in Nat
  BY DEF Analysis, CancelOld, AddTask, SetTask, Lstat, Md5, Insert, AlertCreated,
         AlertDeleted, Del, Update, AlertChanged, DelTask, Execute, Alert, environ
<1> QED
  BY <1>1, <1>2, <1>3

LEMMA QuotaOthers ==
  ASSUME TypeInv, OneAnalyst, HandlesInv, TimesInv, TrackInv, QuotaInv,
         NEW t \in Threads, Analysis(t), NEW g \in Files, loc[t].name # g
  PROVE  Quota(g)'
<1> USE DEF TypeInv, TypeOK
<1>1. /\ pc[t] # "idle" /\ pc[t] \in Labels /\ loc[t].name \in Files
      /\ \A u \in Threads \ {t} : pc'[u] = pc[u] /\ loc'[u] = loc[u] /\ pc[u] = "idle"
  BY OneAtWork
<1>2. /\ pc'[t] # "idle" => loc'[t].name = loc[t].name
      /\ pc'[t] = "idle" => loc'[t].name = NoFile
  BY OneAtWork
<1>3. clock' = clock /\ clock \in Nat
  BY OneAtWork
<1>4. db'[g] = db[g] /\ taskmap'[g] = taskmap[g]
  <2>1. taskmap'[g] = taskmap[g]
    BY <1>1 DEF Analysis, CancelOld, AddTask, SetTask, Lstat, Md5, Insert,
       AlertCreated, AlertDeleted, Del, Update, AlertChanged, DelTask, Execute, Alert, tasks
  <2> QED
    BY <2>1, RowChange
<1>5. \A x \in callbacks' : x \in callbacks \/ x.name = loc[t].name
  BY DEF Analysis, CancelOld, cancel, AddTask, add, SetTask, Lstat, Md5, Insert,
       AlertCreated, AlertDeleted, Del, Update, AlertChanged, DelTask, Execute, Alert, timers
<1>6. Pending(g)' \subseteq Pending(g)
  BY <1>3, <1>5 DEF Pending
<1>7. Stale(g)' \subseteq Stale(g)
  <2> SUFFICES ASSUME NEW x \in Stale(g)' PROVE x \in Stale(g)
    OBVIOUS
  <2>1. x \in Pending(g) /\ x # taskmap[g] /\ x.name = g
    BY <1>4, <1>6 DEF Stale, Pending
  <2>2. ASSUME NEW u \in Threads, pc[u] = "set_task" PROVE x # loc[u].task
    <3>1. u = t /\ loc[t].task.name = loc[t].name
      BY <1>1, <2>2 DEF HandlesInv
    <3> QED
      BY <2>1, <3>1
  <2> QED
    BY <2>1, <2>2 DEF Stale
<1>8. \A labels : "idle" \notin labels => ~On(g, labels)'
  <2>1. NoFile # g
    BY ValuesAssumption
  <2> QED
    BY <1>1, <1>2, <2>1 DEF On
<1>9. One(Stale(g))'
  BY <1>7 DEF QuotaInv, Quota, One
<1>10. db'[g] # << >> => (SoonIn(Stale(g), g) \/ (Old(g) /\ One(Pending(g))))'
  <2>1. Stamp(g)' = Stamp(g)
    BY <1>4 DEF Stamp
  <2>2. db[g] # << >> => SoonIn(Stale(g), g) \/ (Old(g) /\ One(Pending(g)))
    BY DEF QuotaInv, Quota
  <2> QED
    BY <1>3, <1>4, <1>6, <1>7, <2>1, <2>2 DEF SoonIn, Old, One
<1> QED
  BY <1>8, <1>9, <1>10 DEF Quota, Delaying, Reading

LEMMA QuotaOwn ==
  ASSUME TypeInv, OneAnalyst, HandlesInv, TimesInv, TrackInv, QuotaInv,
         NEW t \in Threads, Analysis(t), NEW g \in Files, loc[t].name = g
  PROVE  Quota(g)'
<1> USE DEF TypeInv, TypeOK
<1>1. /\ pc[t] # "idle" /\ pc[t] \in Labels /\ loc[t].name \in Files
      /\ \A u \in Threads \ {t} : pc'[u] = pc[u] /\ loc'[u] = loc[u] /\ pc[u] = "idle"
  BY OneAtWork
<1>2. /\ pc'[t] # "idle" => loc'[t].name = loc[t].name
      /\ pc'[t] = "idle" => loc'[t].name = NoFile
  BY OneAtWork
<1>3. clock' = clock /\ clock \in Nat
  BY OneAtWork
<1>4. \A labels : "idle" \notin labels => (On(g, labels) <=> pc[t] \in labels)
  BY <1>1 DEF On
<1>5. \A labels : "idle" \notin labels => (On(g, labels)' <=> pc'[t] \in labels)
  <2>1. NoFile # g
    BY ValuesAssumption
  <2> QED
    BY <1>1, <1>2, <2>1 DEF On
<1>6. /\ One(Stale(g))
      /\ pc[t] \in {"add", "set_task"} => taskmap[g] \notin callbacks
      /\ pc[t] \in Delaying => SoonIn(Stale(g), g)
      /\ pc[t] \in Reading => One(Pending(g))
      /\ db[g] # << >> => SoonIn(Stale(g), g) \/ (Old(g) /\ One(Pending(g)))
      /\ pc[t] \in {"lstat", "md5", "update", "alert_deleted", "del"} /\ db[g] # << >> => Old(g)
      /\ pc[t] \in {"alert_changed", "del_task"} /\ db[g] # << >> =>
           SoonIn(Pending(g), g) \/ Old(g)
  BY <1>4 DEF QuotaInv, Quota, Delaying, Reading
<1>7. ASSUME /\ One(Stale(g)')
             /\ pc'[t] \in {"add", "set_task"} => taskmap'[g] \notin callbacks'
             /\ pc'[t] \in Delaying => SoonIn(Stale(g), g)'
             /\ pc'[t] \in Reading => One(Pending(g)')
             /\ db'[g] # << >> => SoonIn(Stale(g), g)' \/ (Old(g)' /\ One(Pending(g)'))
             /\ pc'[t] \in {"lstat", "md5", "update", "alert_deleted", "del"} /\ db'[g] # << >> =>
                  Old(g)'
             /\ pc'[t] \in {"alert_changed", "del_task"} /\ db'[g] # << >> =>
                  SoonIn(Pending(g), g)' \/ Old(g)'
      PROVE  Quota(g)'
  BY <1>5, <1>7 DEF Quota, Delaying, Reading, One
<1>8. \A x \in Pending(g)' : x \in callbacks' /\ x.name = g /\ x.expiration > clock
  BY <1>3 DEF Pending
<1>9. Stale(g) \subseteq Pending(g) /\ Stale(g)' \subseteq Pending(g)'
  BY DEF Stale
<1>10. Stamp(g)' = clock => SoonIn(Pending(g), g)' \/ ~(callbacks' \subseteq callbacks)
  <2> SUFFICES ASSUME Stamp(g)' = clock, callbacks' \subseteq callbacks, NEW x \in Pending(g)'
               PROVE  x.expiration <= Stamp(g)' + Interval
    BY DEF SoonIn
  <2> QED
    BY <1>8, PendingSoon
<1>11. UNCHANGED db => Stamp(g)' = Stamp(g) /\ (Old(g)' <=> Old(g))
  BY <1>3 DEF Stamp, Old
(* The branches that touch no timer.                                        *)
<1>12. ASSUME UNCHANGED <<callbacks, taskmap>>,
              pc[t] \in Reading, pc'[t] \in Reading \cup {"idle"},
              db'[g] # << >> =>
                Stamp(g)' = clock \/ (db[g] # << >> /\ Stamp(g)' = Stamp(g)),
              pc'[t] \in {"lstat", "md5", "update", "alert_deleted", "del"} =>
                UNCHANGED db /\ pc[t] \in {"lstat", "md5", "update", "alert_deleted", "del"},
              pc'[t] \in {"alert_changed", "del_task"} =>
                pc[t] \in {"lstat", "md5", "update", "alert_deleted", "del", "alert_changed"}
       PROVE  Quota(g)'
  <2>1. \A u \in Threads : pc'[u] # "set_task" /\ pc[u] # "set_task"
    BY <1>1, <1>12 DEF Reading, Delaying
  <2>2. Pending(g)' = Pending(g)
    BY <1>3, <1>12 DEF Pending
  <2>3. Stale(g)' = Stale(g)
    BY <1>12, <2>1, <2>2 DEF Stale
  <2>4. One(Pending(g)) /\ One(Stale(g))
    BY <1>6, <1>12
  <2>5. pc'[t] \notin Delaying
    BY <1>12 DEF Reading, Delaying
  <2>6. Stamp(g)' = Stamp(g) => /\ SoonIn(Stale(g), g) => SoonIn(Stale(g), g)'
                                /\ SoonIn(Pending(g), g) => SoonIn(Pending(g), g)'
                                /\ Old(g) => Old(g)'
    BY <1>3, <2>2, <2>3 DEF SoonIn, Old
  <2>7. Stamp(g)' = clock => SoonIn(Pending(g), g)' /\ SoonIn(Stale(g), g)'
    BY <1>9, <1>10, <1>12 DEF SoonIn
  <2>8. db'[g] # << >> => SoonIn(Stale(g), g)' \/ (Old(g)' /\ One(Pending(g)'))
    BY <1>6, <1>12, <2>2, <2>4, <2>6, <2>7
  <2>9. /\ pc'[t] \in {"lstat", "md5", "update", "alert_deleted", "del"} /\ db'[g] # << >> => Old(g)'
        /\ pc'[t] \in {"alert_changed", "del_task"} /\ db'[g] # << >> =>
             SoonIn(Pending(g), g)' \/ Old(g)'
    BY <1>6, <1>11, <1>12, <2>6, <2>7
  <2> QED
    BY <1>7, <2>2, <2>3, <2>4, <2>5, <2>8, <2>9 DEF Delaying
<1>13. CASE Lstat(t) \/ Md5(t) \/ AlertCreated(t) \/ AlertDeleted(t) \/ AlertChanged(t)
  <2>1. UNCHANGED <<callbacks, taskmap, db>>
    BY <1>13 DEF Lstat, Md5, AlertCreated, AlertDeleted, AlertChanged, Alert, tasks, timers
  <2>2. /\ pc[t] \in Reading
        /\ \/ pc[t] \in {"lstat", "md5"}
              /\ pc'[t] \in {"md5", "insert", "alert_deleted", "update", "del_task"}
           \/ pc[t] = "alert_created" /\ pc'[t] = "idle"
           \/ pc[t] = "alert_deleted" /\ pc'[t] = "del"
           \/ pc[t] = "alert_changed" /\ pc'[t] = "del_task"
    BY <1>1, <1>13 DEF Lstat, Md5, AlertCreated, AlertDeleted, AlertChanged, Goto, Return,
       Verdict, Reading, Delaying, Labels
  <2>3. pc'[t] \in Reading \cup {"idle"}
    BY <2>2 DEF Reading, Delaying, Labels
  <2>4. db'[g] # << >> => db[g] # << >> /\ Stamp(g)' = Stamp(g)
    BY <1>11, <2>1
  <2>5. /\ pc'[t] \in {"lstat", "md5", "update", "alert_deleted", "del"} =>
             pc[t] \in {"lstat", "md5", "update", "alert_deleted", "del"}
        /\ pc'[t] \in {"alert_changed", "del_task"} =>
             pc[t] \in {"lstat", "md5", "update", "alert_deleted", "del", "alert_changed"}
    BY <2>2
  <2> QED
    BY <1>12, <2>1, <2>2, <2>3, <2>4, <2>5
<1>14. CASE Insert(t) \/ Update(t) \/ Del(t)
  <2>1. UNCHANGED <<callbacks, taskmap>>
    BY <1>14 DEF Insert, Update, Del, Execute, tasks, timers
  <2>2. /\ pc[t] \in Reading /\ pc'[t] \in Reading
        /\ \/ pc[t] = "insert" /\ pc'[t] = "alert_created"
           \/ pc[t] = "update" /\ pc'[t] = "alert_changed"
           \/ pc[t] = "del" /\ pc'[t] = "del_task"
    BY <1>1, <1>14 DEF Insert, Update, Del, Goto, Reading, Delaying, Labels
  <2>3. db'[g] # << >> => Stamp(g)' = clock \/ (db[g] # << >> /\ Stamp(g)' = Stamp(g))
    <3>1. NewRow(t).timestamp = clock
      BY DEF NewRow
    <3> QED
      BY <3>1, RowChange DEF Stamp
  <2> QED
    BY <1>12, <2>1, <2>2, <2>3
<1>15. CASE CancelOld(t)
  <2> DEFINE old == taskmap[g]
  <2>1. /\ pc[t] = "cancel" /\ pc'[t] = "add" /\ UNCHANGED <<db, taskmap>>
        /\ \/ old = NoTask /\ UNCHANGED timers
           \/ old # NoTask /\ cancel(old)
    BY <1>15 DEF CancelOld, Goto, tasks
  <2>2. callbacks' \subseteq callbacks /\ old \notin callbacks'
    <3>1. CASE old = NoTask /\ UNCHANGED timers
      BY <3>1, ValuesAssumption DEF TimersOK, timers
    <3>2. CASE old # NoTask /\ cancel(old)
      <4>1. old \in Handles /\ callbacks \subseteq Handles
        BY <3>2 DEF Handles
      <4>2. \A x \in Registered(old) : x = old
        BY <4>1 DEF Registered, HandlesInv
      <4>3. old \in callbacks => old \in Registered(old)
        BY DEF Registered
      <4> QED
        BY <3>2, <4>2, <4>3 DEF cancel
    <3> QED
      BY <2>1, <3>1, <3>2
  <2>3. Pending(g)' \subseteq Pending(g)
    BY <1>3, <2>2 DEF Pending
  <2>4. \A u \in Threads : pc'[u] # "set_task" /\ pc[u] # "set_task"
    BY <1>1, <2>1
  <2>5. Stale(g)' \subseteq Stale(g)
    BY <2>1, <2>3, <2>4 DEF Stale
  <2>6. SoonIn(Stale(g), g) /\ SoonIn(Stale(g), g)'
    BY <1>6, <1>11, <2>1, <2>5 DEF SoonIn, Delaying
  <2>7. One(Stale(g)')
    BY <1>6, <2>5 DEF One
  <2> QED
    BY <1>7, <2>1, <2>2, <2>6, <2>7 DEF Reading, Delaying
<1>16. CASE AddTask(t)
  <2> DEFINE new == [expiration |-> Interval + loc[t].now, task_id |-> global_id,
                     name |-> loc[t].name]
  <2>1. /\ pc[t] = "add" /\ pc'[t] = "set_task" /\ UNCHANGED <<db, taskmap>>
        /\ callbacks' = callbacks \cup {new} /\ loc'[t].task = new
    BY <1>16 DEF AddTask, add, Goto, tasks, Locals
  <2>2. new \in Timer /\ new.task_id = global_id
    BY <1>1, IntervalAssumption DEF Timer, Locals
  <2> HIDE DEF new
  <2>3. taskmap[g] # new
    <3>1. taskmap[g] # NoTask => taskmap[g].task_id < global_id
      BY DEF HandlesInv, Handles
    <3> QED
      BY <2>2, <3>1, ValuesAssumption
  <2>4. taskmap'[g] \notin callbacks'
    BY <1>6, <2>1, <2>3
  <2>5. Pending(g)' \subseteq Pending(g) \cup {new}
    BY <1>3, <2>1 DEF Pending
  <2>6. \A u \in Threads : pc[u] # "set_task"
    BY <1>1, <2>1
  <2>7. Stale(g)' \subseteq Stale(g)
    <3> SUFFICES ASSUME NEW x \in Stale(g)' PROVE x \in Stale(g)
      OBVIOUS
    <3>1. x # new /\ x # taskmap[g] /\ x \in Pending(g)
      BY <2>1, <2>5 DEF Stale
    <3> QED
      BY <2>6, <3>1 DEF Stale
  <2>8. SoonIn(Stale(g), g) /\ SoonIn(Stale(g), g)'
    BY <1>6, <1>11, <2>1, <2>7 DEF SoonIn, Delaying
  <2>9. One(Stale(g)')
    BY <1>6, <2>7 DEF One
  <2> QED
    BY <1>7, <2>1, <2>4, <2>8, <2>9 DEF Reading, Delaying
<1>17. CASE SetTask(t)
  <2>1. /\ pc[t] = "set_task" /\ pc'[t] = "idle" /\ UNCHANGED <<db, callbacks>>
        /\ taskmap'[g] = loc[t].task
    BY <1>17 DEF SetTask, Return, timers
  <2>2. Pending(g)' = Pending(g)
    BY <1>3, <2>1 DEF Pending
  <2>3. Stale(g)' \subseteq Stale(g)
    <3> SUFFICES ASSUME NEW x \in Stale(g)' PROVE x \in Stale(g)
      OBVIOUS
    <3>1. x # loc[t].task /\ x \in Pending(g) /\ x \in callbacks
      BY <2>1, <2>2 DEF Stale, Pending
    <3>2. x # taskmap[g]
      BY <1>6, <2>1, <3>1
    <3> QED
      BY <1>1, <3>1, <3>2 DEF Stale
  <2>4. SoonIn(Stale(g), g)'
    BY <1>6, <1>11, <2>1, <2>3 DEF SoonIn, Delaying
  <2>5. One(Stale(g)')
    BY <1>6, <2>3 DEF One
  <2> QED
    BY <1>7, <2>1, <2>4, <2>5 DEF Reading, Delaying
<1>18. CASE DelTask(t)
  <2>1. /\ pc[t] = "del_task" /\ pc'[t] = "idle" /\ UNCHANGED <<db, callbacks>>
    BY <1>18 DEF DelTask, Return, timers
  <2>2. Pending(g)' = Pending(g)
    BY <1>3, <2>1 DEF Pending
  <2>3. One(Pending(g)')
    BY <1>6, <2>1, <2>2 DEF Reading, Delaying, Labels
  <2>4. One(Stale(g)')
    BY <1>9, <2>3 DEF One
  <2>5. db'[g] # << >> => SoonIn(Stale(g), g)' \/ Old(g)'
    <3>1. SoonIn(Pending(g), g) => SoonIn(Stale(g), g)'
      BY <1>9, <1>11, <2>1, <2>2 DEF SoonIn
    <3> QED
      BY <1>6, <1>11, <2>1, <3>1
  <2> QED
    BY <1>7, <2>1, <2>3, <2>4, <2>5 DEF Reading, Delaying
<1> QED
  BY <1>13, <1>14, <1>15, <1>16, <1>17, <1>18 DEF Analysis

(* The entry of do_analysis: a call is delayed while the row is young, and    *)
(* reads the file when it is old.                                          *)
LEMMA QuotaEntry ==
  ASSUME DBMayFail = FALSE, TypeInv, HandlesInv, TimesInv, TrackInv, QuotaInv,
         \A u \in Threads : pc[u] = "idle",
         NEW t \in Threads, NEW f \in Files, do_analysis(t, f),
         UNCHANGED <<db, clock, callbacks, taskmap>>, NEW g \in Files
  PROVE  Quota(g)'
<1> USE DEF TypeInv, TypeOK
<1>1. Pending(g)' = Pending(g)
  BY DEF Pending
<1>2. pc'[t] \in {"idle", "cancel", "lstat"} /\ \A u \in Threads \ {t} : pc'[u] = "idle"
  BY EntryCases
<1>3. Stale(g)' = Stale(g)
  <2>1. \A u \in Threads : pc'[u] # "set_task" /\ pc[u] # "set_task"
    BY <1>2
  <2> QED
    BY <1>1, <2>1 DEF Stale
<1>4. Stamp(g)' = Stamp(g) /\ (Old(g)' <=> Old(g))
  BY DEF Stamp, Old
<1>5. /\ One(Stale(g))
      /\ db[g] # << >> => SoonIn(Stale(g), g) \/ (Old(g) /\ One(Pending(g)))
  BY DEF QuotaInv, Quota
<1>6. /\ SoonIn(Stale(g), g) => SoonIn(Stale(g), g)'
      /\ One(Stale(g))' /\ (One(Pending(g)) => One(Pending(g))')
  BY <1>1, <1>3, <1>4, <1>5 DEF SoonIn, One
<1>7. db'[g] # << >> => (SoonIn(Stale(g), g) \/ (Old(g) /\ One(Pending(g))))'
  BY <1>4, <1>5, <1>6
<1>8. CASE UNCHANGED <<pc, loc>> \/ f # g
  <2>1. \A labels : "idle" \notin labels => ~On(g, labels)'
    <3>1. CASE UNCHANGED <<pc, loc>>
      BY <3>1 DEF On
    <3>2. CASE ~UNCHANGED <<pc, loc>>
      <4>1. loc'[t].name = f /\ f # g
        BY <1>8, <3>2, EntryCases
      <4> QED
        BY <1>2, <4>1 DEF On
    <3> QED
      BY <3>1, <3>2
  <2> QED
    BY <1>6, <1>7, <2>1 DEF Quota, Delaying, Reading
<1>9. CASE ~UNCHANGED <<pc, loc>> /\ f = g
  <2>1. /\ loc'[t].found \in FindResults(g)
        /\ pc'[t] = IF loc'[t].found /\ TooEarly(g) THEN "cancel" ELSE "lstat"
        /\ loc'[t].name = g
    BY <1>9, EntryCases
  <2>2. loc'[t].found = (db[g] # << >>)
    BY <2>1 DEF FindResults
  <2>3. \A labels : "idle" \notin labels => (On(g, labels)' <=> pc'[t] \in labels)
    BY <1>2, <2>1 DEF On
  <2>4. db[g] # << >> => Stamp(g) \in Nat
    BY StampType
  <2>5. CASE pc'[t] = "cancel"
    <3>1. db[g] # << >> /\ ~Old(g)
      <4>1. db[g] # << >> /\ TooEarly(g)
        BY <2>1, <2>2, <2>5
      <4> QED
        BY <2>4, <4>1, IntervalAssumption DEF TooEarly, Old, Stamp
    <3>2. SoonIn(Stale(g), g)'
      BY <1>5, <1>6, <3>1
    <3> QED
      BY <1>6, <1>7, <2>3, <2>5, <3>2 DEF Quota, Delaying, Reading
  <2>6. CASE pc'[t] = "lstat"
    <3>1. db[g] # << >> => Old(g)
      <4>1. ASSUME db[g] # << >> PROVE ~TooEarly(g)
        BY <2>1, <2>2, <2>6, <4>1
      <4>2. ASSUME db[g] # << >>, Interval = 0 PROVE Old(g)
        BY <4>2, <2>4 DEF Old, TimesInv
      <4> QED
        BY <2>4, <4>1, <4>2, IntervalAssumption DEF TooEarly, Old, Stamp
    <3>2. Pending(g) \subseteq Stale(g) \cup {taskmap[g]}
      BY DEF Stale
    <3>3. One(Pending(g))
      <4>1. CASE db[g] = << >>
        <5>1. taskmap[g] = NoTask
          BY <4>1 DEF TrackInv, HeldInv, Forgetting
        <5>2. NoTask \notin Pending(g)
          BY ValuesAssumption DEF Pending, TimersOK
        <5> QED
          BY <1>5, <3>2, <5>1, <5>2 DEF One
      <4>2. CASE db[g] # << >> /\ SoonIn(Stale(g), g)
        <5>1. \A x \in Stale(g) : x.expiration > clock /\ x.expiration \in Int
          BY DEF Stale, Pending, TimersOK, Timer
        <5>2. ASSUME NEW x \in Stale(g) PROVE FALSE
          <6>1. clock >= Stamp(g) + Interval /\ x.expiration <= Stamp(g) + Interval
            BY <3>1, <4>2 DEF SoonIn, Old
          <6>2. clock \in Nat /\ Stamp(g) \in Nat
            BY <2>4, <4>2
          <6> QED
            BY <5>1, <6>1, <6>2, IntervalAssumption
        <5> QED
          BY <3>2, <5>2 DEF One
      <4> QED
        BY <1>5, <4>1, <4>2
    <3> QED
      BY <1>4, <1>6, <1>7, <2>3, <2>6, <3>1, <3>3 DEF Quota, Delaying, Reading
  <2> QED
    BY <2>1, <2>5, <2>6
<1> QED
  BY <1>8, <1>9

LEMMA QuotaStep ==
  ASSUME DBMayFail = FALSE
  PROVE  /\ TypeInv /\ OneAnalyst /\ HandlesInv /\ TimesInv /\ TrackInv /\ QuotaInv
         /\ [Next]_vars
         => QuotaInv'
<1> SUFFICES ASSUME TypeInv, OneAnalyst, HandlesInv, TimesInv, TrackInv, QuotaInv,
                    [Next]_vars, NEW g \in Files
             PROVE  Quota(g)'
  BY DEF QuotaInv
<1> USE DEF TypeInv, TypeOK, control, environ, tasks, timers
<1>1. ASSUME NEW t \in Threads, Analysis(t) PROVE Quota(g)'
  BY <1>1, QuotaOthers, QuotaOwn
<1>2. ASSUME UNCHANGED <<pc, loc, taskmap, db>>, callbacks' \subseteq callbacks,
             clock' \in {clock, clock + 1}
      PROVE  Quota(g)'
  <2>1. clock' \in Nat /\ clock' >= clock
    BY <1>2
  <2>2. Pending(g)' \subseteq Pending(g)
    <3>1. \A x \in callbacks : x.expiration \in Int
      BY DEF TimersOK, Timer
    <3> QED
      BY <1>2, <2>1, <3>1 DEF Pending
  <2>3. Stale(g)' \subseteq Stale(g)
    BY <1>2, <2>2 DEF Stale
  <2>4. \A labels : On(g, labels)' => On(g, labels)
    BY <1>2 DEF On
  <2> QED
    BY <1>2, <2>1, <2>2, <2>3, <2>4, QuotaKept DEF QuotaInv
<1>3. ASSUME NEW f \in Files, ScanFile(f) PROVE Quota(g)'
  <2>1. \A u \in Threads : pc[u] = "idle"
    BY <1>3 DEF ScanFile, OneAnalyst, Threads
  <2> QED
    BY <1>2, <1>3, <2>1, QuotaEntry DEF ScanFile, Threads
<1>4. CASE Dequeue
  <2>1. \A u \in Threads : pc[u] = "idle"
    BY <1>4 DEF Dequeue, OneAnalyst, Threads
  <2>2. Head(anlysis_queue) \in Files
    BY <1>4 DEF Dequeue
  <2> QED
    BY <1>4, <2>1, <2>2, QuotaEntry DEF Dequeue, Threads
<1>5. CASE Start \/ AddWatch \/ StartThreads \/ Watch \/ UNCHANGED vars
  BY <1>2, <1>5 DEF Start, AddWatch, StartThreads, Watch, vars
<1>6. CASE SweepStart \/ SweepEnd \/ \E timer \in due : DelayCheck(timer)
  BY <1>2, <1>6 DEF SweepStart, BeginSweep, SweepEnd, EndSweep, DelayCheck, Called
<1>7. CASE Tick \/ \E f \in Files : Change(f)
  BY <1>2, <1>7 DEF Tick, Change
<1>8. CASE Crash
  <2>1. callbacks' = {} /\ \A u \in Threads : pc'[u] = "idle"
    BY <1>8 DEF Crash, TimersLost
  <2>2. Pending(g)' = {} /\ Stale(g)' = {}
    BY <2>1 DEF Pending, Stale
  <2>3. \A labels : "idle" \notin labels => ~On(g, labels)'
    BY <2>1 DEF On
  <2> QED
    BY <2>2, <2>3 DEF Quota, One, SoonIn, Delaying, Reading
<1> QED
  BY <1>1, <1>3, <1>4, <1>5, <1>6, <1>7, <1>8 DEF Next, Step, Waiting

LEMMA AtMostTwo ==
  ASSUME NEW S, NEW T, One(T), NEW c, S \subseteq T \cup {c}
  PROVE  Cardinality(S) <= 2
<1>1. PICK d : T \subseteq {d}
  BY DEF One
<1>2. S \subseteq {c, d}
  BY <1>1
<1>3. IsFiniteSet({c, d}) /\ Cardinality({c, d}) \in Nat /\ Cardinality({c, d}) <= 2
  <2>1. IsFiniteSet({c}) /\ Cardinality({c}) = 1
    BY FS_Singleton
  <2>2. {c, d} = {c} \cup {d}
    OBVIOUS
  <2>3. /\ IsFiniteSet({c} \cup {d})
        /\ Cardinality({c} \cup {d}) = IF d \in {c} THEN Cardinality({c}) ELSE Cardinality({c}) + 1
    BY <2>1, FS_AddElement
  <2> QED
    BY <2>1, <2>2, <2>3
<1>4. Cardinality(S) \in Nat /\ Cardinality(S) <= Cardinality({c, d})
  BY <1>2, <1>3, FS_Subset, FS_CardinalityType
<1> QED
  BY <1>3, <1>4

(* A file never has more than two timers ahead of it: the one that is         *)
(* remembered, and one that was forgotten but not cancelled.                *)
THEOREM PendingTimersAreBounded ==
  ASSUME DBMayFail = FALSE
  PROVE  Spec => []PendingTimersBounded
<1> DEFINE Inv == /\ TypeInv /\ OneAnalyst /\ HandlesInv /\ RowInv /\ TimesInv /\ TrackInv
                  /\ QuotaInv
<1>1. Init => Inv
  <2>1. Init => TrackInv
    BY DEF Init, FreshProcess, NoLocals, TrackInv, HeldInv, TaskmapTracks, Busy
  <2>2. Init => QuotaInv
    <3> SUFFICES ASSUME Init, NEW f \in Files PROVE Quota(f)
      BY DEF QuotaInv
    <3>1. callbacks = {} /\ \A t \in Threads : pc[t] = "idle"
      BY DEF Init, FreshProcess, TimersInit
    <3>2. Pending(f) = {} /\ Stale(f) = {}
      BY <3>1 DEF Pending, Stale
    <3>3. \A labels : "idle" \notin labels => ~On(f, labels)
      BY <3>1 DEF On
    <3> QED
      BY <3>2, <3>3 DEF Quota, One, SoonIn, Delaying, Reading
  <2> QED
    BY <2>1, <2>2, InitType, HandlesInit, RowsInit, TimesInit
       DEF TypeInv, BusyLocals, Busy, OneAnalyst, Init, FreshProcess, Threads
<1>2. Inv /\ [Next]_vars => Inv'
  BY TypeStep, OneAnalystStep, HandlesStep, RowsStep, TimesStep, TrackStep, QuotaStep
<1>3. Inv => PendingTimersBounded
  <2> SUFFICES ASSUME Inv, NEW f \in Files PROVE Cardinality(Pending(f)) <= 2
    BY DEF PendingTimersBounded, Pending
  <2>1. One(Stale(f))
    BY DEF QuotaInv, Quota
  <2>2. CASE On(f, {"set_task"})
    <3>1. PICK t \in Threads : pc[t] = "set_task" /\ loc[t].name = f
      BY <2>2 DEF On
    <3>2. taskmap[f] \notin callbacks
      BY <3>1 DEF QuotaInv, Quota, On
    <3>3. \A u \in Threads : pc[u] = "set_task" => u = t
      BY <3>1 DEF OneAnalyst, Threads
    <3>4. Pending(f) \subseteq Stale(f) \cup {loc[t].task}
      BY <3>2, <3>3 DEF Stale, Pending
    <3> QED
      BY <2>1, <3>4, AtMostTwo
  <2>3. CASE ~On(f, {"set_task"})
    <3>1. \A t \in Threads : pc[t] = "set_task" => loc[t].task.name # f
      BY <2>3 DEF On, HandlesInv
    <3>2. Pending(f) \subseteq Stale(f) \cup {taskmap[f]}
      BY <3>1 DEF Stale, Pending
    <3> QED
      BY <2>1, <3>2, AtMostTwo
  <2> QED
    BY <2>2, <2>3
<1> QED
  BY <1>1, <1>2, <1>3, PTL DEF Spec
===============================================================================
