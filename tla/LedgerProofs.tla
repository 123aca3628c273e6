----------------------------- MODULE LedgerProofs -----------------------------
(***************************************************************************)
(* The table and the alerts of FileAnalysis, for every set of files and     *)
(* contents, every interval and every bound: the table agrees with the disk *)
(* wherever nothing is pending, no row goes without the alert of a          *)
(* deletion, and the whole implements AlertLedger.                          *)
(***************************************************************************)
EXTENDS DelayProofs

(* A row is deleted by the thread that has just alerted the deletion.        *)
Alerted == \A t \in Threads : pc[t] = "del" => told[loc[t].name] = "DELETED"

LEMMA AlertedStep == TypeInv /\ OneAnalyst /\ Alerted /\ [Next]_vars => Alerted'
<1> SUFFICES ASSUME TypeInv, OneAnalyst, Alerted, [Next]_vars PROVE Alerted'
  OBVIOUS
<1> USE DEF TypeInv, TypeOK, Alerted
<1>1. ASSUME NEW t \in Threads, Analysis(t) PROVE Alerted'
  <2>1. ASSUME NEW u \in Threads, pc'[u] = "del" PROVE u = t /\ AlertDeleted(t)
    <3>1. u = t
      BY <1>1, <2>1, OneAtWork
    <3>2. pc[t] # "idle"
      BY <1>1, OneAtWork
    <3> QED
      BY <1>1, <2>1, <3>1, <3>2
         DEF Analysis, CancelOld, AddTask, SetTask, Lstat, Md5, Insert, AlertCreated,
             Del, Update, AlertChanged, DelTask, Goto, Return, Verdict
  <2>2. AlertDeleted(t) => told'[loc'[t].name] = "DELETED"
    <3>1. loc[t].name \in Files
      BY <1>1, OneAtWork
    <3> QED
      BY <3>1 DEF AlertDeleted, Alert
  <2> QED
    BY <2>1, <2>2
<1>2. ASSUME NEW t \in Threads, NEW f \in Files, do_analysis(t, f), UNCHANGED told
      PROVE  Alerted'
  <2>1. \A u \in Threads : pc'[u] = "del" => pc[u] = "del" /\ loc'[u] = loc[u]
    BY <1>2, EntryCases
  <2> QED
    BY <1>2, <2>1
<1>3. ASSUME UNCHANGED <<pc, loc, told>> PROVE Alerted'
  BY <1>3
<1>4. ASSUME NEW f \in Files, ScanFile(f) PROVE Alerted'
  BY <1>2, <1>3, <1>4 DEF ScanFile, Threads
<1>5. CASE Dequeue
  <2>1. Head(anlysis_queue) \in Files
    BY <1>5 DEF Dequeue
  <2> QED
    BY <1>2, <1>5, <2>1 DEF Dequeue, Threads
<1>6. CASE Start \/ AddWatch \/ StartThreads \/ Watch \/ UNCHANGED vars
  BY <1>3, <1>6 DEF Start, AddWatch, StartThreads, Watch, vars
<1>7. CASE SweepStart \/ SweepEnd \/ \E timer \in due : DelayCheck(timer)
  BY <1>3, <1>7 DEF SweepStart, SweepEnd, DelayCheck
<1>8. CASE Tick \/ \E f \in Files : Change(f)
  BY <1>3, <1>8 DEF Tick, Change
<1>9. CASE Crash
  BY <1>9 DEF Crash
<1> QED
  BY <1>1, <1>4, <1>5, <1>6, <1>7, <1>8, <1>9 DEF Next, Step, Waiting

(* Whatever fails and whenever the process dies: the row of a file goes only  *)
(* after its deletion was alerted.                                         *)
THEOREM NothingForgottenSilently == Spec => NoSilentForget
<1>1. Init => TypeInv /\ OneAnalyst /\ Alerted
  BY InitType
     DEF TypeInv, BusyLocals, Busy, OneAnalyst, Alerted, Init, FreshProcess, Threads
<1>2. TypeInv /\ OneAnalyst /\ Alerted /\ [Next]_vars => (TypeInv /\ OneAnalyst /\ Alerted)'
  BY TypeStep, OneAnalystStep, AlertedStep
<1>3. ASSUME TypeInv, Alerted, [Next]_vars, NEW f \in Files, db[f] # << >>, db'[f] = << >>
      PROVE  told[f] = "DELETED"
  <2>1. \E t \in Threads : Analysis(t)
    BY <1>3 DEF Next, Step, Waiting, vars, Tick, Change, Start, AddWatch, StartThreads, Watch,
       Dequeue, ScanFile, SweepStart, SweepEnd, DelayCheck, Crash, environ, control, tasks
  <2>2. PICK t \in Threads : Analysis(t)
    BY <2>1
  <2>3. f = loc[t].name /\ Del(t)
    BY <1>3, <2>2, RowChange
  <2> QED
    BY <1>3, <2>3 DEF Del, Alerted
<1>4. TypeInv /\ Alerted /\ [Next]_vars =>
        [\A f \in Files : db[f] # << >> /\ db'[f] = << >> => told[f] = "DELETED"]_<<db, told>>
  BY <1>3
<1> QED
  BY <1>1, <1>2, <1>4, PTL DEF Spec, NoSilentForget
-------------------------------------------------------------------------------
(* What a thread has read of the table is still so while it decides, and     *)
(* what it decided to write or to alert fits the row.                      *)
KnownInv ==
  \A t \in Threads, f \in Files : loc[t].name = f =>
    /\ pc[t] \in {"lstat", "md5"} /\ loc[t].found =>
         db[f] # << >> /\ loc[t].sum = Head(db[f]).md5sum /\ Old(f)
    /\ pc[t] \in {"update", "alert_deleted", "del"} => db[f] # << >> /\ Old(f)
    /\ pc[t] \in {"alert_created", "alert_changed"} => db[f] # << >>

(* Statements that do not fail.                                             *)
LEMMA RowWritten ==
  ASSUME DBMayFail = FALSE, TypeInv, NEW t \in Threads, NEW f \in Files, loc[t].name = f
  PROVE  /\ Insert(t) /\ db[f] = << >> => db'[f] # << >> /\ Head(db'[f]) = NewRow(t)
         /\ Update(t) /\ db[f] # << >> => db'[f] # << >> /\ Head(db'[f]) = NewRow(t)
         /\ Del(t) => db'[f] = << >>
<1> USE DEF TypeInv, TypeOK
<1>1. ASSUME NEW rows, Execute(t, rows) PROVE db'[f] = rows
  BY <1>1 DEF Execute
<1>2. ASSUME pc[t] # "idle" PROVE NewRow(t) \in Row
  BY DEF NewRow, Row, Locals
<1>3. ASSUME Insert(t), db[f] = << >> PROVE db'[f] # << >> /\ Head(db'[f]) = NewRow(t)
  <2>1. db'[f] = Append(<< >>, NewRow(t))
    BY <1>1, <1>3 DEF Insert
  <2> HIDE DEF TypeInv, TypeOK
  <2>2. \A x : Append(<< >>, x) = <<x>> /\ <<x>> # << >> /\ Head(<<x>>) = x
    OBVIOUS
  <2> QED
    BY <2>1, <2>2
<1>4. ASSUME Update(t), db[f] # << >> PROVE db'[f] # << >> /\ Head(db'[f]) = NewRow(t)
  <2> DEFINE rows == [i \in DOMAIN db[f] |-> NewRow(t)]
  <2>1. db'[f] = rows
    BY <1>1, <1>4 DEF Update
  <2>2. rows # << >> /\ Head(rows) = NewRow(t)
    BY <1>2, <1>4, HeadOfAll DEF Update
  <2> QED
    BY <2>1, <2>2
<1>5. ASSUME Del(t) PROVE db'[f] = << >>
  BY <1>1, <1>5 DEF Del
<1> QED
  BY <1>3, <1>4, <1>5

(* What a step of do_analysis does to what its thread has read.             *)
LEMMA ReadKept ==
  ASSUME TypeInv, NEW t \in Threads, Analysis(t), pc'[t] # "idle"
  PROVE  /\ loc'[t].found = loc[t].found /\ loc'[t].sum = loc[t].sum
         /\ Lstat(t) => /\ loc'[t].stat = disk[loc[t].name]
                        /\ loc'[t].checksum = loc[t].checksum
         /\ Md5(t) => /\ loc'[t].stat = loc[t].stat
                      /\ loc'[t].checksum =
                           [stat |-> loc[t].stat,
                            md5 |-> IF disk[loc[t].name] \in Contents
                                    THEN disk[loc[t].name] ELSE NoMd5]
         /\ ~(Lstat(t) \/ Md5(t)) => /\ loc'[t].stat = loc[t].stat
                                     /\ loc'[t].checksum = loc[t].checksum
<1> USE DEF TypeInv, TypeOK
<1>1. loc[t] \in Locals
  OBVIOUS
<1>2. CASE AddTask(t)
  BY <1>1, <1>2 DEF AddTask, Lstat, Md5, Locals
<1>3. CASE Lstat(t)
  <2>1. loc' = [loc EXCEPT ![t] = [loc[t] EXCEPT !.stat = disk[loc[t].name]]] /\ ~Md5(t)
    BY <1>3 DEF Lstat, Md5
  <2> QED
    BY <1>1, <1>3, <2>1 DEF Locals
<1>4. CASE Md5(t)
  <2>1. /\ loc' = [loc EXCEPT ![t] = [loc[t] EXCEPT !.checksum =
                      [stat |-> loc[t].stat,
                       md5 |-> IF disk[loc[t].name] \in Contents
                               THEN disk[loc[t].name] ELSE NoMd5]]]
        /\ ~Lstat(t)
    BY <1>4 DEF Lstat, Md5
  <2> QED
    BY <1>1, <1>4, <2>1 DEF Locals
<1>5. CASE ~(AddTask(t) \/ Lstat(t) \/ Md5(t))
  <2>1. loc' = loc
    BY <1>5 DEF Analysis, CancelOld, SetTask, Insert, AlertCreated, AlertDeleted, Del, Update,
                AlertChanged, DelTask, Return, Execute, Alert
  <2> QED
    BY <1>5, <2>1
<1> QED
  BY <1>2, <1>3, <1>4, <1>5

(* Where a step of do_analysis leads, and from where.                       *)
LEMMA Flow ==
  ASSUME TypeInv, NEW t \in Threads, Analysis(t)
  PROVE  /\ pc'[t] \notin {"cancel", "lstat"}
         /\ pc'[t] = "add" => CancelOld(t)
         /\ pc'[t] = "set_task" => AddTask(t)
         /\ pc'[t] = "md5" => Lstat(t) /\ disk[loc[t].name] \in Contents
         /\ pc'[t] \in {"insert", "update", "alert_deleted"} =>
              (Lstat(t) /\ disk[loc[t].name] \notin Contents) \/ Md5(t)
         /\ pc'[t] = "insert" => ~loc[t].found
         /\ pc'[t] = "update" => loc[t].found
         /\ pc'[t] = "alert_deleted" => loc[t].found /\ loc'[t].stat = Absent
         /\ pc'[t] = "alert_created" => Insert(t)
         /\ pc'[t] = "alert_changed" => Update(t)
         /\ pc'[t] = "del" => AlertDeleted(t)
         /\ pc'[t] = "del_task" =>
              \/ Del(t) \/ AlertChanged(t)
              \/ /\ (Lstat(t) /\ disk[loc[t].name] \notin Contents) \/ Md5(t)
                 /\ loc[t].found /\ loc'[t].checksum = loc[t].sum
         /\ pc'[t] = "idle" => SetTask(t) \/ AlertCreated(t) \/ DelTask(t)
<1> USE DEF TypeInv, TypeOK
<1>1. CASE Lstat(t)
  <2> DEFINE l == [loc[t] EXCEPT !.stat = disk[loc[t].name]]
  <2>1. /\ pc'[t] = IF disk[loc[t].name] \in Contents THEN "md5" ELSE Verdict(l)
        /\ loc'[t] = l
    BY <1>1 DEF Lstat, Goto
  <2>2. l.found = loc[t].found /\ l.sum = loc[t].sum
    BY DEF Locals
  <2> HIDE DEF l
  <2> QED
    BY <1>1, <2>1, <2>2 DEF Verdict
<1>2. CASE Md5(t)
  <2> DEFINE l == [loc[t] EXCEPT !.checksum =
                     [stat |-> loc[t].stat,
                      md5 |-> IF disk[loc[t].name] \in Contents
                              THEN disk[loc[t].name] ELSE NoMd5]]
  <2>1. pc'[t] = Verdict(l) /\ loc'[t] = l
    BY <1>2 DEF Md5, Goto
  <2>2. l.found = loc[t].found /\ l.sum = loc[t].sum
    BY DEF Locals
  <2> HIDE DEF l
  <2> QED
    BY <1>2, <2>1, <2>2 DEF Verdict
<1>3. CASE ~(Lstat(t) \/ Md5(t))
  BY <1>3 DEF Analysis, CancelOld, AddTask, SetTask, Insert, AlertCreated, AlertDeleted, Del,
              Update, AlertChanged, DelTask, Goto, Return
<1> QED
  BY <1>1, <1>2, <1>3

(* An entry finds the row of the file, if there is one.                     *)
LEMMA EntryFinds ==
  ASSUME DBMayFail = FALSE, TypeInv, TimesInv,
         NEW t \in Threads, NEW f \in Files, do_analysis(t, f),
         UNCHANGED <<db, clock>>, ~UNCHANGED <<pc, loc>>
  PROVE  /\ pc'[t] \in {"cancel", "lstat"} /\ loc'[t].name = f
         /\ loc'[t].checksum = EmptySum
         /\ \A u \in Threads \ {t} : pc'[u] = pc[u] /\ loc'[u] = loc[u]
         /\ pc'[t] = "lstat" /\ loc'[t].found =>
              db[f] # << >> /\ loc'[t].sum = Head(db[f]).md5sum /\ Old(f)
<1>1. /\ loc'[t].found \in FindResults(f)
      /\ pc'[t] = IF loc'[t].found /\ TooEarly(f) THEN "cancel" ELSE "lstat"
      /\ loc'[t].name = f /\ loc'[t].checksum = EmptySum
      /\ loc'[t].found => loc'[t].sum = Head(db[f]).md5sum /\ db[f] # << >>
      /\ \A u \in Threads \ {t} : pc'[u] = pc[u] /\ loc'[u] = loc[u]
  BY EntryCases
<1>2. ASSUME pc'[t] = "lstat", loc'[t].found PROVE Old(f)
  <2>1. ~TooEarly(f) /\ db[f] # << >>
    BY <1>1, <1>2
  <2>2. Stamp(f) \in Nat /\ clock \in Nat
    BY <2>1, StampType DEF TypeInv, TypeOK
  <2>3. Interval = 0 => Old(f)
    BY <2>1, <2>2 DEF Old, TimesInv
  <2> QED
    BY <2>1, <2>2, <2>3, IntervalAssumption DEF TooEarly, Old, Stamp
<1> QED
  BY <1>1, <1>2

LEMMA KnownAnalysis ==
  ASSUME DBMayFail = FALSE, TypeInv, OneAnalyst, RowInv, KnownInv,
         NEW t \in Threads, Analysis(t)
  PROVE  KnownInv'
<1> USE DEF TypeInv, TypeOK
<1>1. /\ pc[t] # "idle" /\ loc[t].name \in Files /\ clock' = clock
      /\ \A u \in Threads \ {t} : pc'[u] = pc[u] /\ loc'[u] = loc[u] /\ pc[u] = "idle"
  BY OneAtWork
<1>2. PICK f \in Files : f = loc[t].name
  BY <1>1
<1>3. pc'[t] # "idle" => loc'[t].name = f
  BY <1>2, OneAtWork
<1>4. UNCHANGED db => (Old(f)' <=> Old(f))
  BY <1>1 DEF Old, Stamp
<1>5. Lstat(t) \/ Md5(t) \/ AlertDeleted(t) => UNCHANGED db
  BY DEF Lstat, Md5, AlertDeleted, Alert
<1>6. ASSUME pc'[t] \in {"lstat", "md5"}, loc'[t].found
      PROVE  db'[f] # << >> /\ loc'[t].sum = Head(db'[f]).md5sum /\ Old(f)'
  <2>1. Lstat(t) /\ pc[t] = "lstat"
    BY <1>6, Flow DEF Lstat
  <2>2. loc[t].found /\ loc'[t].sum = loc[t].sum
    BY <1>6, ReadKept
  <2> QED
    BY <1>2, <1>4, <1>5, <2>1, <2>2 DEF KnownInv
<1>7. ASSUME pc'[t] \in {"update", "alert_deleted", "del"}
      PROVE  db'[f] # << >> /\ Old(f)'
  <2>1. CASE pc'[t] = "del"
    <3>1. AlertDeleted(t) /\ pc[t] = "alert_deleted"
      BY <2>1, Flow DEF AlertDeleted
    <3> QED
      BY <1>2, <1>4, <1>5, <3>1 DEF KnownInv
  <2>2. CASE pc'[t] # "del"
    <3>1. (Lstat(t) \/ Md5(t)) /\ pc[t] \in {"lstat", "md5"} /\ loc[t].found
      BY <1>7, <2>2, Flow DEF Lstat, Md5
    <3> QED
      BY <1>2, <1>4, <1>5, <3>1 DEF KnownInv
  <2> QED
    BY <2>1, <2>2
<1>8. ASSUME pc'[t] \in {"alert_created", "alert_changed"} PROVE db'[f] # << >>
  <2>1. CASE pc'[t] = "alert_created"
    <3>1. Insert(t) /\ pc[t] = "insert"
      BY <2>1, Flow DEF Insert
    <3>2. db[f] = << >>
      BY <1>2, <3>1 DEF RowInv, FoundInv
    <3> QED
      BY <1>2, <3>1, <3>2, RowWritten
  <2>2. CASE pc'[t] = "alert_changed"
    <3>1. Update(t) /\ pc[t] = "update"
      BY <2>2, Flow DEF Update
    <3>2. db[f] # << >>
      BY <1>2, <3>1 DEF KnownInv
    <3> QED
      BY <1>2, <3>1, <3>2, RowWritten
  <2> QED
    BY <1>8, <2>1, <2>2
<1>9. ASSUME NEW u \in Threads PROVE u # t => pc'[u] = "idle"
  BY <1>1
<1> QED
  BY <1>3, <1>6, <1>7, <1>8, <1>9 DEF KnownInv

LEMMA KnownStep ==
  ASSUME DBMayFail = FALSE
  PROVE  /\ TypeInv /\ OneAnalyst /\ RowInv /\ TimesInv /\ KnownInv /\ [Next]_vars
         => KnownInv'
<1> SUFFICES ASSUME TypeInv, OneAnalyst, RowInv, TimesInv, KnownInv, [Next]_vars
             PROVE  KnownInv'
  OBVIOUS
<1> USE DEF TypeInv, TypeOK, control, environ, tasks, timers
<1>1. ASSUME NEW t \in Threads, Analysis(t) PROVE KnownInv'
  BY <1>1, KnownAnalysis
<1>2. ASSUME UNCHANGED <<pc, loc, db>>, clock' \in {clock, clock + 1} PROVE KnownInv'
  <2>1. ASSUME NEW f \in Files, db[f] # << >>, Old(f) PROVE Old(f)'
    <3>1. Stamp(f)' = Stamp(f) /\ Stamp(f) \in Nat
      BY <1>2, <2>1, StampType DEF Stamp
    <3> QED
      BY <1>2, <2>1, <3>1, IntervalAssumption DEF Old
  <2> QED
    BY <1>2, <2>1 DEF KnownInv
<1>3. ASSUME NEW t \in Threads, NEW f \in Files, do_analysis(t, f), UNCHANGED <<db, clock>>
      PROVE  KnownInv'
  <2>1. CASE UNCHANGED <<pc, loc>>
    BY <1>2, <1>3, <2>1
  <2>2. CASE ~UNCHANGED <<pc, loc>>
    <3>1. \A g \in Files : Old(g)' <=> Old(g)
      BY <1>3 DEF Old, Stamp
    <3>2. /\ pc'[t] \in {"cancel", "lstat"} /\ loc'[t].name = f
          /\ \A u \in Threads \ {t} : pc'[u] = pc[u] /\ loc'[u] = loc[u]
          /\ pc'[t] = "lstat" /\ loc'[t].found =>
               db[f] # << >> /\ loc'[t].sum = Head(db[f]).md5sum /\ Old(f)
      BY <1>3, <2>2, EntryFinds
    <3> SUFFICES ASSUME NEW u \in Threads, NEW g \in Files, loc'[u].name = g
                 PROVE  /\ pc'[u] \in {"lstat", "md5"} /\ loc'[u].found =>
                             /\ db'[g] # << >> /\ loc'[u].sum = Head(db'[g]).md5sum
                             /\ Old(g)'
                        /\ pc'[u] \in {"update", "alert_deleted", "del"} =>
                             db'[g] # << >> /\ Old(g)'
                        /\ pc'[u] \in {"alert_created", "alert_changed"} => db'[g] # << >>
      BY DEF KnownInv
    <3>3. CASE u = t
      BY <1>3, <3>1, <3>2, <3>3
    <3>4. CASE u # t
      <4>1. pc'[u] = pc[u] /\ loc'[u] = loc[u] /\ db' = db
        BY <1>3, <3>2, <3>4
      <4>2. /\ pc[u] \in {"lstat", "md5"} /\ loc[u].found =>
                 db[g] # << >> /\ loc[u].sum = Head(db[g]).md5sum /\ Old(g)
            /\ pc[u] \in {"update", "alert_deleted", "del"} => db[g] # << >> /\ Old(g)
            /\ pc[u] \in {"alert_created", "alert_changed"} => db[g] # << >>
        BY <4>1 DEF KnownInv
      <4> HIDE DEF TypeInv, TypeOK
      <4> QED
        BY <3>1, <4>1, <4>2
    <3> QED
      BY <3>3, <3>4
  <2> QED
    BY <2>1, <2>2
<1>4. ASSUME NEW f \in Files, ScanFile(f) PROVE KnownInv'
  BY <1>2, <1>3, <1>4 DEF ScanFile, Threads
<1>5. CASE Dequeue
  <2>1. Head(anlysis_queue) \in Files
    BY <1>5 DEF Dequeue
  <2> QED
    BY <1>3, <1>5, <2>1 DEF Dequeue, Threads
<1>6. CASE Start \/ AddWatch \/ StartThreads \/ Watch \/ UNCHANGED vars
  BY <1>2, <1>6 DEF Start, AddWatch, StartThreads, Watch, vars
<1>7. CASE SweepStart \/ SweepEnd \/ \E timer \in due : DelayCheck(timer)
  BY <1>2, <1>7 DEF SweepStart, SweepEnd, DelayCheck
<1>8. CASE Tick \/ \E f \in Files : Change(f)
  BY <1>2, <1>8 DEF Tick, Change
<1>9. CASE Crash
  BY <1>9 DEF Crash, KnownInv
<1> QED
  BY <1>1, <1>4, <1>5, <1>6, <1>7, <1>8, <1>9 DEF Next, Step, Waiting
-------------------------------------------------------------------------------
(* How the table comes to agree with the disk: what a call has read is what   *)
(* is there unless the name is dirty again, it writes what it has read, and *)
(* wherever it has nothing to write the two agree already.                  *)
SyncInv ==
  /\ \A t \in Threads, f \in Files : loc[t].name = f =>
       /\ pc[t] = "lstat" => loc[t].checksum = EmptySum
       /\ pc[t] \in {"alert_deleted", "del"} => loc[t].stat = Absent
       /\ view[f] = "seen" =>
            /\ pc[t] \in {"md5", "insert", "update", "alert_deleted", "del"} =>
                 loc[t].stat = disk[f]
            /\ pc[t] \in {"insert", "update"} => loc[t].checksum = SumOf(disk[f])
            /\ pc[t] \in {"cancel", "add", "set_task",
                          "alert_created", "alert_changed", "del_task"} => InSync(f)
  /\ \A f \in Files : view[f] = "seen" => phase \in {"scan", "run"}
  /\ DbInSync

LEMMA SyncAnalysis ==
  ASSUME DBMayFail = FALSE, TypeInv, OneAnalyst, RowInv, KnownInv, SyncInv,
         NEW t \in Threads, Analysis(t)
  PROVE  SyncInv'
<1> USE DEF TypeInv, TypeOK
<1>1. /\ pc[t] # "idle" /\ loc[t].name \in Files
      /\ \A u \in Threads \ {t} : pc'[u] = pc[u] /\ loc'[u] = loc[u] /\ pc[u] = "idle"
  BY OneAtWork
<1>2. PICK f \in Files : f = loc[t].name
  BY <1>1
<1>3. /\ pc'[t] # "idle" => loc'[t].name = f
      /\ pc'[t] = "idle" => loc'[t].name = NoFile
  BY <1>2, OneAtWork
<1>4. /\ UNCHANGED <<disk, phase>>
      /\ Lstat(t) => view' = [view EXCEPT ![f] = "seen"] /\ UNCHANGED db
      /\ ~Lstat(t) => UNCHANGED view
  BY <1>2 DEF Analysis, CancelOld, AddTask, SetTask, Lstat, Md5, Insert, AlertCreated,
         AlertDeleted, Del, Update, AlertChanged, DelTask, Execute, Alert, environ, control
<1>5. \A g \in Files : db'[g] = db[g] => (InSync(g)' <=> InSync(g))
  BY <1>4 DEF InSync
<1>6. UNCHANGED db \/ Insert(t) \/ Update(t) \/ Del(t)
  BY RowChange
<1>7. \A g \in Files \ {f} : db'[g] = db[g] /\ view'[g] = view[g]
  <2>1. \A g \in Files \ {f} : db'[g] = db[g]
    BY <1>2, RowChange
  <2> QED
    BY <1>4, <2>1
<1>8. NewRow(t).md5sum = loc[t].checksum
  BY DEF NewRow
<1>9. pc'[t] # "lstat"
  BY Flow
<1>10. ASSUME pc'[t] \in {"alert_deleted", "del"} PROVE loc'[t].stat = Absent
  <2>1. CASE pc'[t] = "alert_deleted"
    BY <2>1, Flow
  <2>2. CASE pc'[t] = "del"
    <3>1. AlertDeleted(t)
      BY <2>2, Flow
    <3> QED
      BY <1>2, <3>1 DEF AlertDeleted, SyncInv
  <2> QED
    BY <1>10, <2>1, <2>2
(* What the thread has read, after each of its two looks at the file.        *)
<1>11. ASSUME Lstat(t)
       PROVE  /\ view'[f] = "seen" /\ pc[t] = "lstat"
              /\ pc'[t] # "idle" => /\ loc'[t].stat = disk[f]
                                    /\ loc'[t].checksum = EmptySum
  <2>1. view'[f] = "seen" /\ pc[t] = "lstat"
    BY <1>4, <1>11 DEF Lstat
  <2> QED
    BY <1>2, <1>11, <2>1, ReadKept DEF SyncInv
<1>12. ASSUME Md5(t), view'[f] = "seen", pc'[t] # "idle"
       PROVE  /\ loc'[t].stat = disk[f] /\ disk[f] \in Contents
              /\ loc'[t].checksum = SumOf(disk[f])
  <2>1. pc[t] = "md5" /\ view[f] = "seen"
    BY <1>4, <1>12 DEF Md5, Lstat
  <2>2. loc[t].stat = disk[f] /\ disk[f] \in Contents
    BY <1>2, <2>1 DEF SyncInv, BusyLocals
  <2> QED
    BY <1>2, <1>12, <2>2, ReadKept DEF SumOf
<1>13. ASSUME view'[f] = "seen",
              pc'[t] \in {"md5", "insert", "update", "alert_deleted", "del"}
       PROVE  loc'[t].stat = disk'[f]
  <2>1. CASE Lstat(t)
    BY <1>4, <1>11, <1>13, <2>1
  <2>2. CASE Md5(t)
    BY <1>4, <1>12, <1>13, <2>2
  <2>3. CASE ~Lstat(t) /\ ~Md5(t)
    <3>1. AlertDeleted(t)
      BY <1>13, <2>3, Flow
    <3> QED
      BY <1>2, <1>4, <1>13, <2>3, <3>1 DEF AlertDeleted, SyncInv
  <2> QED
    BY <2>1, <2>2, <2>3
<1>14. ASSUME view'[f] = "seen", pc'[t] \in {"insert", "update"}
       PROVE  loc'[t].checksum = SumOf(disk'[f])
  <2>1. CASE Lstat(t) /\ disk[f] \notin Contents
    BY <1>4, <1>11, <1>14, <2>1 DEF SumOf
  <2>2. CASE Md5(t)
    BY <1>4, <1>12, <1>14, <2>2
  <2> QED
    BY <1>2, <1>14, <2>1, <2>2, Flow
<1>15. ASSUME view'[f] = "seen",
              pc'[t] \in {"add", "set_task", "alert_created", "alert_changed", "del_task", "idle"}
       PROVE  InSync(f)'
  <2>1. CASE pc'[t] \in {"add", "set_task", "idle"} \/ AlertChanged(t)
    <3>1. pc[t] \in {"cancel", "add", "set_task", "alert_created", "alert_changed", "del_task"}
          /\ ~Lstat(t) /\ UNCHANGED db
      <4>1. CancelOld(t) \/ AddTask(t) \/ SetTask(t) \/ AlertCreated(t) \/ DelTask(t)
            \/ AlertChanged(t)
        BY <2>1, Flow
      <4> QED
        BY <4>1 DEF CancelOld, AddTask, SetTask, AlertCreated, DelTask, AlertChanged, Alert, Lstat
    <3> QED
      BY <1>2, <1>4, <1>5, <1>15, <3>1 DEF SyncInv
  <2>2. CASE Insert(t)
    <3>1. pc[t] = "insert" /\ view[f] = "seen"
      BY <1>4, <1>15, <2>2 DEF Insert, Lstat
    <3>2. db[f] = << >> /\ loc[t].checksum = SumOf(disk[f])
      BY <1>2, <3>1 DEF SyncInv, RowInv, FoundInv
    <3>3. db'[f] # << >> /\ Head(db'[f]) = NewRow(t)
      BY <1>2, <2>2, <3>2, RowWritten
    <3> QED
      BY <1>4, <1>8, <3>2, <3>3 DEF InSync
  <2>3. CASE Update(t)
    <3>1. pc[t] = "update" /\ view[f] = "seen"
      BY <1>4, <1>15, <2>3 DEF Update, Lstat
    <3>2. db[f] # << >> /\ loc[t].checksum = SumOf(disk[f])
      BY <1>2, <3>1 DEF SyncInv, KnownInv
    <3>3. db'[f] # << >> /\ Head(db'[f]) = NewRow(t)
      BY <1>2, <2>3, <3>2, RowWritten
    <3> QED
      BY <1>4, <1>8, <3>2, <3>3 DEF InSync
  <2>4. CASE Del(t)
    <3>1. pc[t] = "del" /\ view[f] = "seen"
      BY <1>4, <1>15, <2>4 DEF Del, Lstat
    <3>2. disk[f] = Absent
      BY <1>2, <3>1 DEF SyncInv
    <3>3. db'[f] = << >>
      BY <1>2, <2>4, RowWritten
    <3> QED
      BY <1>4, <3>2, <3>3 DEF InSync
  <2>5. CASE /\ pc'[t] = "del_task"
             /\ (Lstat(t) /\ disk[f] \notin Contents) \/ Md5(t)
             /\ loc[t].found /\ loc'[t].checksum = loc[t].sum
    <3>1. pc[t] \in {"lstat", "md5"} /\ UNCHANGED db
      BY <2>5 DEF Lstat, Md5
    <3>2. db[f] # << >> /\ loc[t].sum = Head(db[f]).md5sum
      BY <1>2, <2>5, <3>1 DEF KnownInv
    <3>3. loc'[t].checksum = SumOf(disk[f])
      <4>1. CASE Lstat(t) /\ disk[f] \notin Contents
        BY <1>11, <2>5, <4>1 DEF SumOf
      <4>2. CASE Md5(t)
        BY <1>12, <1>15, <2>5, <4>2
      <4> QED
        BY <2>5, <4>1, <4>2
    <3> QED
      BY <1>4, <2>5, <3>1, <3>2, <3>3 DEF InSync
  <2> QED
    BY <1>2, <1>15, <2>1, <2>2, <2>3, <2>4, <2>5, Flow
<1>16. DbInSync'
  <2> SUFFICES ASSUME NEW g \in Files, view'[g] = "seen", \A u \in Threads : loc'[u].name # g
               PROVE  InSync(g)'
    BY DEF DbInSync
  <2>1. CASE g = f
    <3>1. pc'[t] = "idle"
      BY <1>3, <2>1
    <3> QED
      BY <1>15, <2>1, <3>1
  <2>2. CASE g # f
    <3>1. \A u \in Threads : loc[u].name # g
      BY <1>1, <1>2, <2>2
    <3> QED
      BY <1>5, <1>7, <2>2, <3>1 DEF SyncInv, DbInSync
  <2> QED
    BY <2>1, <2>2
<1>17. \A g \in Files : view'[g] = "seen" => phase' \in {"scan", "run"}
  <2>1. phase \in {"scan", "run"}
    BY <1>1 DEF OneAnalyst, Threads
  <2> QED
    BY <1>4, <2>1
<1>18. ASSUME NEW u \in Threads, NEW g \in Files, loc'[u].name = g
       PROVE  /\ pc'[u] = "lstat" => loc'[u].checksum = EmptySum
              /\ pc'[u] \in {"alert_deleted", "del"} => loc'[u].stat = Absent
              /\ view'[g] = "seen" =>
                   /\ pc'[u] \in {"md5", "insert", "update", "alert_deleted", "del"} =>
                        loc'[u].stat = disk'[g]
                   /\ pc'[u] \in {"insert", "update"} => loc'[u].checksum = SumOf(disk'[g])
                   /\ pc'[u] \in {"cancel", "add", "set_task", "alert_created",
                                  "alert_changed", "del_task"} => InSync(g)'
  <2>1. CASE u = t
    <3>1. pc'[t] # "idle" => g = f
      BY <1>3, <1>18, <2>1
    <3>2. pc'[t] \notin {"lstat", "cancel"}
      BY Flow
    <3> QED
      BY <1>10, <1>13, <1>14, <1>15, <2>1, <3>1, <3>2
  <2>2. CASE u # t
    BY <1>1, <2>2
  <2> QED
    BY <2>1, <2>2
<1> QED
  BY <1>16, <1>17, <1>18 DEF SyncInv

(* A step that leaves what SyncInv speaks of, or starts a process.          *)
LEMMA SyncKept ==
  ASSUME SyncInv, UNCHANGED <<pc, loc, db, view, disk>>,
         UNCHANGED phase \/ phase' \in {"scan", "run"} \/ phase \notin {"scan", "run"}
  PROVE  SyncInv'
<1>1. \A g : InSync(g)' <=> InSync(g)
  BY DEF InSync
<1>2. \A g \in Files : view'[g] = "seen" => phase' \in {"scan", "run"}
  BY DEF SyncInv
<1>3. DbInSync'
  BY <1>1 DEF SyncInv, DbInSync
<1> QED
  BY <1>1, <1>2, <1>3 DEF SyncInv

(* A changed file is dirty, and where it is not there is no file read yet.    *)
LEMMA SyncChange ==
  ASSUME TypeInv, SyncInv, NEW f \in Files, Change(f)
  PROVE  SyncInv'
<1> USE DEF TypeInv, TypeOK
<1>1. /\ UNCHANGED <<pc, loc, db, phase>>
      /\ \A g \in Files : view'[g] = "seen" =>
           view[g] = "seen" /\ disk'[g] = disk[g] /\ phase \in {"scan", "run"}
  BY DEF Change, SyncInv, control
<1>2. \A g \in Files : disk'[g] = disk[g] => (InSync(g)' <=> InSync(g))
  BY <1>1 DEF InSync
<1>3. DbInSync'
  BY <1>1, <1>2 DEF SyncInv, DbInSync
<1>4. ASSUME NEW t \in Threads, NEW g \in Files, loc'[t].name = g
      PROVE  /\ pc'[t] = "lstat" => loc'[t].checksum = EmptySum
             /\ pc'[t] \in {"alert_deleted", "del"} => loc'[t].stat = Absent
             /\ view'[g] = "seen" =>
                  /\ pc'[t] \in {"md5", "insert", "update", "alert_deleted", "del"} =>
                       loc'[t].stat = disk'[g]
                  /\ pc'[t] \in {"insert", "update"} => loc'[t].checksum = SumOf(disk'[g])
                  /\ pc'[t] \in {"cancel", "add", "set_task", "alert_created",
                                 "alert_changed", "del_task"} => InSync(g)'
  BY <1>1, <1>2, <1>4 DEF SyncInv
<1> QED
  BY <1>1, <1>3, <1>4 DEF SyncInv

(* No call was at work when one begins, so the row it finds is in step.       *)
LEMMA SyncEntry ==
  ASSUME DBMayFail = FALSE, TypeInv, TimesInv, HeldInv, SyncInv,
         NEW t \in Threads, NEW f \in Files, do_analysis(t, f),
         \A u \in Threads : pc[u] = "idle",
         UNCHANGED <<db, clock, view, disk, phase>>
  PROVE  SyncInv'
<1> USE DEF TypeInv, TypeOK
<1>1. CASE UNCHANGED <<pc, loc>>
  BY <1>1, SyncKept
<1>2. CASE ~UNCHANGED <<pc, loc>>
  <2>1. /\ pc'[t] \in {"cancel", "lstat"} /\ loc'[t].name = f
        /\ loc'[t].checksum = EmptySum
        /\ \A u \in Threads \ {t} : pc'[u] = pc[u] /\ loc'[u] = loc[u]
    BY <1>2, EntryFinds
  <2>2. \A u \in Threads : loc[u].name = NoFile /\ NoFile \notin Files
    BY ValuesAssumption DEF HeldInv, Busy
  <2>3. \A g \in Files : (InSync(g)' <=> InSync(g)) /\ (view[g] = "seen" => InSync(g))
    <3>1. \A g \in Files : InSync(g)' <=> InSync(g)
      BY DEF InSync
    <3>2. \A g \in Files : view[g] = "seen" => InSync(g)
      BY <2>2 DEF SyncInv, DbInSync
    <3> QED
      BY <3>1, <3>2
  <2>4. DbInSync'
    BY <2>3 DEF DbInSync
  <2>5. \A g \in Files : view'[g] = "seen" => phase' \in {"scan", "run"}
    BY DEF SyncInv
  <2>6. ASSUME NEW u \in Threads, NEW g \in Files, loc'[u].name = g
        PROVE  u = t /\ g = f
    BY <2>1, <2>2, <2>6
  <2> QED
    BY <2>1, <2>3, <2>4, <2>5, <2>6 DEF SyncInv
<1> QED
  BY <1>1, <1>2

LEMMA SyncStep ==
  ASSUME DBMayFail = FALSE
  PROVE  /\ TypeInv /\ OneAnalyst /\ RowInv /\ TimesInv /\ HeldInv /\ KnownInv /\ SyncInv
         /\ [Next]_vars
         => SyncInv'
<1> SUFFICES ASSUME TypeInv, OneAnalyst, RowInv, TimesInv, HeldInv, KnownInv, SyncInv,
                    [Next]_vars
             PROVE  SyncInv'
  OBVIOUS
<1> USE DEF TypeInv, TypeOK, control, environ
<1>1. ASSUME NEW t \in Threads, Analysis(t) PROVE SyncInv'
  BY <1>1, SyncAnalysis
<1>2. ASSUME NEW f \in Files, ScanFile(f) PROVE SyncInv'
  <2>1. \A u \in Threads : pc[u] = "idle"
    BY <1>2 DEF ScanFile, OneAnalyst, Threads
  <2>2. CASE UNCHANGED <<pc, loc>>
    BY <1>2, <2>2, SyncKept DEF ScanFile
  <2>3. CASE do_analysis("main", f)
    BY <1>2, <2>1, <2>3, SyncEntry DEF ScanFile, Threads
  <2> QED
    BY <1>2, <2>2, <2>3 DEF ScanFile
<1>3. CASE Dequeue
  <2>1. \A u \in Threads : pc[u] = "idle"
    BY <1>3 DEF Dequeue, OneAnalyst, Threads
  <2>2. Head(anlysis_queue) \in Files
    BY <1>3 DEF Dequeue
  <2> QED
    BY <1>3, <2>1, <2>2, SyncEntry DEF Dequeue, Threads
<1>4. CASE Start \/ AddWatch \/ StartThreads
  BY <1>4, SyncKept DEF Start, AddWatch, StartThreads
<1>5. CASE Watch \/ Tick \/ UNCHANGED vars
  BY <1>5, SyncKept DEF Watch, Tick, vars
<1>6. CASE SweepStart \/ SweepEnd \/ \E timer \in due : DelayCheck(timer)
  BY <1>6, SyncKept DEF SweepStart, SweepEnd, DelayCheck
<1>7. ASSUME NEW f \in Files, Change(f) PROVE SyncInv'
  BY <1>7, SyncChange
<1>8. CASE Crash
  BY <1>8 DEF Crash, SyncInv, DbInSync
<1> QED
  BY <1>1, <1>2, <1>3, <1>4, <1>5, <1>6, <1>7, <1>8 DEF Next, Step, Waiting

(* The table agrees with the disk wherever the file was read after its last   *)
(* change and no call of do_analysis is at work on it, as long as no         *)
(* statement fails.                                                        *)
THEOREM TableAgreesWithDisk ==
  ASSUME DBMayFail = FALSE
  PROVE  Spec => []DbInSync
<1> DEFINE Inv == /\ TypeInv /\ OneAnalyst /\ HandlesInv /\ RowInv /\ TimesInv /\ TrackInv
                  /\ KnownInv /\ SyncInv
<1>1. Init => Inv
  <2>1. Init => KnownInv /\ SyncInv
    BY DEF Init, FreshProcess, KnownInv, SyncInv, DbInSync, NoLocals
  <2>2. Init => TypeInv /\ OneAnalyst /\ TrackInv
    BY InitType, ValuesAssumption
       DEF TypeInv, BusyLocals, Busy, OneAnalyst, Init, FreshProcess, Threads, TrackInv,
           HeldInv, TaskmapTracks, NoLocals
  <2> QED
    BY <2>1, <2>2, HandlesInit, RowsInit, TimesInit
<1>2. Inv /\ [Next]_vars => Inv'
  BY TypeStep, OneAnalystStep, HandlesStep, RowsStep, TimesStep, TrackStep, KnownStep,
     SyncStep DEF TrackInv
<1>3. Inv => DbInSync
  BY DEF SyncInv
<1> QED
  BY <1>1, <1>2, <1>3, PTL DEF Spec
-------------------------------------------------------------------------------
(* FileAnalysis implements AlertLedger.  Only the thread that is at work makes *)
(* the record and the alert of a file differ from its row and from told.     *)

Idle == \A t \in Threads : pc[t] = "idle"

(* What the ledger shows of a file at which thread t is at work, and of one  *)
(* at which nobody is.                                                     *)
RecordAt(f, label) == IF db[f] = << >> \/ label = "del" THEN NoTask ELSE Stamp(f)

ToldAt(f, label) ==
  IF label = "alert_created" THEN "CREATED"
  ELSE IF label = "alert_changed" THEN "CHANGED"
  ELSE told[f]

LEMMA ShownBusy ==
  ASSUME HeldInv, NEW t \in Threads, \A u \in Threads \ {t} : pc[u] = "idle",
         NEW f \in Files, loc[t].name = f
  PROVE  /\ RecordOf(f) = RecordAt(f, pc[t]) /\ ToldOf(f) = ToldAt(f, pc[t])
         /\ \A g \in Files \ {f} : RecordOf(g) = RecordAt(g, "idle") /\ ToldOf(g) = told[g]
<1>1. \A u \in Threads \ {t} : loc[u].name = NoFile /\ NoFile \notin Files
  BY ValuesAssumption DEF HeldInv, Busy
<1>2. \A label : At(f, label) <=> pc[t] = label
  BY <1>1 DEF At
<1>3. \A g \in Files \ {f} : \A label : ~At(g, label)
  BY <1>1 DEF At
<1> QED
  BY <1>2, <1>3 DEF RecordOf, ToldOf, RecordAt, ToldAt, Stamp

LEMMA ShownIdle ==
  ASSUME Idle, NEW f \in Files
  PROVE  RecordOf(f) = RecordAt(f, "idle") /\ ToldOf(f) = told[f]
BY DEF Idle, At, RecordOf, ToldOf, RecordAt, Stamp

(* The record and the alert of no file become another, or those of one.       *)
LEMMA ShownSame ==
  ASSUME \A g \in Files : RecordOf(g)' = RecordOf(g) /\ ToldOf(g)' = ToldOf(g),
         UNCHANGED <<clock, crashes>>
  PROVE  UNCHANGED Ledger!ledger
BY DEF Ledger!ledger

LEMMA ShownGiven ==
  ASSUME NEW f \in Files, NEW level, NEW stamp,
         \A g \in Files \ {f} : RecordOf(g)' = RecordOf(g) /\ ToldOf(g)' = ToldOf(g),
         RecordOf(f)' = stamp, ToldOf(f)' = level, UNCHANGED <<clock, crashes>>
  PROVE  Ledger!Give(f, level, stamp)
BY DEF Ledger!Give

LEMMA LedgerAnalysis ==
  ASSUME DBMayFail = FALSE, TypeInv, OneAnalyst, RowInv, TimesInv, HeldInv, HeldInv',
         KnownInv, NEW t \in Threads, Analysis(t)
  PROVE  [Ledger!LedgerNext]_(Ledger!ledger)
<1> USE DEF TypeInv, TypeOK
<1>1. /\ pc[t] # "idle" /\ loc[t].name \in Files /\ clock' = clock /\ clock \in Nat
      /\ \A u \in Threads \ {t} : pc'[u] = pc[u] /\ loc'[u] = loc[u] /\ pc[u] = "idle"
  BY OneAtWork
<1>2. PICK f \in Files : f = loc[t].name
  BY <1>1
<1>3. /\ pc'[t] # "idle" => loc'[t].name = f
      /\ pc'[t] = "idle" => loc'[t].name = NoFile
  BY <1>2, OneAtWork
<1>4. /\ RecordOf(f) = RecordAt(f, pc[t]) /\ ToldOf(f) = ToldAt(f, pc[t])
      /\ \A g \in Files \ {f} : RecordOf(g) = RecordAt(g, "idle") /\ ToldOf(g) = told[g]
  BY <1>1, <1>2, ShownBusy
<1>5. \A g \in Files \ {f} : db'[g] = db[g] /\ told'[g] = told[g]
  <2>1. \A g \in Files \ {f} : db'[g] = db[g]
    BY <1>2, RowChange
  <2>2. UNCHANGED told \/ \E level : told' = [told EXCEPT ![f] = level]
    BY <1>2 DEF Analysis, CancelOld, AddTask, SetTask, Lstat, Md5, Insert, AlertCreated,
           AlertDeleted, Del, Update, AlertChanged, DelTask, Execute, Alert
  <2> QED
    BY <2>1, <2>2
<1>6. UNCHANGED <<clock, crashes>>
  BY DEF Analysis, CancelOld, AddTask, SetTask, Lstat, Md5, Insert, AlertCreated,
         AlertDeleted, Del, Update, AlertChanged, DelTask, Execute, Alert, environ, control
<1>7. /\ RecordOf(f)' = IF db'[f] = << >> \/ pc'[t] = "del" THEN NoTask ELSE Stamp(f)'
      /\ ToldOf(f)' = IF pc'[t] = "alert_created" THEN "CREATED"
                      ELSE IF pc'[t] = "alert_changed" THEN "CHANGED" ELSE told'[f]
      /\ \A g \in Files \ {f} : RecordOf(g)' = RecordAt(g, "idle")' /\ ToldOf(g)' = told'[g]
  <2>1. \A u \in Threads \ {t} : pc'[u] = "idle"
    BY <1>1
  <2>2. \A u \in Threads \ {t} : loc'[u].name = NoFile /\ NoFile \notin Files
    BY <2>1, ValuesAssumption DEF HeldInv, Busy
  <2>3. \A g \in Files \ {f} : \A label : ~At(g, label)'
    BY <1>3, <2>2, ValuesAssumption DEF At
  <2>4. pc'[t] # "idle" => \A label : At(f, label)' <=> pc'[t] = label
    BY <1>3, <2>2 DEF At
  <2>5. pc'[t] = "idle" => \A label : ~At(f, label)'
    BY <1>3, <2>2, ValuesAssumption DEF At
  <2>6. pc'[t] = "idle" \/ pc'[t] # "idle"
    OBVIOUS
  <2> QED
    BY <2>3, <2>4, <2>5, <2>6 DEF RecordOf, ToldOf, RecordAt, Stamp
<1>8. \A g \in Files \ {f} : RecordOf(g)' = RecordOf(g) /\ ToldOf(g)' = ToldOf(g)
  <2>1. \A g \in Files \ {f} : RecordAt(g, "idle")' = RecordAt(g, "idle")
    BY <1>5 DEF RecordAt, Stamp
  <2> QED
    BY <1>4, <1>5, <1>7, <2>1
<1>9. NewRow(t).timestamp = clock
  BY DEF NewRow
<1>10. CASE Insert(t)
  <2>1. db[f] = << >> /\ pc[t] = "insert" /\ pc'[t] = "alert_created"
    BY <1>2, <1>10 DEF Insert, Goto, RowInv, FoundInv
  <2>2. db'[f] # << >> /\ Stamp(f)' = clock
    BY <1>2, <1>9, <1>10, <2>1, RowWritten DEF Stamp
  <2>3. RecordOf(f) = NoTask /\ RecordOf(f)' = clock /\ ToldOf(f)' = "CREATED"
    BY <1>4, <1>7, <2>1, <2>2 DEF RecordAt
  <2>4. Ledger!Give(f, "CREATED", clock)
    BY <1>6, <1>8, <2>3, ShownGiven
  <2> QED
    BY <2>3, <2>4 DEF Ledger!LedgerNext, Ledger!Created, Ledger!Known
<1>11. CASE Update(t)
  <2>1. db[f] # << >> /\ Old(f) /\ pc[t] = "update" /\ pc'[t] = "alert_changed"
    BY <1>2, <1>11 DEF Update, Goto, KnownInv
  <2>2. db'[f] # << >> /\ Stamp(f)' = clock
    BY <1>2, <1>9, <1>11, <2>1, RowWritten DEF Stamp
  <2>3. RecordOf(f) = Stamp(f) /\ RecordOf(f)' = clock /\ ToldOf(f)' = "CHANGED"
    BY <1>4, <1>7, <2>1, <2>2 DEF RecordAt
  <2>4. Stamp(f) # NoTask
    BY <2>1, StampType, ValuesAssumption
  <2>5. Ledger!Give(f, "CHANGED", clock)
    BY <1>6, <1>8, <2>3, ShownGiven
  <2> QED
    BY <2>1, <2>3, <2>4, <2>5
       DEF Ledger!LedgerNext, Ledger!Changed, Ledger!Settled, Ledger!Known, Old
<1>12. CASE AlertDeleted(t)
  <2>1. db[f] # << >> /\ Old(f) /\ pc[t] = "alert_deleted" /\ pc'[t] = "del"
    BY <1>2, <1>12 DEF AlertDeleted, Goto, KnownInv
  <2>2. told'[f] = "DELETED"
    BY <1>2, <1>12 DEF AlertDeleted, Alert
  <2>3. RecordOf(f) = Stamp(f) /\ RecordOf(f)' = NoTask /\ ToldOf(f)' = "DELETED"
    BY <1>4, <1>7, <2>1, <2>2 DEF RecordAt
  <2>4. Stamp(f) # NoTask
    BY <2>1, StampType, ValuesAssumption
  <2>5. Ledger!Give(f, "DELETED", NoTask)
    BY <1>6, <1>8, <2>3, ShownGiven
  <2> QED
    BY <2>1, <2>3, <2>4, <2>5
       DEF Ledger!LedgerNext, Ledger!Deleted, Ledger!Settled, Ledger!Known, Old
<1>13. CASE Del(t)
  <2>1. /\ db'[f] = << >> /\ pc[t] = "del" /\ pc'[t] = "del_task" /\ told' = told
    BY <1>2, <1>13, RowWritten DEF Del, Goto, Execute
  <2> QED
    BY <1>4, <1>6, <1>7, <1>8, <2>1, ShownSame DEF RecordAt, ToldAt
<1>14. CASE AlertCreated(t) \/ AlertChanged(t)
  <2>1. /\ db' = db
        /\ \/ pc[t] = "alert_created" /\ pc'[t] = "idle" /\ told'[f] = "CREATED"
           \/ pc[t] = "alert_changed" /\ pc'[t] = "del_task" /\ told'[f] = "CHANGED"
    BY <1>2, <1>14 DEF AlertCreated, AlertChanged, Alert, Goto, Return
  <2>2. Stamp(f)' = Stamp(f)
    BY <2>1 DEF Stamp
  <2> QED
    BY <1>4, <1>6, <1>7, <1>8, <2>1, <2>2, ShownSame DEF RecordAt, ToldAt
<1>15. CASE ~(Insert(t) \/ Update(t) \/ Del(t) \/ AlertCreated(t) \/ AlertChanged(t)
              \/ AlertDeleted(t))
  <2>1. db' = db /\ told' = told /\ pc[t] \notin {"alert_created", "alert_changed", "del"}
    BY <1>15 DEF Analysis, CancelOld, AddTask, SetTask, Lstat, Md5, DelTask
  <2>2. pc'[t] \notin {"alert_created", "alert_changed", "del"}
    BY <1>15, Flow
  <2>3. Stamp(f)' = Stamp(f)
    BY <2>1 DEF Stamp
  <2> QED
    BY <1>4, <1>6, <1>7, <1>8, <2>1, <2>2, <2>3, ShownSame DEF RecordAt, ToldAt
<1> QED
  BY <1>10, <1>11, <1>12, <1>13, <1>14, <1>15

(* A step that neither writes a row nor gives an alert.                      *)
LEMMA LedgerKept ==
  ASSUME UNCHANGED <<db, told, crashes>>,
         \A f \in Files, label \in {"alert_created", "alert_changed", "del"} :
           At(f, label)' <=> At(f, label),
         clock' = clock \/ clock' = clock + 1
  PROVE  [Ledger!LedgerNext]_(Ledger!ledger)
<1>1. \A g \in Files : RecordOf(g)' = RecordOf(g) /\ ToldOf(g)' = ToldOf(g)
  BY DEF RecordOf, ToldOf
<1>2. CASE clock' = clock
  BY <1>1, <1>2, ShownSame
<1>3. CASE clock' = clock + 1
  BY <1>1, <1>3 DEF Ledger!LedgerNext, Ledger!TimePasses
<1> QED
  BY <1>2, <1>3

LEMMA LedgerEntry ==
  ASSUME TypeInv, HeldInv, NEW t \in Threads, NEW f \in Files, do_analysis(t, f), Idle,
         UNCHANGED <<db, told, crashes, clock>>
  PROVE  [Ledger!LedgerNext]_(Ledger!ledger)
<1>1. \A u \in Threads :
        pc'[u] \notin {"alert_created", "alert_changed", "del"}
        /\ pc[u] \notin {"alert_created", "alert_changed", "del"}
  BY EntryCases DEF Idle
<1>2. \A g \in Files, label \in {"alert_created", "alert_changed", "del"} :
        ~At(g, label)' /\ ~At(g, label)
  BY <1>1 DEF At
<1> QED
  BY <1>2, LedgerKept

(* A death between the write of a row and its alert loses the alert, one      *)
(* between the alert of a deletion and the delete of the row leaves the row. *)
LEMMA LedgerCrash ==
  ASSUME TypeInv, OneAnalyst, TimesInv, HeldInv, KnownInv, Alerted, Crash
  PROVE  Ledger!Death
<1> USE DEF TypeInv, TypeOK
<1>1. Idle' /\ db' = db /\ told' = told /\ clock' = clock /\ crashes' = crashes + 1
  BY DEF Crash, Idle
<1>2. \A g \in Files : RecordOf(g)' = RecordAt(g, "idle")' /\ ToldOf(g)' = told'[g]
  BY <1>1 DEF Idle, At, RecordOf, ToldOf, RecordAt, Stamp
<1>3. \A g \in Files : RecordAt(g, "idle")' = RecordAt(g, "idle")
  BY <1>1 DEF RecordAt, Stamp
<1>4. \A g \in Files : RecordOf(g)' = RecordAt(g, "idle") /\ ToldOf(g)' = told[g]
  BY <1>1, <1>2, <1>3
<1>5. CASE Idle
  <2>1. \A g \in Files : RecordOf(g)' = RecordOf(g) /\ ToldOf(g)' = ToldOf(g)
    BY <1>4, <1>5, ShownIdle
  <2> QED
    BY <1>1, <2>1 DEF Ledger!Death
<1>6. CASE ~Idle
  <2>1. PICK t \in Threads : pc[t] # "idle"
    BY <1>6 DEF Idle
  <2>2. \A u \in Threads \ {t} : pc[u] = "idle"
    BY <2>1 DEF OneAnalyst, Threads
  <2>3. PICK f \in Files : loc[t].name = f
    BY <2>1 DEF BusyLocals, Busy
  <2>4. /\ RecordOf(f) = RecordAt(f, pc[t]) /\ ToldOf(f) = ToldAt(f, pc[t])
        /\ \A g \in Files \ {f} : RecordOf(g) = RecordAt(g, "idle") /\ ToldOf(g) = told[g]
    BY <2>2, <2>3, ShownBusy
  <2>5. \A g \in Files \ {f} : RecordOf(g)' = RecordOf(g) /\ ToldOf(g)' = ToldOf(g)
    BY <1>4, <2>4
  <2>6. CASE pc[t] \in {"alert_created", "alert_changed"}
    <3>1. db[f] # << >>
      BY <2>3, <2>6 DEF KnownInv
    <3>2. RecordOf(f) = Stamp(f) /\ Stamp(f) # NoTask /\ RecordOf(f)' = RecordOf(f)
      BY <1>4, <2>4, <2>6, <3>1, StampType, ValuesAssumption DEF RecordAt
    <3>3. told[f] \in {"none", "CREATED", "CHANGED", "DELETED"}
      BY DEF Levels
    <3>4. Ledger!AlertLost(f)
      BY <1>4, <2>5, <3>2, <3>3 DEF Ledger!AlertLost, Ledger!Known
    <3> QED
      BY <1>1, <3>4 DEF Ledger!Death
  <2>7. CASE pc[t] = "del"
    <3>1. db[f] # << >> /\ told[f] = "DELETED"
      BY <2>3, <2>7 DEF KnownInv, Alerted
    <3>2. Stamp(f) \in 0..clock
      BY <3>1, StampType DEF TimesInv
    <3>3. /\ RecordOf(f) = NoTask /\ RecordOf(f)' = Stamp(f)
          /\ ToldOf(f) = told[f] /\ ToldOf(f)' = told[f]
      BY <1>4, <2>4, <2>7, <3>1 DEF RecordAt, ToldAt
    <3>4. Ledger!RecordLeft(f)
      BY <2>5, <3>1, <3>2, <3>3 DEF Ledger!RecordLeft, Ledger!Known
    <3> QED
      BY <1>1, <3>4 DEF Ledger!Death
  <2>8. CASE pc[t] \notin {"alert_created", "alert_changed", "del"}
    <3>1. RecordOf(f)' = RecordOf(f) /\ ToldOf(f)' = ToldOf(f)
      BY <1>4, <2>4, <2>8 DEF RecordAt, ToldAt
    <3>2. \A g \in Files : RecordOf(g)' = RecordOf(g) /\ ToldOf(g)' = ToldOf(g)
      BY <2>5, <3>1
    <3> QED
      BY <1>1, <3>2 DEF Ledger!Death
  <2> QED
    BY <2>6, <2>7, <2>8
<1> QED
  BY <1>5, <1>6

LEMMA LedgerStep ==
  ASSUME DBMayFail = FALSE, TypeInv, OneAnalyst, RowInv, TimesInv, HeldInv, HeldInv',
         KnownInv, Alerted, [Next]_vars
  PROVE  [Ledger!LedgerNext]_(Ledger!ledger)
<1> USE DEF TypeInv, TypeOK, control, environ
<1> DEFINE Shown == [Ledger!LedgerNext]_(Ledger!ledger)
<1>1. ASSUME NEW t \in Threads, Analysis(t) PROVE Shown
  BY <1>1, LedgerAnalysis
<1>2. ASSUME UNCHANGED <<pc, loc, db, told, crashes>>, clock' = clock \/ clock' = clock + 1
      PROVE  Shown
  <2>1. \A f \in Files, label \in {"alert_created", "alert_changed", "del"} :
          At(f, label)' <=> At(f, label)
    BY <1>2 DEF At
  <2> QED
    BY <1>2, <2>1, LedgerKept
<1>3. ASSUME NEW f \in Files, ScanFile(f) PROVE Shown
  <2>1. Idle
    BY <1>3 DEF ScanFile, OneAnalyst, Threads, Idle
  <2>2. CASE UNCHANGED <<pc, loc>>
    BY <1>2, <1>3, <2>2 DEF ScanFile
  <2>3. CASE do_analysis("main", f)
    BY <1>3, <2>1, <2>3, LedgerEntry DEF ScanFile, Threads
  <2> QED
    BY <1>3, <2>2, <2>3 DEF ScanFile
<1>4. CASE Dequeue
  <2>1. Idle
    BY <1>4 DEF Dequeue, OneAnalyst, Threads, Idle
  <2>2. Head(anlysis_queue) \in Files
    BY <1>4 DEF Dequeue
  <2> QED
    BY <1>4, <2>1, <2>2, LedgerEntry DEF Dequeue, Threads
<1>5. CASE Start \/ AddWatch \/ StartThreads \/ Watch \/ UNCHANGED vars
  BY <1>2, <1>5 DEF Start, AddWatch, StartThreads, Watch, vars
<1>6. CASE SweepStart \/ SweepEnd \/ \E timer \in due : DelayCheck(timer)
  BY <1>2, <1>6 DEF SweepStart, SweepEnd, DelayCheck
<1>7. CASE Tick \/ \E f \in Files : Change(f)
  BY <1>2, <1>7 DEF Tick, Change
<1>8. CASE Crash
  BY <1>8, LedgerCrash DEF Ledger!LedgerNext
<1> QED
  BY <1>1, <1>3, <1>4, <1>5, <1>6, <1>7, <1>8 DEF Next, Step, Waiting

LEMMA LedgerStart == Init => Ledger!LedgerInit
<1> SUFFICES ASSUME Init PROVE Ledger!LedgerInit
  OBVIOUS
<1>1. Idle /\ TypeOK /\ crashes = 0 /\ told = [f \in Files |-> "none"]
  BY InitType DEF Init, FreshProcess, Idle
<1>2. \A f \in Files : RecordOf(f) \in {NoTask} \cup Nat /\ ToldOf(f) = "none"
  BY <1>1, ShownIdle, StampType DEF RecordAt
<1> QED
  BY <1>1, <1>2 DEF Ledger!LedgerInit, TypeOK

(* FileAnalysis implements AlertLedger as long as no statement fails: each    *)
(* change of the table and its alert are one step of the ledger, a death of   *)
(* the process costs one alert at most, and everything else does not show.   *)
THEOREM AlertsMatchTheTable ==
  ASSUME DBMayFail = FALSE
  PROVE  Spec => ImplementsLedger
<1> DEFINE Inv == /\ TypeInv /\ OneAnalyst /\ HandlesInv /\ RowInv /\ TimesInv /\ TrackInv
                  /\ KnownInv /\ Alerted
<1>1. Init => Inv
  <2>1. Init => KnownInv /\ Alerted
    BY DEF Init, FreshProcess, KnownInv, Alerted, NoLocals
  <2>2. Init => TypeInv /\ OneAnalyst /\ TrackInv
    BY InitType, ValuesAssumption
       DEF TypeInv, BusyLocals, Busy, OneAnalyst, Init, FreshProcess, Threads, TrackInv,
           HeldInv, TaskmapTracks, NoLocals
  <2> QED
    BY <2>1, <2>2, HandlesInit, RowsInit, TimesInit
<1>2. Inv /\ [Next]_vars => Inv'
  BY TypeStep, OneAnalystStep, HandlesStep, RowsStep, TimesStep, TrackStep, KnownStep,
     AlertedStep
<1>3. Inv /\ Inv' /\ [Next]_vars => [Ledger!LedgerNext]_(Ledger!ledger)
  BY LedgerStep DEF TrackInv
<1> QED
  BY <1>1, <1>2, <1>3, LedgerStart, PTL DEF Spec, ImplementsLedger, Ledger!LedgerSpec
===============================================================================
