----------------------------- MODULE AlertLedger -----------------------------
(***************************************************************************)
(* What the analysis of files promises to whoever reads the alerts: per     *)
(* file, one record that the file is known, changed together with the alert *)
(* that tells of it, and no second change of the record before an interval  *)
(* has passed ("frequency control" in README.md, alert_interval).  FileAnalysis *)
(* implements it, with the deaths of its process, as long as the database    *)
(* does not fail.                                                          *)
(***************************************************************************)
EXTENDS Integers

CONSTANTS Files, Interval, NoRecord

VARIABLES
  record,   \* when the record of a file was written; NoRecord if not known
  told,     \* the last alert of the file
  clock,
  deaths    \* of the process that gives the alerts

ledger == <<record, told, clock, deaths>>

Give(f, level, stamp) ==
  /\ record' = [record EXCEPT ![f] = stamp]
  /\ told' = [told EXCEPT ![f] = level]
  /\ UNCHANGED <<clock, deaths>>

Known(f) == record[f] # NoRecord

(* The record has stood for an interval, so it may change again.            *)
Settled(f) == Known(f) /\ clock >= record[f] + Interval

Created(f) == ~Known(f)  /\ Give(f, "CREATED", clock)
Changed(f) == Settled(f) /\ Give(f, "CHANGED", clock)
Deleted(f) == Settled(f) /\ Give(f, "DELETED", NoRecord)

TimePasses == clock' = clock + 1 /\ UNCHANGED <<record, told, deaths>>

(* A death costs the alert of one file at most, whose record has changed; or   *)
(* it leaves one record of a file whose deletion is alerted already, and will *)
(* be again.                                                               *)
AlertLost(f) ==
  /\ Known(f)
  /\ \E level \in {"none", "CREATED", "CHANGED", "DELETED"} :
       told' = [told EXCEPT ![f] = level]
  /\ UNCHANGED record

RecordLeft(f) ==
  /\ ~Known(f) /\ told[f] = "DELETED"
  /\ \E stamp \in 0..clock : record' = [record EXCEPT ![f] = stamp]
  /\ UNCHANGED told

Death ==
  /\ deaths' = deaths + 1 /\ UNCHANGED clock
  /\ \/ UNCHANGED <<record, told>>
     \/ \E f \in Files : AlertLost(f) \/ RecordLeft(f)

LedgerInit ==
  /\ deaths = 0
  /\ clock \in Nat
  /\ record \in [Files -> {NoRecord} \cup Nat]
  /\ told = [f \in Files |-> "none"]

LedgerNext ==
  \/ TimePasses \/ Death
  \/ \E f \in Files : Created(f) \/ Changed(f) \/ Deleted(f)

LedgerSpec == LedgerInit /\ [][LedgerNext]_ledger
===============================================================================
