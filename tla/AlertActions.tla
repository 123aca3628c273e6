----------------------------- MODULE AlertActions -----------------------------
(***************************************************************************)
(* The actions of an alert, send_mail and log_alert, as the analysis thread   *)
(* takes them, with what main logs at the same time, and the death and start  *)
(* of the process.  (src/monitor.cpp, with Mailman and FileLog.)             *)
(***************************************************************************)
EXTENDS Mailman, FileLog

CONSTANTS
  Rules,         \* the lists of actions an alert may have
  MaxAlerts, MaxErrors, MaxDeaths   \* bounds

ASSUME AlertActionsAssumption ==
  /\ Threads = {"main", "analysis"}
  /\ Rules \subseteq Seq({"mail", "log"})
  /\ MaxAlerts \in Nat /\ MaxErrors \in Nat /\ MaxDeaths \in Nat

VARIABLES
  up,            \* does the process run?
  todo,          \* the actions the alert has still to take
  alerts, errors, deaths   \* bounds

vars == <<mail, log, up, todo, alerts, errors, deaths>>

TypeOK ==
  /\ MailTypeOK /\ LogTypeOK
  /\ up \in BOOLEAN
  /\ todo \in Seq({"mail", "log"})

Init ==
  /\ MailInit /\ LogInit
  /\ up = TRUE /\ todo = << >> /\ alerts = 0 /\ errors = 0 /\ deaths = 0
-------------------------------------------------------------------------------
Running == up /\ UNCHANGED up

Free == at["analysis"] = "out" /\ pos = 0

(* Alerter::alert takes the actions of the rule one after the other.          *)
Alert ==
  /\ Running
  /\ Free /\ todo = << >>
  /\ alerts < MaxAlerts /\ alerts' = alerts + 1
  /\ todo' \in Rules
  /\ UNCHANGED <<mail, log, errors, deaths>>

Doing(action) == Free /\ todo # << >> /\ Head(todo) = action /\ todo' = Tail(todo)

(* send_mail: a mail that found no server is logged as not sent ...          *)
MailNotSent ==
  /\ Running
  /\ Doing("mail")
  /\ NoSocket \/ Refused
  /\ Log("analysis")
  /\ UNCHANGED <<alerts, errors, deaths>>

MailBegins ==
  /\ Running
  /\ Doing("mail")
  /\ Connect
  /\ UNCHANGED <<log, alerts, errors, deaths>>

(* ... and one that the server did not take is not.                         *)
MailGoesOn ==
  /\ Running
  /\ Dialogue \/ Finish \/ Mismatch
  /\ UNCHANGED <<log, todo, alerts, errors, deaths>>

MailServer ==
  /\ Running
  /\ Reply \/ HangUp
  /\ UNCHANGED <<log, todo, alerts, errors, deaths>>

LogAlert ==
  /\ Running
  /\ Doing("log")
  /\ Log("analysis")
  /\ UNCHANGED <<mail, alerts, errors, deaths>>

(* main logs an error of its own.                                          *)
LogError ==
  /\ Running
  /\ errors < MaxErrors /\ errors' = errors + 1
  /\ Log("main")
  /\ UNCHANGED <<mail, todo, alerts, deaths>>

(* The rotation gives its descriptor back and asks for another.              *)
Formater(t) ==
  /\ Running
  /\ \/ (Guard(t) \/ Count(t) \/ PutAway(t)) /\ UNCHANGED fds
     \/ Close(t) /\ fds' = IF opened THEN fds - 1 ELSE fds
     \/ Open(t, fds < FdLimit) /\ fds' = IF fds < FdLimit THEN fds + 1 ELSE fds
     \/ Write(t) /\ UNCHANGED fds
  /\ UNCHANGED <<pos, said, wire, server, failed, todo, alerts, errors, deaths>>

Passes ==
  /\ Second
  /\ UNCHANGED <<mail, up, todo, alerts, errors, deaths>>

(* The process ends, by a signal or by a SIGPIPE of the mail: what its threads *)
(* had still to do, the log of an alert whose mail killed it among it, is not  *)
(* done by anybody.                                                        *)
Dies ==
  /\ up /\ up' = FALSE
  /\ deaths' = deaths + 1
  /\ UNCHANGED <<mail, log, todo, alerts, errors>>

Killed == deaths < MaxDeaths /\ Dies

MailKills == Sigpipe /\ Dies

(* An operator may start it again, or not: the files are as they were.        *)
Restart ==
  /\ ~up /\ up' = TRUE
  /\ Over /\ fds' = 1 /\ failed' = 0
  /\ Reopened
  /\ todo' = << >>
  /\ UNCHANGED <<alerts, errors, deaths>>

Rest ==
  /\ up /\ Free /\ todo = << >> /\ at["main"] = "out"
  /\ UNCHANGED vars

Next ==
  \/ Alert \/ MailNotSent \/ MailBegins \/ MailGoesOn \/ MailServer \/ LogAlert
  \/ LogError \/ (\E t \in Threads : Formater(t)) \/ Passes
  \/ Killed \/ MailKills \/ Restart \/ Rest

Spec == Init /\ [][Next]_vars

(* Each thread runs, and the clock.  Of the mail server nothing is known: recv  *)
(* has no timeout.  Nor is it known that the process is started again.        *)
FairSpec ==
  /\ Spec
  /\ WF_vars(MailNotSent \/ MailBegins \/ MailGoesOn \/ LogAlert \/ Formater("analysis"))
  /\ WF_vars(Formater("main"))
  /\ WF_vars(Passes)
-------------------------------------------------------------------------------
(* Every failed mail costs a descriptor, also those that nothing is logged of, *)
(* and nothing else does: a server that refuses every mail runs the process   *)
(* out of descriptors, and one that takes them does not.                    *)
DescriptorsAccounted ==
  fds = failed + (IF opened THEN 1 ELSE 0) + (IF pos > 0 THEN 1 ELSE 0)

(* The file never grows to more than what the limit allows in each process    *)
(* that wrote to it: the counter begins at 0 again, once after a rotation,    *)
(* whose own line it does not count, and once for each start.                *)
SizeBounded == Cardinality(current) <= (Limit + 1) * (1 + deaths)

(* sendmail in recv, and the server neither answers nor hangs up.             *)
Silent == up /\ Waits /\ wire = << >> /\ peer = "up"

(* The analysis thread has an action to take, or is within one.               *)
Busy == todo # << >> \/ ~Free

(* Every alert is done with: its actions are taken one after the other, also   *)
(* after a mail that failed, for want of a descriptor, at any word or by the   *)
(* server's end, and its line goes through formater.  Two things alone keep   *)
(* an alert from its log: a server that is silent for ever (and with it the    *)
(* analysis thread), and the death of the process, by the SIGPIPE of the      *)
(* alert's own mail for one.                                               *)
EveryAlertEnds == <>[]Silent \/ ((up /\ Busy) ~> (~up \/ ~Busy))
===============================================================================
