-------------------------------- MODULE Mailman --------------------------------
(***************************************************************************)
(* Mailman::sendmail: one connection to the mail server, a dialog of         *)
(* commands and replies, and the descriptor it costs.  (src/mailman.cpp.)    *)
(*                                                                         *)
(* The server and the network are external: a reply is taken to be its code,  *)
(* and may arrive in two segments, which recv_tcp takes for two replies, or  *)
(* several at a time, of which match() sees the first; the server may refuse  *)
(* a command, or hang up.                                                   *)
(***************************************************************************)
EXTENDS Integers, Sequences

CONSTANTS
  Recipients,   \* how many, _to
  MayContinue,  \* may a reply arrive in two segments?
  FdLimit       \* descriptors of the process, the log's included

ASSUME MailmanAssumption ==
  /\ Recipients \in Nat \ {0} /\ FdLimit \in Nat /\ FdLimit > 1 /\ MayContinue \in BOOLEAN

Codes == {"220", "250", "334", "235", "354", "5xx"}

(* What is said, and the beginning the reply must have: VALIDBANNER... At the  *)
(* end ("quit") any reply will do.                                         *)
Dialog ==
  << [say |-> "nothing",  hear |-> "220"], [say |-> "helo", hear |-> "250"],
     [say |-> "auth",     hear |-> "334"], [say |-> "user", hear |-> "334"],
     [say |-> "password", hear |-> "235"], [say |-> "mail", hear |-> "250"] >>
  \o [i \in 1..Recipients |-> [say |-> "rcpt", hear |-> "250"]]
  \o << [say |-> "data", hear |-> "354"], [say |-> "text", hear |-> "250"],
        [say |-> "quit", hear |-> "any"] >>

FirstRcpt == 7
Quit == Len(Dialog)

VARIABLES
  pos,        \* the step of the dialog, 0 outside of sendmail
  said,       \* its command is sent: sendmail is in recv
  wire,       \* what is to be received
  answered,   \* the server's: the step of the dialog it has answered last
  peer,       \* the server's end of the connection: "up" or "closed"
  accepted,   \* history: the recipients the server took, by their number,
  taken,      \* whether it took the message,
  continued,  \* and whether a reply came in two segments
  fds,        \* descriptors in use
  failed      \* history: mails that failed after their socket was made

server == <<answered, peer, accepted, taken, continued>>
mail == <<pos, said, wire, server, fds, failed>>

MailTypeOK ==
  /\ pos \in 0..Quit /\ said \in BOOLEAN
  /\ wire \in Seq(Codes) /\ answered \in 0..Quit /\ peer \in {"up", "closed"}
  /\ accepted \subseteq 1..Recipients /\ taken \in BOOLEAN /\ continued \in BOOLEAN
  /\ fds \in 0..FdLimit /\ failed \in Nat

MailInit ==
  /\ pos = 0 /\ said = FALSE /\ wire = << >> /\ answered = 0 /\ peer = "closed"
  /\ accepted = {} /\ taken = FALSE /\ continued = FALSE
  /\ fds = 1 /\ failed = 0

(* sendmail has returned, and what comes from the server is read by nobody.   *)
Over ==
  /\ pos' = 0 /\ said' = FALSE /\ wire' = << >>
  /\ answered' = 0 /\ peer' = "closed"
  /\ accepted' = {} /\ taken' = FALSE /\ continued' = FALSE

(* connect_tcp: -1 if there is no descriptor left, ...                      *)
NoSocket ==
  /\ pos = 0 /\ fds = FdLimit
  /\ UNCHANGED mail

(* ... or if nobody answers; the socket is not closed.                      *)
Refused ==
  /\ pos = 0 /\ fds < FdLimit
  /\ fds' = fds + 1 /\ failed' = failed + 1
  /\ UNCHANGED <<pos, said, wire, server>>

(* The server greets as if it had been spoken to.                           *)
Connect ==
  /\ pos = 0 /\ fds < FdLimit
  /\ pos' = 1 /\ said' = TRUE /\ fds' = fds + 1
  /\ peer' = "up"
  /\ UNCHANGED <<wire, answered, accepted, taken, continued, failed>>

(* What send_tcp returns is not looked at.                                  *)
Say ==
  /\ pos > 0 /\ ~said
  /\ said' = TRUE
  /\ UNCHANGED <<pos, wire, server, fds, failed>>

(* What is sent for the second time to a server that has hung up, a piece of   *)
(* the text, or a command after a reply was received that had been waiting,  *)
(* is a SIGPIPE, which nothing catches.                                    *)
Sigpipe ==
  /\ pos > 0 /\ ~said /\ peer = "closed"
  /\ Dialog[pos].say = "text" \/ continued

(* The server, which answers one command after the other, and takes no text     *)
(* for nobody.                                                             *)
Spoken == IF said THEN pos ELSE pos - 1

Reply ==
  /\ peer = "up" /\ answered < Spoken
  /\ answered' = answered + 1
  /\ \E ok \in BOOLEAN, segments \in IF MayContinue THEN 1..2 ELSE {1} :
       LET step == Dialog[answered']
           code == IF ok THEN (IF step.hear = "any" THEN "220" ELSE step.hear) ELSE "5xx" IN
         /\ ok /\ step.say \in {"data", "text"} => accepted # {}
         /\ wire' = wire \o [i \in 1..segments |-> code]
         /\ accepted' = IF ok /\ step.say = "rcpt" THEN accepted \cup {answered' - FirstRcpt + 1}
                        ELSE accepted
         /\ taken' = (taken \/ (ok /\ step.say = "text"))
         /\ continued' = (continued \/ segments = 2)
  /\ UNCHANGED <<pos, said, peer, fds, failed>>

HangUp ==
  /\ peer = "up" /\ pos > 0
  /\ peer' = "closed"
  /\ UNCHANGED <<pos, said, wire, answered, accepted, taken, continued, fds, failed>>

(* recv_tcp takes what is there, at least a segment.                        *)
Received(n) == wire' = SubSeq(wire, n + 1, Len(wire))

(* A deviation: the reply to Rcpt is not matched.                           *)
Match_not_rcpt(step, code) == step.say \in {"rcpt", "quit"} \/ step.hear = code
Match(step, code) == step.say = "quit" \/ step.hear = code

Waits == pos > 0 /\ said

GoOn ==
  /\ Waits /\ pos < Quit
  /\ \E n \in 1..Len(wire) : Received(n) /\ Match(Dialog[pos], wire[1])
  /\ pos' = pos + 1 /\ said' = FALSE
  /\ UNCHANGED <<server, fds, failed>>

(* A deviation: the socket of a mail that was sent stays open.              *)
Finish_open ==
  /\ Waits /\ pos = Quit /\ (wire # << >> \/ peer = "closed")
  /\ Over
  /\ UNCHANGED <<fds, failed>>

(* The answer to QUIT does not matter; the socket is closed.                 *)
Finish ==
  /\ Waits /\ pos = Quit /\ (wire # << >> \/ peer = "closed")
  /\ Over /\ fds' = fds - 1
  /\ UNCHANGED failed

(* A deviation: where there is nothing to receive, recv is called again.      *)
Mismatch_retries ==
  /\ Waits /\ pos < Quit
  /\ IF wire # << >>
     THEN ~Match(Dialog[pos], wire[1]) /\ Over /\ failed' = failed + 1 /\ UNCHANGED fds
     ELSE peer = "closed" /\ UNCHANGED mail

(* A mismatch, or NULL from a connection that is closed: match throws, and    *)
(* sendmail returns 0 with the socket open.                                 *)
Mismatch ==
  /\ Waits /\ pos < Quit
  /\ IF wire # << >> THEN ~Match(Dialog[pos], wire[1]) ELSE peer = "closed"
  /\ Over /\ failed' = failed + 1
  /\ UNCHANGED fds

Dialogue == Say \/ GoOn
-------------------------------------------------------------------------------
(* Properties of the dialog, whoever calls it.                              *)

(* A dialog that has come to QUIT has left a mail with the server, though a    *)
(* reply is only recognised by how it begins and replies may be split and    *)
(* joined on their way: for somebody in any case, and for every recipient   *)
(* if no reply was split.                                                  *)
SentMeansTaken ==
  pos = Quit => taken /\ accepted # {} /\ (~continued => accepted = 1..Recipients)
===============================================================================
