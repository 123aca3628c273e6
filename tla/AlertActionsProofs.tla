-------------------------- MODULE AlertActionsProofs --------------------------
(***************************************************************************)
(* What the TLA+ proof system checks of AlertActions, for any number of       *)
(* recipients, alerts, errors, deaths and descriptors and any limit of the   *)
(* log: a mail that counts as sent was taken, descriptors are accounted for,  *)
(* and the log overwrites no line and does not outgrow its limit.            *)
(***************************************************************************)
EXTENDS AlertActions, TLAPS, FiniteSetTheorems, SequenceTheorems

(* The dialog of any number of recipients.                                  *)
Data == Recipients + 7
Text == Recipients + 8

LEMMA DialogSteps ==
  /\ Quit = Recipients + 9
  /\ \A i \in 1..Quit :
       /\ Dialog[i].hear \in Codes \cup {"any"}
       /\ i < 7 => /\ Dialog[i].say \notin {"rcpt", "data", "text", "quit"}
                   /\ Dialog[i].hear \notin {"354", "any"}
       /\ 7 <= i /\ i < Data => Dialog[i].say = "rcpt" /\ Dialog[i].hear = "250"
       /\ i = Data => Dialog[i].say = "data" /\ Dialog[i].hear = "354"
       /\ i = Text => Dialog[i].say = "text" /\ Dialog[i].hear = "250"
       /\ i > Text => Dialog[i].say = "quit" /\ Dialog[i].hear = "any"
<1> DEFINE S == [say : {"nothing", "helo", "auth", "user", "password", "mail", "rcpt", "data", "text", "quit"},
                 hear : {"220", "250", "334", "235", "354", "any"}]
           first == << [say |-> "nothing",  hear |-> "220"], [say |-> "helo", hear |-> "250"],
     [say |-> "auth",     hear |-> "334"], [say |-> "user", hear |-> "334"],
     [say |-> "password", hear |-> "235"], [say |-> "mail", hear |-> "250"] >>
           rcpt == [i \in 1..Recipients |-> [say |-> "rcpt", hear |-> "250"]]
           end == << [say |-> "data", hear |-> "354"], [say |-> "text", hear |-> "250"],
        [say |-> "quit", hear |-> "any"] >>
<1>a. Recipients \in Nat \ {0}
  BY MailmanAssumption
<1>1. first \in Seq(S) /\ Len(first) = 6 /\ rcpt \in Seq(S) /\ Len(rcpt) = Recipients
      /\ end \in Seq(S) /\ Len(end) = 3
  <2>1. first \in Seq(S) /\ Len(first) = 6
    BY <1>a
  <2>2. rcpt \in Seq(S) /\ Len(rcpt) = Recipients
    <3>1. rcpt \in [1..Recipients -> S]
      OBVIOUS
    <3> HIDE DEF rcpt, S
    <3> QED BY <3>1, <1>a
  <2>3. end \in Seq(S) /\ Len(end) = 3
    OBVIOUS
  <2> QED BY <2>1, <2>2, <2>3
<1>2. Dialog = (first \o rcpt) \o end
  BY DEF Dialog
<1> HIDE DEF S, rcpt, end
<1>3. /\ first \o rcpt \in Seq(S) /\ Len(first \o rcpt) = 6 + Recipients
      /\ \A i \in 1..6 + Recipients :
           (first \o rcpt)[i] = IF i < 7 THEN first[i] ELSE rcpt[i - 6]
  <2> HIDE DEF first
  <2>1. /\ Len(first \o rcpt) = Len(first) + Len(rcpt)
        /\ \A i \in 1..Len(first) + Len(rcpt) :
             (first \o rcpt)[i] = IF i <= Len(first) THEN first[i] ELSE rcpt[i - Len(first)]
    BY <1>1, ConcatProperties
  <2> QED BY <1>1, <1>a, <2>1
<1>4. /\ Len(Dialog) = 9 + Recipients
      /\ \A i \in 1..9 + Recipients :
           Dialog[i] = IF i < 7 THEN first[i] ELSE IF i < Data THEN rcpt[i - 6] ELSE end[i - 6 - Recipients]
  <2> DEFINE front == first \o rcpt
  <2> HIDE DEF first, front
  <2>0. front \in Seq(S) /\ Len(front) = 6 + Recipients
    BY <1>3 DEF front
  <2>1. /\ Len(front \o end) = Len(front) + Len(end)
        /\ \A i \in 1..Len(front) + Len(end) :
             (front \o end)[i] = IF i <= Len(front) THEN front[i] ELSE end[i - Len(front)]
    BY <1>1, <2>0, ConcatProperties
  <2>2. Dialog = front \o end
    BY <1>2 DEF front
  <2>3. \A i \in 1..6 + Recipients : front[i] = IF i < 7 THEN first[i] ELSE rcpt[i - 6]
    BY <1>3 DEF front
  <2>4. ASSUME NEW i \in 1..9 + Recipients
        PROVE  Dialog[i] = IF i < 7 THEN first[i] ELSE IF i < Data THEN rcpt[i - 6] ELSE end[i - 6 - Recipients]
    <3>1. Dialog[i] = IF i <= 6 + Recipients THEN front[i] ELSE end[i - (6 + Recipients)]
      BY <1>1, <1>a, <2>0, <2>1, <2>2
    <3>2. i - (6 + Recipients) = i - 6 - Recipients
      BY <1>a
    <3> QED BY <1>a, <2>3, <3>1, <3>2 DEF Data
  <2> QED BY <1>1, <1>a, <2>0, <2>1, <2>2, <2>4
<1>5. \A i \in 1..6 : /\ first[i].hear \in Codes \ {"354"} /\ first[i].hear # "any"
                      /\ first[i].say \notin {"rcpt", "data", "text", "quit"}
  BY DEF Codes
<1>6. \A i \in 1..Recipients : rcpt[i].say = "rcpt" /\ rcpt[i].hear = "250"
  BY <1>a DEF rcpt
<1>7. /\ end[1].say = "data" /\ end[1].hear = "354" /\ end[2].say = "text"
      /\ end[2].hear = "250" /\ end[3].say = "quit" /\ end[3].hear = "any"
  BY DEF end
<1> HIDE DEF first
<1>8. Quit = Recipients + 9
  BY <1>4, <1>a DEF Quit
<1>9. ASSUME NEW i \in 1..Quit
      PROVE  /\ Dialog[i].hear \in Codes \cup {"any"}
             /\ i < 7 => /\ Dialog[i].say \notin {"rcpt", "data", "text", "quit"}
                         /\ Dialog[i].hear \notin {"354", "any"}
             /\ 7 <= i /\ i < Data => Dialog[i].say = "rcpt" /\ Dialog[i].hear = "250"
             /\ i = Data => Dialog[i].say = "data" /\ Dialog[i].hear = "354"
             /\ i = Text => Dialog[i].say = "text" /\ Dialog[i].hear = "250"
             /\ i > Text => Dialog[i].say = "quit" /\ Dialog[i].hear = "any"
  <2>1. CASE i < 7
    BY <2>1, <1>4, <1>5, <1>8, <1>a DEF Data, Text
  <2>2. CASE 7 <= i /\ i < Data
    BY <2>2, <1>4, <1>6, <1>8, <1>a DEF Data, Text, Codes
  <2>3. CASE i = Data
    BY <2>3, <1>4, <1>7, <1>8, <1>a DEF Data, Text, Codes
  <2>4. CASE i = Text
    BY <2>4, <1>4, <1>7, <1>8, <1>a DEF Data, Text, Codes
  <2>5. CASE i > Text
    <3>1. i = Recipients + 9
      BY <2>5, <1>8, <1>a DEF Text
    <3> QED BY <3>1, <1>4, <1>7, <1>8, <1>a DEF Data, Text, Codes
  <2> QED BY <2>1, <2>2, <2>3, <2>4, <2>5, <1>8, <1>a DEF Data, Text
<1> QED BY <1>8, <1>9
-------------------------------------------------------------------------------
(* The dialog.  What is received after a 354 is a 354 until the text is sent:  *)
(* the server answers in order, and only a reply that was taken for the next *)
(* one can be late.                                                        *)
DialogTypes ==
  /\ pos \in 0..Quit /\ said \in BOOLEAN
  /\ wire \in Seq(Codes) /\ answered \in 0..Quit /\ peer \in {"up", "closed"}
  /\ accepted \subseteq 1..Recipients /\ taken \in BOOLEAN /\ continued \in BOOLEAN

Quiet == pos = 0 /\ wire = << >> /\ answered = 0 /\ ~continued

InOrder ==
  /\ answered <= Spoken
  /\ \A i \in 1..Len(wire) : wire[i] = "354" => answered >= Data /\ accepted # {}
  /\ pos > Data => answered >= Data /\ accepted # {}
  /\ pos <= Data => \A i, j \in 1..Len(wire) : i < j /\ wire[i] = "354" => wire[j] = "354"
  /\ pos = Text => \A i \in 1..Len(wire) : wire[i] = "250" => taken
  /\ pos > Text => taken

(* Where no reply was split, each is received before the next is sent.        *)
Lockstep ==
  /\ \/ answered = pos - 1 /\ wire = << >>
     \/ answered = pos /\ Len(wire) = 1
  /\ \A r \in 1..Recipients : r + 6 < pos => r \in accepted
  /\ 7 <= pos /\ pos < Data /\ wire # << >> /\ wire[1] = "250" => pos - 6 \in accepted

DialogInv ==
  /\ DialogTypes
  /\ Quiet \/ (pos > 0 /\ InOrder /\ (~continued => Lockstep))

dialog == <<pos, said, wire, server>>

DialogStep ==
  \/ UNCHANGED dialog
  \/ Connect \/ Say \/ GoOn \/ Reply \/ HangUp \/ Over

LEMMA DialogInit == MailInit => DialogInv
<1>1. << >> \in Seq(Codes)
  OBVIOUS
<1>2. 0 \in 0..Quit
  BY DialogSteps, MailmanAssumption
<1> QED
  BY <1>1, <1>2 DEF MailInit, DialogInv, DialogTypes, Quiet

LEMMA ReplyKeepsDialog ==
  ASSUME DialogInv, Reply
  PROVE  DialogInv'
<1> USE MailmanAssumption DEF Data, Text
<1>1. PICK ok \in BOOLEAN, segments \in (IF MayContinue THEN 1..2 ELSE {1}) :
        LET step == Dialog[answered']
            code == IF ok THEN (IF step.hear = "any" THEN "220" ELSE step.hear) ELSE "5xx" IN
         /\ ok /\ step.say \in {"data", "text"} => accepted # {}
         /\ wire' = wire \o [i \in 1..segments |-> code]
         /\ accepted' = IF ok /\ step.say = "rcpt" THEN accepted \cup {answered' - FirstRcpt + 1}
                        ELSE accepted
         /\ taken' = (taken \/ (ok /\ step.say = "text"))
         /\ continued' = (continued \/ segments = 2)
  BY DEF Reply
<1> DEFINE step == Dialog[answered']
           code == IF ok THEN (IF step.hear = "any" THEN "220" ELSE step.hear) ELSE "5xx"
           came == [i \in 1..segments |-> code]
<1>2. /\ ok /\ step.say \in {"data", "text"} => accepted # {}
      /\ wire' = wire \o came
      /\ accepted' = IF ok /\ step.say = "rcpt" THEN accepted \cup {answered' - 6} ELSE accepted
      /\ taken' = (taken \/ (ok /\ step.say = "text"))
      /\ continued' = (continued \/ segments = 2)
  <2>1. answered' - FirstRcpt + 1 = answered' - 6
    BY DEF FirstRcpt, Reply, DialogInv, DialogTypes
  <2> QED BY <1>1, <2>1
<1>3. /\ pos \in 1..Quit /\ answered' = answered + 1 /\ answered' \in 1..pos
      /\ pos' = pos /\ said' = said /\ peer' = peer /\ Spoken' = Spoken /\ answered' <= Spoken
      /\ answered \in Nat /\ pos \in Nat /\ InOrder /\ (~continued => Lockstep)
  BY DialogSteps DEF Reply, DialogInv, DialogTypes, Quiet, Spoken, InOrder
<1>4. answered' \in 1..Quit /\ Quit = Recipients + 9
  BY <1>3, DialogSteps
<1>5. /\ code \in Codes
      /\ code = "354" => ok /\ answered' = Data
      /\ ok /\ step.say = "text" <=> ok /\ answered' = Text
      /\ ok /\ step.say = "rcpt" <=> ok /\ 7 <= answered' /\ answered' < Data
      /\ ok /\ answered' = Data => accepted # {}
      /\ code = "250" => ok
      /\ code = "250" /\ 7 <= answered' /\ answered' < Data => ok
      /\ ok /\ answered' = Data => code = "354"
  BY <1>2, <1>4, DialogSteps DEF Codes
<1> HIDE DEF step, code
<1>6. segments \in 1..2 /\ came \in Seq(Codes) /\ Len(came) = segments
      /\ \A i \in 1..segments : came[i] = code
  <2>1. segments \in 1..2
    OBVIOUS
  <2>2. came \in [1..segments -> Codes]
    BY <1>5
  <2>3. \A i \in 1..segments : came[i] = code
    OBVIOUS
  <2> HIDE DEF came
  <2> QED BY <2>1, <2>2, <2>3
<1> HIDE DEF came
<1>7. wire \in Seq(Codes) /\ Len(wire) \in Nat
  BY DEF DialogInv, DialogTypes
<1>8. /\ wire' \in Seq(Codes) /\ Len(wire') = Len(wire) + segments
      /\ \A i \in 1..Len(wire') : wire'[i] = IF i <= Len(wire) THEN wire[i] ELSE code
  <2>1. /\ wire \o came \in Seq(Codes) /\ Len(wire \o came) = Len(wire) + segments
        /\ \A i \in 1..Len(wire) + segments :
             (wire \o came)[i] = IF i <= Len(wire) THEN wire[i] ELSE came[i - Len(wire)]
    BY <1>6, <1>7, ConcatProperties
  <2>2. ASSUME NEW i \in 1..Len(wire'), i > Len(wire) PROVE i - Len(wire) \in 1..segments
    BY <1>2, <1>6, <1>7, <2>1, <2>2
  <2> QED BY <1>2, <1>6, <1>7, <2>1, <2>2
<1>9. accepted' \subseteq 1..Recipients /\ accepted \subseteq accepted' /\ (taken => taken')
  BY <1>2, <1>3, <1>4, <1>5 DEF DialogInv, DialogTypes
<1>a. accepted # {} => accepted' # {}
  BY <1>9
<1>10. DialogTypes'
  BY <1>2, <1>3, <1>4, <1>8, <1>9 DEF DialogInv, DialogTypes
<1>11. InOrder'
  <2>1. \A i \in 1..Len(wire') : wire'[i] = "354" => answered' >= Data /\ accepted' # {}
    BY <1>3, <1>4, <1>5, <1>7, <1>8, <1>a DEF InOrder
  <2>2. pos > Data => answered' >= Data /\ accepted' # {}
    BY <1>3, <1>4, <1>a DEF InOrder
  <2>3. pos <= Data => \A i, j \in 1..Len(wire') : i < j /\ wire'[i] = "354" => wire'[j] = "354"
    BY <1>3, <1>4, <1>5, <1>7, <1>8 DEF InOrder
  <2>4. pos = Text => \A i \in 1..Len(wire') : wire'[i] = "250" => taken'
    BY <1>2, <1>3, <1>4, <1>5, <1>7, <1>8, <1>9 DEF InOrder
  <2>5. pos > Text => taken'
    BY <1>3, <1>9 DEF InOrder
  <2> QED BY <1>3, <2>1, <2>2, <2>3, <2>4, <2>5 DEF InOrder
<1>12. ~continued' => Lockstep'
  <2> SUFFICES ASSUME ~continued' PROVE Lockstep'
    OBVIOUS
  <2>1. ~continued /\ segments = 1
    BY <1>2, <1>6 DEF DialogInv, DialogTypes
  <2>2. answered = pos - 1 /\ wire = << >> /\ answered' = pos
    BY <2>1, <1>3, <1>4 DEF Lockstep, DialogInv, DialogTypes
  <2>3. Len(wire') = 1 /\ wire'[1] = code
    BY <1>7, <1>8, <2>1, <2>2
  <2>4. 7 <= pos /\ pos < Data /\ code = "250" => pos - 6 \in accepted'
    BY <1>2, <1>5, <2>2
  <2>5. \A r \in 1..Recipients : r + 6 < pos => r \in accepted'
    BY <1>3, <1>9, <2>1 DEF Lockstep
  <2> QED BY <1>3, <2>2, <2>3, <2>4, <2>5 DEF Lockstep
<1> QED
  BY <1>3, <1>10, <1>11, <1>12 DEF DialogInv

LEMMA DialogKept ==
  ASSUME DialogInv, DialogStep
  PROVE  DialogInv'
<1> USE MailmanAssumption DEF Data, Text
<1>1. CASE UNCHANGED dialog
  BY <1>1 DEF dialog, server, DialogInv, DialogTypes, Quiet, InOrder, Lockstep, Spoken
<1>2. CASE Connect
  BY <1>2, DialogSteps DEF Connect, DialogInv, DialogTypes, Quiet, InOrder, Lockstep, Spoken
<1>3. CASE Say
  BY <1>3 DEF Say, server, DialogInv, DialogTypes, Quiet, InOrder, Lockstep, Spoken
<1>4. CASE GoOn
  <2>1. PICK n \in 1..Len(wire) : Received(n) /\ Match(Dialog[pos], wire[1])
    BY <1>4 DEF GoOn
  <2>2. /\ pos \in 1..Recipients + 8 /\ Quit = Recipients + 9 /\ said /\ Spoken = pos
        /\ pos' = pos + 1 /\ said' = FALSE /\ Spoken' = pos /\ UNCHANGED server
        /\ InOrder /\ (~continued => Lockstep)
    BY <1>4, DialogSteps DEF GoOn, Waits, Spoken, DialogInv, DialogTypes, Quiet
  <2>3. /\ pos < 7 => wire[1] # "354"
        /\ 7 <= pos /\ pos < Data => wire[1] = "250"
        /\ pos = Data => wire[1] = "354"
        /\ pos = Text => wire[1] = "250"
    <3>1. pos \in 1..Quit
      BY <2>2
    <3> QED BY <3>1, <2>1, <2>2, DialogSteps DEF Match
  <2>4. wire \in Seq(Codes) /\ Len(wire) \in Nat /\ Len(wire) >= 1
    BY <2>1 DEF DialogInv, DialogTypes
  <2>5. /\ wire' \in Seq(Codes) /\ Len(wire') = Len(wire) - n
        /\ \A i \in 1..Len(wire') : wire'[i] = wire[i + n]
    <3>1. wire' = SubSeq(wire, n + 1, Len(wire))
      BY <2>1 DEF Received
    <3> QED BY <2>4, <3>1, SubSeqProperties
  <2>6. DialogTypes'
    <3>1. pos' \in 0..Quit
      BY <2>2
    <3>2. said' \in BOOLEAN
      BY <2>2
    <3> QED BY <2>2, <2>5, <3>1, <3>2 DEF DialogInv, DialogTypes, server
  <2>7. InOrder'
    <3>1. \A i \in 1..Len(wire') : wire'[i] = "354" => answered' >= Data /\ accepted' # {}
      BY <2>2, <2>4, <2>5 DEF InOrder, server
    <3>2. pos' > Data => answered' >= Data /\ accepted' # {}
      <4>1. CASE pos = Data
        BY <4>1, <2>2, <2>3, <2>4 DEF InOrder, server
      <4> QED BY <4>1, <2>2 DEF InOrder, server
    <3>3. pos' <= Data => \A i, j \in 1..Len(wire') : i < j /\ wire'[i] = "354" => wire'[j] = "354"
      BY <2>2, <2>4, <2>5 DEF InOrder
    <3>4. pos' = Text => \A i \in 1..Len(wire') : wire'[i] = "250" => taken'
      <4> SUFFICES ASSUME pos = Data, NEW i \in 1..Len(wire') PROVE wire'[i] # "250"
        BY <2>2
      <4>1. wire[1] = "354" /\ i + n \in 1..Len(wire) /\ 1 < i + n
        BY <2>3, <2>4, <2>5
      <4>2. wire[i + n] = "354"
        BY <4>1, <2>2, <2>4 DEF InOrder
      <4> QED BY <4>2, <2>5
    <3>5. pos' > Text => taken'
      BY <2>2, <2>3, <2>4 DEF InOrder, server
    <3>6. answered' <= Spoken'
      BY <2>2 DEF InOrder, server
    <3> QED BY <3>1, <3>2, <3>3, <3>4, <3>5, <3>6 DEF InOrder
  <2>8. ~continued' => Lockstep'
    <3> SUFFICES ASSUME ~continued' PROVE Lockstep'
      OBVIOUS
    <3>1. Lockstep /\ ~continued
      BY <2>2 DEF server
    <3>2. answered = pos /\ Len(wire) = 1
      BY <3>1, <2>4 DEF Lockstep
    <3>3. wire' = << >> /\ answered' = pos' - 1
      BY <2>1, <2>2, <2>5, <3>2 DEF server
    <3>4. \A r \in 1..Recipients : r + 6 < pos' => r \in accepted'
      <4> SUFFICES ASSUME NEW r \in 1..Recipients, r + 6 < pos' PROVE r \in accepted
        BY <2>2 DEF server
      <4>1. CASE r + 6 < pos
        BY <4>1, <3>1 DEF Lockstep
      <4>2. CASE r + 6 = pos
        BY <4>2, <3>1, <2>3, <2>4 DEF Lockstep
      <4> QED BY <4>1, <4>2, <2>2
    <3> QED BY <3>3, <3>4 DEF Lockstep
  <2> QED BY <2>2, <2>6, <2>7, <2>8 DEF DialogInv
<1>5. CASE Reply
  BY <1>5, ReplyKeepsDialog
<1>6. CASE HangUp
  BY <1>6 DEF HangUp, DialogInv, DialogTypes, Quiet, InOrder, Lockstep, Spoken
<1>7. CASE Over
  <2>1. << >> \in Seq(Codes)
    OBVIOUS
  <2>2. 0 \in 0..Quit
    BY DialogSteps
  <2> QED
    BY <1>7, <2>1, <2>2 DEF Over, DialogInv, DialogTypes, Quiet
<1> QED
  BY <1>1, <1>2, <1>3, <1>4, <1>5, <1>6, <1>7 DEF DialogStep

LEMMA DialogGives == DialogInv => SentMeansTaken
<1> SUFFICES ASSUME DialogInv, pos = Quit
             PROVE  taken /\ accepted # {} /\ (~continued => accepted = 1..Recipients)
  BY DEF SentMeansTaken
<1>1. pos = Recipients + 9 /\ Recipients \in Nat
  BY DialogSteps, MailmanAssumption
<1>2. InOrder /\ (~continued => Lockstep)
  BY <1>1 DEF DialogInv, Quiet
<1>3. taken /\ accepted # {}
  BY <1>1, <1>2 DEF InOrder, Data, Text
<1>4. ~continued => 1..Recipients \subseteq accepted
  BY <1>1, <1>2 DEF Lockstep
<1> QED
  BY <1>3, <1>4 DEF DialogInv, DialogTypes
-------------------------------------------------------------------------------
(* The log.  A file that was put away in this second is told from the next    *)
(* one: what was counted since, and what is still to be counted, began in this *)
(* second, but for a line of the other thread.                              *)
Inside == {"count", "close", "rename", "open", "write"}

FileTypes ==
  /\ _mutex \in Threads \cup {Nobody}
  /\ total_size \in 0..Limit + 1 /\ opened \in BOOLEAN
  /\ at \in [Threads -> Inside \cup {"out", "lock"}]
  /\ second \in Nat /\ hurry \in 0..PerSecond
  /\ \A t \in Threads : at[t] \in Inside => _mutex = t
  /\ \A t \in Threads : at[t] \in {"close", "rename"} => total_size = Limit + 1
  /\ (\A t \in Threads : at[t] \notin {"close", "rename"}) => total_size <= Limit
  /\ \A t \in Threads : at[t] \in {"rename", "open"} => opened = FALSE

OldNames == \A o, p \in old : o.name \in 0..second /\ (o.name = p.name => o = p)

Uncounted(t) == IF at[t] \in {"lock", "count"} THEN 1 ELSE 0

Hurried ==
  (\E o \in old : o.name = second) =>
    total_size + Uncounted("main") + Uncounted("analysis") <= hurry + 1

Stream == bad \in BOOLEAN /\ written \in Nat

LogInv == FileTypes /\ Stream /\ OldNames /\ Hurried /\ NoLineLost

RunStep ==
  \/ UNCHANGED log
  \/ Second
  \/ \E t \in Threads :
       \/ Log(t) \/ Guard(t) \/ Count(t) \/ Close(t) \/ PutAway(t) \/ Write(t)
       \/ \E possible \in BOOLEAN : Open(t, possible)

LogStep == RunStep \/ Reopened

LEMMA TwoThreads ==
  /\ Threads = {"main", "analysis"} /\ Nobody \notin Threads
  /\ Limit \in Nat /\ PerSecond \in Nat \ {0} /\ PerSecond + 1 <= Limit
<1>1. IsFiniteSet({"main"}) /\ Cardinality({"main"}) = 1
  BY FS_Singleton
<1>2. Cardinality({"main"} \cup {"analysis"}) = 2
  BY <1>1, FS_AddElement
<1>3. {"main"} \cup {"analysis"} = {"main", "analysis"}
  OBVIOUS
<1> QED
  BY <1>2, <1>3, FileLogAssumption, AlertActionsAssumption

LEMMA LogInvInit == LogInit => LogInv
<1> SUFFICES ASSUME LogInit PROVE LogInv
  OBVIOUS
<1>1. FileTypes
  BY TwoThreads DEF LogInit, FileTypes, Inside
<1>2. Stream
  BY DEF LogInit, Stream
<1>3. OldNames /\ Hurried
  BY DEF LogInit, OldNames, Hurried
<1>4. 1..written = {}
  BY DEF LogInit
<1> QED
  BY <1>1, <1>2, <1>3, <1>4 DEF LogInv, NoLineLost

LEMMA FileTypesKept == FileTypes /\ LogStep => FileTypes'
<1> SUFFICES ASSUME FileTypes, LogStep PROVE FileTypes'
  OBVIOUS
<1> USE TwoThreads DEF FileTypes, Inside
<1>1. CASE UNCHANGED log
  BY <1>1 DEF log
<1>2. CASE Second
  BY <1>2 DEF Second
<1>3. CASE Reopened
  BY <1>3 DEF Reopened
<1>4. ASSUME NEW t \in Threads, Log(t) PROVE FileTypes'
  BY <1>4 DEF Log, Move
<1>5. ASSUME NEW t \in Threads, Guard(t) PROVE FileTypes'
  BY <1>5 DEF Guard, Move
<1>6. ASSUME NEW t \in Threads, Count(t) PROVE FileTypes'
  BY <1>6 DEF Count, Move
<1>7. ASSUME NEW t \in Threads, Close(t) PROVE FileTypes'
  BY <1>7 DEF Close, Move
<1>8. ASSUME NEW t \in Threads, PutAway(t) PROVE FileTypes'
  BY <1>8 DEF PutAway, Move
<1>9. ASSUME NEW t \in Threads, Write(t) PROVE FileTypes'
  BY <1>9 DEF Write, Move
<1>10. ASSUME NEW t \in Threads, NEW possible \in BOOLEAN, Open(t, possible) PROVE FileTypes'
  BY <1>10 DEF Open, Move
<1> QED
  BY <1>1, <1>2, <1>3, <1>4, <1>5, <1>6, <1>7, <1>8, <1>9, <1>10 DEF LogStep, RunStep

LEMMA StreamKept == Stream /\ LogStep => Stream'
<1> SUFFICES ASSUME Stream, LogStep PROVE Stream'
  OBVIOUS
<1> USE DEF Stream
<1>1. CASE UNCHANGED log \/ Second \/ Reopened
  BY <1>1 DEF log, Second, Reopened
<1>2. ASSUME NEW t \in Threads, Log(t) \/ Guard(t) \/ Count(t) \/ Close(t) \/ PutAway(t)
      PROVE  Stream'
  BY <1>2 DEF Log, Guard, Count, Close, PutAway
<1>3. ASSUME NEW t \in Threads, Write(t) PROVE Stream'
  <2>1. bad' \in BOOLEAN /\ written' \in {written, written + 1}
    BY <1>3 DEF Write
  <2> QED BY <2>1
<1>4. ASSUME NEW t \in Threads, NEW possible \in BOOLEAN, Open(t, possible) PROVE Stream'
  BY <1>4 DEF Open
<1> QED
  BY <1>1, <1>2, <1>3, <1>4 DEF LogStep, RunStep

(* A second file within a second is not put away: too little was logged.      *)
LEMMA NameIsNew ==
  ASSUME LogInv, NEW t \in Threads, at[t] = "rename"
  PROVE  \A o \in old : o.name # second
<1>1. total_size = Limit + 1 /\ hurry <= PerSecond /\ hurry \in Nat
  BY TwoThreads DEF LogInv, FileTypes
<1> QED
  BY <1>1, TwoThreads DEF LogInv, Hurried, Uncounted

LEMMA LogInvKept == LogInv /\ LogStep => LogInv'
<1> SUFFICES ASSUME LogInv, LogStep PROVE OldNames' /\ Hurried' /\ NoLineLost'
  BY FileTypesKept, StreamKept DEF LogInv
<1> USE TwoThreads DEF LogInv
<1>0. /\ total_size \in Nat /\ hurry \in Nat /\ second \in Nat
      /\ \A t \in Threads : Uncounted(t) \in {0, 1}
      /\ DOMAIN at = Threads
  BY DEF FileTypes, Uncounted
<1>1. CASE UNCHANGED log
  BY <1>1 DEF log, OldNames, Hurried, NoLineLost, Uncounted
<1>2. CASE Second
  BY <1>0, <1>2 DEF Second, OldNames, Hurried, NoLineLost
<1>3. CASE Reopened
  BY <1>0, <1>3 DEF Reopened, OldNames, Hurried, NoLineLost, Uncounted
<1>4. ASSUME NEW t \in Threads, Log(t) PROVE OldNames' /\ Hurried' /\ NoLineLost'
  BY <1>0, <1>4 DEF Log, Move, OldNames, Hurried, NoLineLost, Uncounted
<1>5. ASSUME NEW t \in Threads, Guard(t) PROVE OldNames' /\ Hurried' /\ NoLineLost'
  BY <1>0, <1>5 DEF Guard, Move, OldNames, Hurried, NoLineLost, Uncounted
<1>6. ASSUME NEW t \in Threads, Count(t) PROVE OldNames' /\ Hurried' /\ NoLineLost'
  BY <1>0, <1>6 DEF Count, Move, OldNames, Hurried, NoLineLost, Uncounted
<1>7. ASSUME NEW t \in Threads, Close(t) PROVE OldNames' /\ Hurried' /\ NoLineLost'
  BY <1>0, <1>7 DEF Close, Move, OldNames, Hurried, NoLineLost, Uncounted
<1>8. ASSUME NEW t \in Threads, PutAway(t) PROVE OldNames' /\ Hurried' /\ NoLineLost'
  <2>1. \A o \in old : o.name # second
    BY <1>8, NameIsNew DEF PutAway, Move
  <2>2. \/ old' = old \cup {[name |-> second, lines |-> current]}
        \/ current = {} /\ old' = old
    BY <1>8, <2>1 DEF PutAway
  <2>3. OldNames'
    BY <1>0, <1>8, <2>1, <2>2 DEF PutAway, OldNames
  <2>4. total_size' = 0 /\ Uncounted(t)' = 0 /\ hurry' = hurry
    BY <1>0, <1>8 DEF PutAway, Move, Uncounted
  <2>5. \A u \in Threads : Uncounted(u)' \in {0, 1}
    BY DEF Uncounted
  <2>6. Hurried'
    BY <1>0, <2>4, <2>5 DEF Hurried
  <2>7. NoLineLost'
    <3> SUFFICES ASSUME NEW l \in 1..written PROVE \E o \in old' : l \in o.lines
      BY <1>8 DEF PutAway, NoLineLost
    <3>1. CASE l \in current
      <4>1. [name |-> second, lines |-> current] \in old'
        BY <2>2, <3>1
      <4>2. [name |-> second, lines |-> current].lines = current
        OBVIOUS
      <4> QED BY <3>1, <4>1, <4>2
    <3>2. CASE l \notin current
      BY <2>2, <3>2 DEF NoLineLost
    <3> QED BY <3>1, <3>2
  <2> QED BY <2>3, <2>6, <2>7
<1>9. ASSUME NEW t \in Threads, Write(t) PROVE OldNames' /\ Hurried' /\ NoLineLost'
  <2>1. OldNames' /\ Hurried'
    BY <1>0, <1>9 DEF Write, Move, OldNames, Hurried, Uncounted
  <2>2. CASE UNCHANGED <<current, written>>
    BY <1>9, <2>1, <2>2 DEF Write, NoLineLost
  <2>3. CASE written' = written + 1 /\ current' = current \cup {written'}
    <3>1. 1..written' = 1..written \cup {written'}
      BY <2>3 DEF Stream
    <3> QED BY <1>9, <2>1, <2>3, <3>1 DEF Write, NoLineLost
  <2> QED BY <1>9, <2>2, <2>3 DEF Write
<1>10. ASSUME NEW t \in Threads, NEW possible \in BOOLEAN, Open(t, possible)
       PROVE  OldNames' /\ Hurried' /\ NoLineLost'
  BY <1>0, <1>10 DEF Open, Move, OldNames, Hurried, NoLineLost, Uncounted
<1> QED
  BY <1>1, <1>2, <1>3, <1>4, <1>5, <1>6, <1>7, <1>8, <1>9, <1>10 DEF LogStep, RunStep

(* The size of the file.  A process writes as many lines as it counts, and one *)
(* more for its last rotation; what a dead one has left is for its successor.  *)
Writing == IF \E t \in Threads : at[t] \in Inside \ {"count"} THEN 1 ELSE 0

Bound == (Limit + 1) * (1 + deaths)

Dead == IF up THEN 0 ELSE Limit + 1

Sized ==
  /\ deaths \in Nat /\ (~up => deaths > 0)
  /\ IsFiniteSet(current)
  /\ Cardinality(current) + Writing + Dead + Limit <= Bound + total_size

LEMMA SizedKept ==
  ASSUME FileTypes, Sized,
         \/ RunStep /\ deaths' = deaths /\ up' = up
         \/ UNCHANGED log /\ deaths' = deaths + 1 /\ up /\ ~up'
         \/ Reopened /\ deaths' = deaths /\ ~up /\ up'
  PROVE  Sized'
<1> USE TwoThreads
<1>0. /\ total_size \in Nat /\ deaths \in Nat /\ Cardinality(current) \in Nat
      /\ Writing \in {0, 1} /\ Writing' \in {0, 1} /\ Bound \in Nat
      /\ total_size <= Limit + Writing
  BY FS_CardinalityType DEF FileTypes, Sized, Writing, Bound, Inside
<1>1. CASE Reopened /\ deaths' = deaths /\ ~up /\ up'
  <2>1. Bound' = Bound /\ Dead = Limit + 1 /\ Dead' = 0
    BY <1>1 DEF Bound, Dead
  <2>2. Writing' = 0 /\ current' = current /\ total_size' = 0
    BY <1>1 DEF Reopened, Writing, Inside
  <2> QED BY <1>0, <1>1, <2>1, <2>2 DEF Sized
<1>3. CASE UNCHANGED log /\ deaths' = deaths + 1 /\ up /\ ~up'
  <2>1. Bound' = Bound + Limit + 1
    BY <1>0, <1>3 DEF Bound
  <2>2. Dead = 0 /\ Dead' = Limit + 1
    BY <1>3 DEF Dead
  <2>3. Writing' = Writing /\ current' = current /\ total_size' = total_size
    BY <1>3 DEF log, Writing
  <2> QED BY <1>0, <1>3, <2>1, <2>2, <2>3 DEF Sized
<1>2. CASE RunStep /\ deaths' = deaths /\ up' = up
  <2>1. Bound' = Bound /\ Dead' = Dead /\ Dead \in {0, Limit + 1} /\ (Dead # 0 => deaths > 0)
    BY <1>2 DEF Bound, Dead, Sized
  <2>2. ASSUME UNCHANGED <<current, total_size>>, Writing' <= Writing
        PROVE  Sized'
    BY <1>0, <1>2, <2>1, <2>2 DEF Sized
  <2>3. CASE UNCHANGED log \/ Second
    <3>1. at' = at /\ UNCHANGED <<current, total_size>>
      BY <2>3 DEF log, Second
    <3>2. Writing' = Writing
      BY <3>1 DEF Writing
    <3> QED BY <1>0, <2>2, <3>1, <3>2
  <2>4. ASSUME NEW t \in Threads, Log(t) \/ Guard(t) PROVE Sized'
    <3>1. UNCHANGED <<current, total_size>>
      BY <2>4 DEF Log, Guard
    <3>2. Writing' <= Writing
      BY <2>4 DEF Log, Guard, Move, Writing, Inside, FileTypes
    <3> QED BY <2>2, <3>1, <3>2
  <2>5. ASSUME NEW t \in Threads, Count(t) PROVE Sized'
    <3>1. at[t] = "count" /\ \A u \in Threads \ {t} : at[u] \notin Inside
      BY <2>5 DEF Count, FileTypes, Inside
    <3>2. Writing = 0
      BY <3>1 DEF Writing, Inside
    <3>3. current' = current /\ total_size' = total_size + 1
      BY <2>5 DEF Count
    <3> QED BY <1>0, <1>2, <2>1, <3>2, <3>3 DEF Sized
  <2>6. ASSUME NEW t \in Threads, Close(t) \/ \E possible \in BOOLEAN : Open(t, possible)
        PROVE  Sized'
    <3>1. UNCHANGED <<current, total_size>> /\ at[t] \in Inside \ {"count"}
      BY <2>6 DEF Close, Open, Move, Inside
    <3>2. Writing = 1
      BY <3>1 DEF Writing
    <3> QED BY <1>0, <2>2, <3>1, <3>2
  <2>7. ASSUME NEW t \in Threads, PutAway(t) PROVE Sized'
    <3>1. current' = {} /\ total_size' = 0
      BY <2>7 DEF PutAway
    <3>2. IsFiniteSet({}) /\ Cardinality({}) = 0
      BY FS_EmptySet
    <3>3. Limit + 1 + Dead <= Bound
      <4>1. CASE deaths = 0
        BY <4>1, <1>0, <2>1 DEF Bound
      <4>2. CASE deaths > 0
        <5>1. PICK n \in Nat : deaths = n + 1
          <6>1. deaths - 1 \in Nat /\ deaths = (deaths - 1) + 1
            BY <4>2, <1>0
          <6> QED BY <6>1
        <5>2. Bound = (Limit + 1) + (Limit + 1) + (Limit + 1) * n
          BY <5>1 DEF Bound
        <5>3. (Limit + 1) * n \in Nat
          BY <5>1
        <5> QED BY <5>2, <5>3, <2>1
      <4> QED BY <4>1, <4>2, <1>0
    <3> QED BY <1>0, <1>2, <2>1, <3>1, <3>2, <3>3 DEF Sized
  <2>8. ASSUME NEW t \in Threads, Write(t) PROVE Sized'
    <3>1. Writing = 1
      BY <2>8 DEF Write, Move, Writing, Inside
    <3>2. Writing' = 0
      BY <2>8 DEF Write, Move, Writing, Inside, FileTypes
    <3>3. total_size' = total_size
      BY <2>8 DEF Write
    <3>4. current' = current \/ current' = current \cup {written + 1}
      BY <2>8 DEF Write
    <3>5. IsFiniteSet(current') /\ Cardinality(current') <= Cardinality(current) + 1
          /\ Cardinality(current') \in Nat
      <4>1. /\ IsFiniteSet(current \cup {written + 1})
            /\ Cardinality(current \cup {written + 1}) =
                 IF written + 1 \in current THEN Cardinality(current) ELSE Cardinality(current) + 1
        BY FS_AddElement DEF Sized
      <4> QED BY <1>0, <3>4, <4>1 DEF Sized
    <3> QED BY <1>0, <1>2, <2>1, <3>1, <3>2, <3>3, <3>5 DEF Sized
  <2> QED BY <1>2, <2>3, <2>4, <2>5, <2>6, <2>7, <2>8 DEF RunStep
<1> QED BY <1>1, <1>2, <1>3

LEMMA SizedGives == FileTypes /\ Sized => SizeBounded
<1> SUFFICES ASSUME FileTypes, Sized PROVE Cardinality(current) <= Bound
  BY DEF SizeBounded, Bound
<1>1. /\ total_size \in Nat /\ deaths \in Nat /\ Cardinality(current) \in Nat
      /\ Writing \in {0, 1} /\ Bound \in Nat /\ total_size <= Limit + Writing
      /\ Dead \in Nat
  BY TwoThreads, FS_CardinalityType DEF FileTypes, Sized, Writing, Bound, Dead, Inside
<1> QED
  BY <1>1, TwoThreads DEF Sized
-------------------------------------------------------------------------------
(* Both, as AlertActions composes them.                                     *)
Descriptors == fds \in 0..FdLimit /\ failed \in Nat /\ DescriptorsAccounted

Owing == up \in BOOLEAN /\ todo \in Seq({"mail", "log"})

IInv == DialogInv /\ LogInv /\ Sized /\ Descriptors /\ Owing

(* What a step is for the dialog and for the log.                           *)
LEMMA StepParts ==
  ASSUME [Next]_vars
  PROVE  /\ DialogStep
         /\ \/ RunStep /\ deaths' = deaths /\ up' = up
            \/ UNCHANGED log /\ deaths' = deaths + 1 /\ up /\ ~up'
            \/ Reopened /\ deaths' = deaths /\ ~up /\ up'
<1> USE DEF mail, server, dialog, log, DialogStep, RunStep, Running
<1>1. CASE Alert
  BY <1>1 DEF Alert
<1>2. CASE MailNotSent
  BY <1>2, TwoThreads DEF MailNotSent, NoSocket, Refused, Free
<1>3. CASE MailBegins
  BY <1>3 DEF MailBegins
<1>4. CASE MailGoesOn
  BY <1>4 DEF MailGoesOn, Dialogue, Finish, Mismatch
<1>5. CASE MailServer
  BY <1>5 DEF MailServer
<1>6. CASE LogAlert
  BY <1>6, TwoThreads DEF LogAlert
<1>7. CASE LogError
  BY <1>7, TwoThreads DEF LogError
<1>8. ASSUME NEW t \in Threads, Formater(t)
      PROVE  DialogStep /\ RunStep /\ deaths' = deaths /\ up' = up
  <2>1. (fds < FdLimit) \in BOOLEAN
    OBVIOUS
  <2> QED BY <1>8, <2>1 DEF Formater
<1>9. CASE Passes
  BY <1>9 DEF Passes
<1>10. CASE Killed
  BY <1>10 DEF Killed, Dies
<1>11. CASE MailKills
  BY <1>11 DEF MailKills, Dies
<1>13. CASE Restart
  BY <1>13 DEF Restart
<1>12. CASE Rest \/ UNCHANGED vars
  BY <1>12 DEF Rest, vars
<1> QED
  BY <1>1, <1>2, <1>3, <1>4, <1>5, <1>6, <1>7, <1>8, <1>9, <1>10, <1>11, <1>12,
     <1>13 DEF Next

LEMMA DescriptorsKept == DialogInv /\ FileTypes /\ Descriptors /\ [Next]_vars => Descriptors'
<1> SUFFICES ASSUME DialogInv, FileTypes, Descriptors, [Next]_vars PROVE Descriptors'
  OBVIOUS
<1> USE MailmanAssumption, TwoThreads DEF Descriptors, DescriptorsAccounted
<1>0. pos \in Nat /\ opened \in BOOLEAN /\ Quit \in Nat
  BY DialogSteps DEF DialogInv, DialogTypes, FileTypes
<1>1. CASE Alert \/ LogAlert \/ LogError \/ Passes \/ Rest \/ UNCHANGED vars
  BY <1>1 DEF Alert, LogAlert, LogError, Log, Passes, Second, Rest, vars, mail, log
<1>2. CASE MailNotSent
  BY <1>0, <1>2 DEF MailNotSent, NoSocket, Refused, Log, mail
<1>3. CASE MailBegins
  BY <1>0, <1>3 DEF MailBegins, Connect, log
<1>4. CASE MailGoesOn
  BY <1>0, <1>4 DEF MailGoesOn, Dialogue, Say, GoOn, Finish, Mismatch, Waits, Over, log
<1>5. CASE MailServer
  BY <1>5 DEF MailServer, Reply, HangUp, log
<1>6. ASSUME NEW t \in Threads, Formater(t) PROVE Descriptors'
  <2>1. CASE (Guard(t) \/ Count(t) \/ PutAway(t) \/ Write(t)) /\ UNCHANGED fds
    BY <1>6, <2>1 DEF Formater, Guard, Count, PutAway, Write
  <2>2. CASE Close(t) /\ fds' = IF opened THEN fds - 1 ELSE fds
    BY <1>0, <1>6, <2>2 DEF Formater, Close
  <2>3. CASE Open(t, fds < FdLimit) /\ fds' = IF fds < FdLimit THEN fds + 1 ELSE fds
    <3>1. opened = FALSE
      BY <2>3 DEF Open, Move, FileTypes
    <3>2. opened' = (fds < FdLimit) /\ pos' = pos /\ failed' = failed
      BY <1>6, <2>3 DEF Formater, Open
    <3>3. CASE fds < FdLimit
      <4>1. opened' /\ fds' = fds + 1
        BY <2>3, <3>2, <3>3
      <4>2. fds + 1 \in 0..FdLimit
        BY <3>3
      <4>3. (IF opened' THEN 1 ELSE 0) = 1 /\ (IF opened THEN 1 ELSE 0) = 0
        BY <3>1, <4>1
      <4> QED BY <1>0, <3>2, <4>1, <4>2, <4>3
    <3>4. CASE ~(fds < FdLimit)
      <4>1. ~opened' /\ fds' = fds
        BY <2>3, <3>2, <3>4
      <4>2. (IF opened' THEN 1 ELSE 0) = 0 /\ (IF opened THEN 1 ELSE 0) = 0
        BY <3>1, <4>1
      <4> QED BY <1>0, <3>2, <4>1, <4>2
    <3> QED BY <3>3, <3>4
  <2> QED BY <1>6, <2>1, <2>2, <2>3 DEF Formater
<1>7. CASE Killed \/ MailKills
  BY <1>7 DEF Killed, MailKills, Dies, mail, log
<1>8. CASE Restart
  BY <1>8 DEF Restart, Over, Reopened
<1> QED
  BY <1>1, <1>2, <1>3, <1>4, <1>5, <1>6, <1>7, <1>8 DEF Next

LEMMA OwingKept == Owing /\ [Next]_vars => Owing'
<1> SUFFICES ASSUME Owing, [Next]_vars PROVE Owing'
  OBVIOUS
<1> USE DEF Owing
<1>1. CASE Alert
  <2>1. \A r \in Rules : r \in Seq({"mail", "log"})
    BY AlertActionsAssumption
  <2> QED BY <1>1, <2>1 DEF Alert, Running
<1>2. ASSUME NEW action, Doing(action) PROVE todo' \in Seq({"mail", "log"})
  <2>1. todo # << >> /\ todo' = Tail(todo)
    BY <1>2 DEF Doing
  <2> QED BY <2>1
<1>3. CASE MailNotSent \/ MailBegins \/ LogAlert
  BY <1>2, <1>3 DEF MailNotSent, MailBegins, LogAlert, Running
<1>4. CASE LogError
  BY <1>4 DEF LogError, Running
<1>5. CASE MailGoesOn \/ MailServer \/ Passes \/ Rest \/ UNCHANGED vars
  BY <1>5 DEF MailGoesOn, MailServer, Passes, Rest, vars, Running
<1>6. ASSUME NEW t \in Threads, Formater(t) PROVE Owing'
  BY <1>6 DEF Formater, Running
<1>7. CASE Killed \/ MailKills
  BY <1>7 DEF Killed, MailKills, Dies
<1>8. CASE Restart
  <2>1. << >> \in Seq({"mail", "log"})
    OBVIOUS
  <2> QED BY <1>8, <2>1 DEF Restart
<1> QED
  BY <1>1, <1>3, <1>4, <1>5, <1>6, <1>7, <1>8 DEF Next

LEMMA Holds == Spec => []IInv
<1>1. Init => IInv
  <2> SUFFICES ASSUME Init PROVE IInv
    OBVIOUS
  <2>1. DialogInv /\ LogInv
    BY DialogInit, LogInvInit DEF Init
  <2>2. Sized
    BY FS_EmptySet, TwoThreads DEF Init, LogInit, Sized, Writing, Inside, Bound, Dead
  <2>3. Descriptors /\ Owing
    BY MailmanAssumption DEF Init, MailInit, LogInit, Descriptors, DescriptorsAccounted, Owing
  <2> QED BY <2>1, <2>2, <2>3 DEF IInv
<1>2. IInv /\ [Next]_vars => IInv'
  <2> SUFFICES ASSUME IInv, [Next]_vars PROVE IInv'
    OBVIOUS
  <2>1. DialogStep /\ LogStep
    BY StepParts DEF LogStep, RunStep
  <2>2. DialogInv' /\ LogInv'
    BY <2>1, DialogKept, LogInvKept DEF IInv
  <2>3. Sized'
    BY StepParts, SizedKept DEF IInv, LogInv
  <2>4. Descriptors' /\ Owing'
    BY DescriptorsKept, OwingKept DEF IInv, LogInv
  <2> QED BY <2>2, <2>3, <2>4 DEF IInv
<1> QED
  BY <1>1, <1>2, PTL DEF Spec

(* Whatever the server says and however the threads take turns, every variable *)
(* keeps its type, the mutex keeps the threads apart in formater, and no two   *)
(* files were put away under one name.                                      *)
THEOREM AlertActionsTypeCorrect == Spec => []TypeOK
<1>1. IInv => TypeOK
  BY DEF IInv, DialogInv, DialogTypes, LogInv, FileTypes, Stream, OldNames, Inside, Descriptors,
         Owing, TypeOK, MailTypeOK, LogTypeOK
<1> QED
  BY <1>1, Holds, PTL

(* A dialog that came to QUIT left a mail: with any number of recipients, the  *)
(* server cannot refuse the message, or all of them, and be taken to have     *)
(* accepted it, in whatever segments its replies come.                       *)
THEOREM WhatIsSentIsTaken == Spec => []SentMeansTaken
<1>1. IInv => SentMeansTaken
  BY DialogGives DEF IInv
<1> QED
  BY <1>1, Holds, PTL

(* Descriptors are lost by failed mails only, one by each.                   *)
THEOREM DescriptorsAreAccountedFor == Spec => []DescriptorsAccounted
<1>1. IInv => DescriptorsAccounted
  BY DEF IInv, Descriptors
<1> QED
  BY <1>1, Holds, PTL

(* Rotation by any thread, at any moment, overwrites no line of the log: the   *)
(* second in the name of a file that was put away is its own, because a       *)
(* second is too short to fill the next.                                    *)
THEOREM NoLineIsLost == Spec => []NoLineLost
<1>1. IInv => NoLineLost
  BY DEF IInv, LogInv
<1> QED
  BY <1>1, Holds, PTL

(* The file keeps its bound, whatever the limit and however often the process *)
(* has died.                                                               *)
THEOREM SizeIsBounded == Spec => []SizeBounded
<1>1. IInv => SizeBounded
  BY SizedGives DEF IInv, LogInv
<1> QED
  BY <1>1, Holds, PTL
-------------------------------------------------------------------------------
(* Why an alert ends: what EveryAlertEnds needs besides fairness.            *)

(* Where sendmail waits for a reply and there is none, the server has one to   *)
(* give, also after replies that were split or received together.            *)
AnswerIsDue == Waits /\ wire = << >> => answered < pos

(* How many steps of the analysis thread an alert takes at most.             *)
Left ==
  Len(todo) * (2 * Quit + 1)
    + (IF pos = 0 THEN 0 ELSE 2 * (Quit - pos) + (IF said THEN 1 ELSE 2))

AlertShortens ==
  [][/\ MailNotSent \/ MailBegins \/ MailGoesOn \/ LogAlert => Left' < Left
     /\ Left > 0 => Left' <= Left]_vars

Due == pos > 0 => answered < pos \/ (said /\ wire # << >>)

LEMMA DueKept == DialogInv /\ Due /\ DialogStep => Due'
<1> SUFFICES ASSUME DialogInv, Due, DialogStep PROVE Due'
  OBVIOUS
<1> USE DEF Due
<1>1. pos \in Nat /\ answered \in Nat /\ said \in BOOLEAN /\ (pos > 0 => answered <= Spoken)
  BY DialogSteps, MailmanAssumption DEF DialogInv, DialogTypes, Quiet, InOrder
<1>2. CASE UNCHANGED dialog
  BY <1>2 DEF dialog, server
<1>3. CASE Connect
  <2>1. answered = 0
    BY <1>3 DEF Connect, DialogInv, Quiet
  <2> QED BY <1>3, <2>1 DEF Connect
<1>4. CASE Say
  BY <1>4 DEF Say, server
<1>5. CASE GoOn
  BY <1>1, <1>5 DEF GoOn, server, Waits, Spoken
<1>6. CASE Reply
  <2>1. answered' = answered + 1 /\ pos' = pos /\ said' = said /\ answered < Spoken
    BY <1>6 DEF Reply
  <2>2. wire' # << >>
    <3>1. PICK segments \in 1..2, code \in Codes : wire' = wire \o [i \in 1..segments |-> code]
      <4>1. answered + 1 \in 1..Quit
        BY <1>1, <2>1, DialogSteps, MailmanAssumption DEF DialogInv, DialogTypes, Spoken
      <4>2. Dialog[answered'].hear \in Codes \cup {"any"}
        BY <2>1, <4>1, DialogSteps
      <4>3. PICK ok \in BOOLEAN, segments \in IF MayContinue THEN 1..2 ELSE {1} :
              LET step == Dialog[answered']
                  code == IF ok THEN (IF step.hear = "any" THEN "220" ELSE step.hear) ELSE "5xx"
              IN  wire' = wire \o [i \in 1..segments |-> code]
        BY <1>6, Zenon DEF Reply
      <4> DEFINE heard == Dialog[answered'].hear
                 code == IF ok THEN (IF heard = "any" THEN "220" ELSE heard) ELSE "5xx"
      <4>4. code \in Codes
        BY <4>2 DEF Codes
      <4>5. wire' = wire \o [i \in 1..segments |-> code]
        BY <4>3
      <4>6. segments \in 1..2
        BY <4>3
      <4> HIDE DEF code
      <4> QED BY <4>4, <4>5, <4>6
    <3>2. wire \in Seq(Codes) /\ [i \in 1..segments |-> code] \in Seq(Codes)
          /\ Len([i \in 1..segments |-> code]) = segments
      BY DEF DialogInv, DialogTypes
    <3>3. Len(wire') = Len(wire) + segments
      BY <3>1, <3>2
    <3> QED BY <3>2, <3>3
  <2> QED BY <1>1, <2>1, <2>2 DEF Spoken
<1>7. CASE HangUp
  BY <1>7 DEF HangUp
<1>8. CASE Over
  BY <1>8 DEF Over
<1> QED
  BY <1>2, <1>3, <1>4, <1>5, <1>6, <1>7, <1>8 DEF DialogStep

(* The program and the server never wait for each other: a dialog that waits   *)
(* with nothing to read has said more than the server has answered, for any    *)
(* number of recipients and however replies are cut (mailman.cpp: recv_tcp,   *)
(* which has no timeout).                                                  *)
THEOREM NoMutualWait == Spec => []AnswerIsDue
<1>1. Init => Due
  BY DEF Init, MailInit, Due
<1>2. IInv /\ Due /\ [Next]_vars => Due'
  BY StepParts, DueKept DEF IInv
<1>3. IInv /\ Due => AnswerIsDue
  BY DEF Due, AnswerIsDue, Waits, IInv, DialogInv, DialogTypes
<1> QED
  BY <1>1, <1>2, <1>3, Holds, PTL DEF Spec

LEMMA LeftIs ==
  ASSUME NEW t \in Seq({"mail", "log"}), NEW p \in 0..Quit, NEW s \in BOOLEAN, Quit \in Nat
  PROVE  LET n == Len(t) * (2 * Quit + 1)
                    + (IF p = 0 THEN 0 ELSE 2 * (Quit - p) + (IF s THEN 1 ELSE 2))
         IN  n \in Nat /\ (n = 0 <=> t = << >> /\ p = 0)
<1> DEFINE n == Len(t)
           k == 2 * Quit + 1
           rest == IF p = 0 THEN 0 ELSE 2 * (Quit - p) + (IF s THEN 1 ELSE 2)
<1>1. n \in Nat /\ k \in Nat \ {0} /\ (n = 0 <=> t = << >>)
  BY EmptySeq
<1>2. rest \in Nat /\ (rest = 0 <=> p = 0)
  OBVIOUS
<1>3. n * k + rest \in Nat /\ (n * k + rest = 0 <=> t = << >> /\ p = 0)
  <2> HIDE DEF n, k, rest
  <2>1. n * k \in Nat /\ (n * k = 0 <=> n = 0)
    BY <1>1
  <2> QED BY <1>1, <1>2, <2>1
<1> QED
  BY <1>3

LEMMA LeftStep ==
  ASSUME IInv, IInv', Next
  PROVE  /\ MailNotSent \/ MailBegins \/ MailGoesOn \/ LogAlert => Left' < Left
         /\ Left > 0 => Left' <= Left
<1> DEFINE k == 2 * Quit + 1
           rest == IF pos = 0 THEN 0 ELSE 2 * (Quit - pos) + (IF said THEN 1 ELSE 2)
<1>1. /\ Left \in Nat /\ Left' \in Nat /\ Quit \in Nat /\ Quit' = Quit
      /\ pos \in 0..Quit /\ pos' \in 0..Quit /\ said \in BOOLEAN /\ said' \in BOOLEAN
      /\ Left = 0 <=> todo = << >> /\ pos = 0
      /\ Left' = 0 <=> todo' = << >> /\ pos' = 0
  <2>1. Quit \in Nat /\ Quit' = Quit
    BY DialogSteps, MailmanAssumption DEF Quit
  <2>2. /\ todo \in Seq({"mail", "log"}) /\ pos \in 0..Quit /\ said \in BOOLEAN
        /\ todo' \in Seq({"mail", "log"}) /\ pos' \in 0..Quit /\ said' \in BOOLEAN
    BY <2>1 DEF IInv, Owing, DialogInv, DialogTypes
  <2>3. Left \in Nat /\ (Left = 0 <=> todo = << >> /\ pos = 0)
    BY <2>1, <2>2, LeftIs DEF Left
  <2>4. Left' \in Nat /\ (Left' = 0 <=> todo' = << >> /\ pos' = 0)
    BY <2>1, <2>2, LeftIs DEF Left
  <2> QED BY <2>1, <2>2, <2>3, <2>4
<1>2. Left = Len(todo) * k + rest /\ Left' = Len(todo') * k + rest' /\ Len(todo) \in Nat
  BY DEF Left, Quit, IInv, Owing
<1>3. ASSUME NEW action, Doing(action), rest' < k
      PROVE  Left' < Left
  <2>1. todo \in Seq({"mail", "log"}) /\ todo # << >> /\ todo' = Tail(todo) /\ pos = 0
    BY <1>3 DEF Doing, Free, IInv, Owing
  <2>2. Len(todo') = Len(todo) - 1 /\ Len(todo) \in Nat \ {0}
    BY <2>1, EmptySeq
  <2>3. rest = 0
    BY <2>1
  <2>4. k \in Nat
    BY <1>1
  <2>5. rest' \in Int
    BY <1>1
  <2> HIDE DEF k, rest
  <2>6. (Len(todo) - 1) * k = Len(todo) * k - k
    BY <2>2, <2>4
  <2>7. Len(todo) * k \in Nat
    BY <2>2, <2>4
  <2> QED BY <1>2, <1>3, <2>2, <2>3, <2>4, <2>5, <2>6, <2>7
<1>4. CASE MailNotSent \/ LogAlert
  <2>1. pos = 0 /\ pos' = 0
    BY <1>4 DEF MailNotSent, LogAlert, Doing, Free, NoSocket, Refused, mail
  <2>2. rest' = 0 /\ 0 < k
    BY <1>1, <2>1
  <2>3. Left' < Left
    BY <1>3, <1>4, <2>2 DEF MailNotSent, LogAlert
  <2> QED BY <1>1, <2>3
<1>5. CASE MailBegins
  <2>1. pos' = 1 /\ said' = TRUE
    BY <1>5 DEF MailBegins, Connect
  <2>2. Quit \in Nat /\ Quit >= 1 /\ Quit' = Quit
    BY DialogSteps, MailmanAssumption DEF Quit
  <2>3. rest' = 2 * (Quit - 1) + 1
    BY <2>1, <2>2
  <2>4. rest' < k
    BY <2>2, <2>3
  <2> HIDE DEF k, rest
  <2>5. Left' < Left
    BY <1>3, <1>5, <2>4 DEF MailBegins
  <2> QED BY <1>1, <2>5
<1>6. ASSUME todo' = todo, rest' < rest PROVE Left' < Left
  <2>1. rest \in Int /\ rest' \in Int /\ k \in Nat
    BY <1>1
  <2> HIDE DEF k, rest
  <2>2. Len(todo) * k \in Nat
    BY <1>2, <2>1
  <2> QED BY <1>2, <1>6, <2>1, <2>2
<1>7. CASE MailGoesOn
  <2>1. todo' = todo /\ Quit' = Quit
    BY <1>7 DEF MailGoesOn, Quit
  <2>2. pos > 0 /\ \/ pos' = pos /\ ~said /\ said'
                   \/ pos' = pos + 1 /\ said /\ ~said' /\ pos < Quit
                   \/ pos' = 0
    BY <1>1, <1>7 DEF MailGoesOn, Dialogue, Say, GoOn, Finish, Mismatch, Over, Waits
  <2>3. rest' < rest
    <3>1. CASE pos' = pos /\ ~said /\ said'
      <4>1. rest = 2 * (Quit - pos) + 2 /\ rest' = 2 * (Quit - pos) + 1
        BY <2>1, <2>2, <3>1
      <4> HIDE DEF rest
      <4> QED BY <1>1, <4>1
    <3>2. CASE pos' = pos + 1 /\ said /\ ~said' /\ pos < Quit
      <4>1. rest = 2 * (Quit - pos) + 1 /\ rest' = 2 * (Quit - (pos + 1)) + 2
        BY <1>1, <2>1, <2>2, <3>2
      <4> HIDE DEF rest
      <4> QED BY <1>1, <4>1
    <3>3. CASE pos' = 0
      <4>1. rest \in Nat /\ rest >= 1 /\ rest' = 0
        BY <1>1, <2>2, <3>3
      <4> HIDE DEF rest
      <4> QED BY <4>1
    <3> QED BY <2>2, <3>1, <3>2, <3>3
  <2> HIDE DEF k, rest
  <2>4. Left' < Left
    BY <1>6, <2>1, <2>3
  <2> QED BY <1>1, <2>4
<1>8. CASE Alert
  <2>1. todo = << >> /\ pos = 0
    BY <1>8 DEF Alert, Free
  <2>2. ~(MailNotSent \/ MailBegins \/ MailGoesOn \/ LogAlert)
    BY <2>1 DEF MailNotSent, MailBegins, MailGoesOn, LogAlert, Doing, Dialogue, Say, GoOn, Finish,
                Mismatch, Waits
  <2> QED BY <1>1, <2>1, <2>2
<1>9. CASE \/ MailServer \/ LogError \/ (\E t \in Threads : Formater(t)) \/ Passes \/ Rest
           \/ Killed \/ MailKills
  <2>1. UNCHANGED <<todo, pos, said>>
    BY <1>9 DEF MailServer, Reply, HangUp, LogError, Formater, Passes, Rest, Killed, MailKills,
                Dies, vars, mail
  <2>2. Left' = Left
    BY <2>1 DEF Left, Quit
  <2> QED BY <1>1, <1>4, <1>5, <1>7, <2>2
<1>10. CASE Restart
  <2>1. todo' = << >> /\ pos' = 0
    BY <1>10 DEF Restart, Over
  <2>2. Left' = 0
    BY <1>1, <2>1
  <2> QED BY <1>1, <1>4, <1>5, <1>7, <2>2
<1> QED
  BY <1>4, <1>5, <1>7, <1>8, <1>9, <1>10 DEF Next

(* An alert is a bounded number of steps of the analysis thread, whatever the   *)
(* server says, and nothing another thread, the clock or the server does adds  *)
(* to them: the only thing it can wait for without bound is the next word of   *)
(* the server.                                                             *)
THEOREM AlertsAreFinite == Spec => AlertShortens
<1>1. IInv /\ IInv' /\ [Next]_vars =>
        [/\ MailNotSent \/ MailBegins \/ MailGoesOn \/ LogAlert => Left' < Left
         /\ Left > 0 => Left' <= Left]_vars
  BY LeftStep
<1> QED
  BY <1>1, Holds, PTL DEF Spec, AlertShortens
===============================================================================
