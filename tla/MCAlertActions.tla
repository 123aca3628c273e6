---------------------------- MODULE MCAlertActions ----------------------------
(* AlertActions with the rules of README.md: mail and log, or log alone.       *)
EXTENDS AlertActions, TLC

MainAndAnalysis == {"main", "analysis"}
MailAndLog == {<<"mail", "log">>, <<"log">>}
===============================================================================
