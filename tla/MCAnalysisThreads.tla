--------------------------- MODULE MCAnalysisThreads ---------------------------
(* AnalysisThreads with two files.                                          *)
EXTENDS AnalysisThreads, TLC

CONSTANTS f1, f2

TwoFiles == {f1, f2}
===============================================================================
