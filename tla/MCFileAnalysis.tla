---------------------------- MODULE MCFileAnalysis ----------------------------
(* Small instances of FileAnalysis for TLC.                                 *)
EXTENDS FileAnalysis, TLC

CONSTANTS f1, v1, v2

OneFile     == {f1}
OneContent  == {v1}
TwoContents == {v1, v2}
ScanOnly    == {FALSE}
ScanOrSkip  == {TRUE, FALSE}

ContentSymmetry == Permutations(TwoContents)
===============================================================================
