------------------------------ MODULE MCDirWatch ------------------------------
(* DirWatch with two directories that come and go below Top and a file.      *)
EXTENDS DirWatch

CONSTANTS top, d1, d2, f1, x, y

TwoDirs == {top, d1, d2}
OneFile == {f1}
TwoNames == {x, y}

(* d2 in d1, or not there yet; the file in any directory, or not there yet.   *)
SmallTrees ==
  {(top :> << >> @@ d1 :> <<x>> @@ d2 :> low @@ f1 :> file) :
     low \in {Nowhere, <<x, y>>}, file \in {Nowhere, <<y>>, <<x, x>>}}
  \cup {(top :> << >> @@ d1 :> <<x>> @@ d2 :> <<x, y>> @@ f1 :> <<x, y, x>>)}

(* A recursive check, one of the directory above that is not recursive, and   *)
(* one of the directory below, which is there to be walked twice.            *)
NestedRoots == << [path |-> << x >>, recursive |-> TRUE],
                  [path |-> << >>, recursive |-> FALSE],
                  [path |-> << x, y >>, recursive |-> FALSE] >>

(* A directory that a filter spells.                                        *)
YExcluded == {<< y >>}

(* The directories the kernel may refuse: the one above and the one below, of  *)
(* which the latter is walked twice.                                        *)
XMayFail == {<< x >>, << x, y >>}
===============================================================================
