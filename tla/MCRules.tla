-------------------------------- MODULE MCRules -------------------------------
(* Small configurations for TLC: two checks over a tree with three directories *)
(* below one another, and a sibling whose name begins like the first.         *)
EXTENDS Rules, TLC

CONSTANTS NoDir

A   == <<"a">>
AB  == <<"a", "b">>
ABC == <<"a", "b", "c">>
AX  == <<"ax">>

TreeDirs  == {A, AB, ABC, AX}
TreeNames == {A \o <<"f.c">>, AB \o <<"f.c">>, ABC \o <<"g">>, AX \o <<"f.c">>}
TreeBegins == {<<"a", "ax">>}

(* The patterns are "\.c$" and "/a/b".                                      *)
TwoPatterns == {"dot_c", "a_b"}
TwoMatches(p, name) == IF p = "dot_c" THEN Last(name) = "f.c" ELSE IsPrefix(AB, name)
TwoSpelled(p) == IF p = "a_b" THEN AB ELSE NoDir

Alerts == {[CHANGED |-> {}, CREATED |-> {}, DELETED |-> {}],
           [CHANGED |-> {"log"}, CREATED |-> {}, DELETED |-> {"log"}]}

CheckOn(paths) ==
  [path : paths, recursive : BOOLEAN, alert : Alerts,
   filter : {{}, {"a_b"}, {"dot_c"}}, grep : {{}, {"dot_c"}}]

RootAlert == [CHANGED |-> {"mail"}, CREATED |-> {"mail"}, DELETED |-> {}]

Pairs(paths1, paths2) ==
  {[alert |-> RootAlert, checks |-> <<c, d>>] : c \in CheckOn(paths1), d \in CheckOn(paths2)}

SeparateChecks == Pairs({{AB}}, {{AX}})

(* Nested, below the directory that may be excluded, equal, and of names that  *)
(* begin alike; and separate ones.                                          *)
TwoChecks == Pairs({{A}}, {{A}, {AB}, {ABC}, {AX}}) \cup SeparateChecks

(* Of any two directories, each comes first in one of the orders.           *)
TreeRanks == {(<< >> :> 0) @@ (A :> 1) @@ (AB :> 2) @@ (ABC :> 3) @@ (AX :> 4),
              (<< >> :> 0) @@ (A :> 4) @@ (AB :> 3) @@ (ABC :> 2) @@ (AX :> 1)}
===============================================================================
