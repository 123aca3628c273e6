----------------------------- MODULE RulesProofs ------------------------------
(***************************************************************************)
(* What the TLA+ proof system checks of Rules, for every tree, every set of  *)
(* patterns, every configuration and every order in which the maps list       *)
(* their keys.                                                             *)
(***************************************************************************)
EXTENDS Rules, TLAPS, SequenceTheorems, WellFoundedInduction

Components == UNION {Range(p) : p \in Dirs \cup Names}

Path == Seq(Components)

(* Paths and their beginnings.                                              *)
LEMMA PathsAreSequences == Dirs \cup Names \subseteq Path
<1> SUFFICES ASSUME NEW p \in Dirs \cup Names PROVE p \in Path
  OBVIOUS
<1>1. p \in Seq(Range(p)) /\ Range(p) \subseteq Components
  BY DirsAssumption, NamesAssumption DEF Components
<1> HIDE DEF Components
<1> QED
  BY <1>1 DEF Path

LEMMA SubPath ==
  ASSUME NEW p \in Path, NEW n \in 0..Len(p)
  PROVE  /\ SubSeq(p, 1, n) \in Path /\ Len(SubSeq(p, 1, n)) = n
         /\ \A i \in 1..n : SubSeq(p, 1, n)[i] = p[i]
<1>1. Len(p) \in Nat /\ \A i \in 1..n : p[i] \in Components
  BY DEF Path
<1> QED
  BY <1>1, SubSeqProperties DEF Path

LEMMA PrefixIs ==
  ASSUME NEW p \in Path, NEW q \in Path
  PROVE  IsPrefix(p, q) <=> Len(p) <= Len(q) /\ \A i \in 1..Len(p) : p[i] = q[i]
<1>1. Len(p) \in Nat /\ Len(q) \in Nat
  BY DEF Path
<1>2. /\ SubSeq(p, 1, Len(p)) \in Path /\ Len(SubSeq(p, 1, Len(p))) = Len(p)
      /\ \A i \in 1..Len(p) : SubSeq(p, 1, Len(p))[i] = p[i]
  BY <1>1, SubPath
<1>3. ASSUME Len(p) <= Len(q)
      PROVE  (SubSeq(p, 1, Len(p)) = SubSeq(q, 1, Len(p))) <=> \A i \in 1..Len(p) : p[i] = q[i]
  <2>1. /\ SubSeq(q, 1, Len(p)) \in Path /\ Len(SubSeq(q, 1, Len(p))) = Len(p)
        /\ \A i \in 1..Len(p) : SubSeq(q, 1, Len(p))[i] = q[i]
    BY <1>1, <1>3, SubPath
  <2>2. ASSUME \A i \in 1..Len(p) : p[i] = q[i]
        PROVE  SubSeq(p, 1, Len(p)) = SubSeq(q, 1, Len(p))
    BY <1>2, <2>1, <2>2, SeqEqual DEF Path
  <2> QED BY <1>2, <2>1, <2>2
<1> QED
  BY <1>1, <1>3 DEF IsPrefix

LEMMA KeysAreDirs == Keys \ {<< >>} \subseteq Dirs /\ Dirs \subseteq Keys
<1>1. Keys \ {<< >>} \subseteq Dirs
  BY DirsAssumption DEF Keys
<1>2. ASSUME NEW d \in Dirs PROVE d \in Prefixes(d)
  <2>1. d \in Path /\ Len(d) \in Nat
    BY PathsAreSequences DEF Path
  <2>2. /\ SubSeq(d, 1, Len(d)) \in Path /\ Len(SubSeq(d, 1, Len(d))) = Len(d)
        /\ \A i \in 1..Len(d) : SubSeq(d, 1, Len(d))[i] = d[i]
    BY <2>1, SubPath
  <2>3. SubSeq(d, 1, Len(d)) = d
    BY <2>1, <2>2, SeqEqual DEF Path
  <2>4. Len(d) \in 0..Len(d)
    BY <2>1
  <2> QED BY <2>3, <2>4 DEF Prefixes
<1> QED
  BY <1>1, <1>2 DEF Keys

(* A directory above that of a file is a beginning of its name.              *)
LEMMA AboveFile ==
  ASSUME NEW f \in Names, NEW d \in Dirs, IsPrefix(d, Front(f))
  PROVE  IsPrefix(d, f)
<1>1. f \in Path /\ d \in Path /\ Front(f) \in Path /\ Len(f) \in Nat \ {0} /\ Len(d) \in Nat
  BY PathsAreSequences, NamesAssumption DEF Path
<1>2. Front(f) = SubSeq(f, 1, Len(f) - 1)
  BY DEF Front
<1>3. Len(Front(f)) = Len(f) - 1 /\ \A i \in 1..Len(f) - 1 : Front(f)[i] = f[i]
  <2> DEFINE n == Len(f) - 1
  <2>1. n \in 0..Len(f)
    BY <1>1
  <2>2. Front(f) = SubSeq(f, 1, n)
    BY <1>2
  <2> HIDE DEF n
  <2>3. Len(Front(f)) = n /\ \A i \in 1..n : Front(f)[i] = f[i]
    BY <1>1, <2>1, <2>2, SubPath
  <2> QED BY <2>3 DEF n
<1> QED
  BY <1>1, <1>3, PrefixIs

(* Whatever begins like the name of a file begins like each directory above. *)
LEMMA RelatedAbove ==
  ASSUME NEW f \in Path, NEW p \in Path, NEW d \in Path, IsPrefix(p, f), is_prefix(f, d)
  PROVE  is_prefix(p, d)
<1>1. Len(p) \in Nat /\ Len(d) \in Nat /\ Len(f) \in Nat
  BY DEF Path
<1>2. Len(p) <= Len(f) /\ \A i \in 1..Len(p) : p[i] = f[i]
  BY PrefixIs
<1>3. \A s, t \in Path : BeginsString(s, t) <=>
        /\ Len(s) <= Len(t)
        /\ \A i \in 1..Len(s) : s[i] = t[i] \/ (i = Len(s) /\ <<s[i], t[i]>> \in Begins)
  BY DEF BeginsString, Path
<1>4. CASE BeginsString(f, d)
  <2>1. Len(f) <= Len(d)
    BY <1>3, <1>4
  <2>2. ASSUME NEW i \in 1..Len(p)
        PROVE  p[i] = d[i] \/ (i = Len(p) /\ <<p[i], d[i]>> \in Begins)
    <3>1. i \in 1..Len(f) /\ (i = Len(f) => i = Len(p))
      BY <1>1, <1>2
    <3>2. f[i] = d[i] \/ (i = Len(f) /\ <<f[i], d[i]>> \in Begins)
      BY <1>3, <1>4, <3>1
    <3> QED BY <1>2, <3>1, <3>2
  <2>3. Len(p) <= Len(d)
    BY <1>1, <1>2, <2>1
  <2> QED BY <1>3, <2>2, <2>3 DEF is_prefix
<1>5. CASE BeginsString(d, f) /\ Len(p) < Len(d)
  <2>1. ASSUME NEW i \in 1..Len(p) PROVE p[i] = d[i]
    <3>1. i \in 1..Len(d) /\ i # Len(d)
      BY <1>1, <1>5
    <3>2. d[i] = f[i]
      BY <1>3, <1>5, <3>1
    <3> QED BY <1>2, <3>2
  <2>2. BeginsString(p, d)
    BY <1>1, <1>3, <1>5, <2>1
  <2> QED BY <2>2 DEF is_prefix
<1>6. CASE BeginsString(d, f) /\ Len(d) <= Len(p)
  <2>1. ASSUME NEW i \in 1..Len(d)
        PROVE  d[i] = p[i] \/ (i = Len(d) /\ <<d[i], p[i]>> \in Begins)
    <3>1. i \in 1..Len(p)
      BY <1>1, <1>6
    <3>2. d[i] = f[i] \/ (i = Len(d) /\ <<d[i], f[i]>> \in Begins)
      BY <1>3, <1>6
    <3> QED BY <1>2, <3>1, <3>2
  <2>2. BeginsString(d, p)
    BY <1>3, <1>6, <2>1
  <2> QED BY <2>2 DEF is_prefix
<1> QED
  BY <1>1, <1>4, <1>5, <1>6 DEF is_prefix
-------------------------------------------------------------------------------
(* Loading.  A function of load_conf is through with Done of the checks.      *)
Phases == {"load_alerter", "load_judge", "load_excluded_dir", "load_watcher", "run"}

Order == [load_alerter |-> 1, load_judge |-> 2, load_excluded_dir |-> 3, load_watcher |-> 4, run |-> 5]

Count == Len(root.checks)

Done(p) ==
  IF Order[phase] < Order[p] THEN 0 ELSE IF Order[phase] = Order[p] THEN next - 1 ELSE Count

Filters == [i \in 1..Count |-> root.checks[i].filter]
Greps   == [i \in 1..Count |-> root.checks[i].grep]

(* What the patterns of the first n checks make of a map.                    *)
Gathered(lists, n) ==
  [d \in {d \in Keys : \E i \in 1..n : d \in root.checks[i].path /\ lists[i] # {}} |->
     UNION {lists[i] : i \in {j \in 1..n : d \in root.checks[j].path}}]

Shape ==
  /\ root \in Configs /\ rank \in Ranks
  /\ phase \in Phases /\ next \in 1..Count

Loaded ==
  /\ _ignore = Gathered(Filters, Done("load_judge"))
  /\ _grep = Gathered(Greps, Done("load_judge"))

LEMMA ConfigShape ==
  ASSUME root \in Configs
  PROVE  /\ Count \in Nat \ {0} /\ root.checks \in Seq(Check)
         /\ \A i \in 1..Count : root.checks[i] \in Check /\ root.checks[i].path \subseteq Keys \ {<< >>}
<1>1. root.checks \in Seq(Check) /\ root.checks # << >>
  BY ConfigsAssumption
<1>2. Count \in Nat \ {0}
  BY <1>1 DEF Count
<1>3. \A i \in 1..Count : root.checks[i] \in Check
  BY <1>1 DEF Count
<1>4. \A c \in Check : c.path \subseteq Keys \ {<< >>}
  BY DEF Check
<1> QED
  BY <1>1, <1>2, <1>3, <1>4

LEMMA LoadSteps ==
  ASSUME Shape, NextCheck, phase # "run", root' = root, rank' = rank
  PROVE  /\ Shape'
         /\ \A p \in Phases : Done(p)' = IF p = phase THEN Done(p) + 1 ELSE Done(p)
         /\ next = Done(phase) + 1
<1> USE DEF Shape, Phases
<1>1. Count' = Count /\ Count \in Nat \ {0}
  BY ConfigShape DEF Count
<1>2. Shape'
  BY <1>1 DEF NextCheck, After, Count
<1>3. next = Done(phase) + 1
  BY DEF Done, Order
<1>4. CASE next < Count
  <2>1. next' = next + 1 /\ phase' = phase
    BY <1>4 DEF NextCheck, Count
  <2> QED BY <1>1, <1>2, <1>3, <2>1 DEF Done, Order
<1>5. CASE next = Count
  <2>1. next' = 1 /\ phase' = After(phase)
    BY <1>5 DEF NextCheck, Count
  <2> QED BY <1>1, <1>2, <1>3, <1>5, <2>1 DEF Done, Order, After
<1> QED BY <1>1, <1>4, <1>5

LEMMA GatherOne ==
  ASSUME Shape, NEW lists, NEW n \in 0..Count - 1
  PROVE  AddPatterns(Gathered(lists, n), root.checks[n + 1].path, lists[n + 1])
           = Gathered(lists, n + 1)
<1> DEFINE c == root.checks[n + 1].path
           l == lists[n + 1]
           D(k) == {d \in Keys : \E i \in 1..k : d \in root.checks[i].path /\ lists[i] # {}}
           U(d, k) == UNION {lists[i] : i \in {j \in 1..k : d \in root.checks[j].path}}
<1>1. Count \in Nat /\ n + 1 \in 1..Count /\ c \subseteq Keys
  <2>1. Count \in Nat \ {0} /\ \A i \in 1..Count : root.checks[i].path \subseteq Keys
    BY ConfigShape DEF Shape
  <2> QED BY <2>1
<1>2. \A i \in 1..n + 1 : i \in 1..n \/ i = n + 1
  OBVIOUS
<1>3. D(n + 1) = IF l = {} THEN D(n) ELSE D(n) \cup c
  BY <1>1, <1>2
<1>4. \A d : U(d, n + 1) = U(d, n) \cup (IF d \in c THEN l ELSE {})
  BY <1>2
<1>5. \A d \in Keys \ D(n) : U(d, n) = {}
  OBVIOUS
<1>6. Gathered(lists, n) = [d \in D(n) |-> U(d, n)]
      /\ Gathered(lists, n + 1) = [d \in D(n + 1) |-> U(d, n + 1)]
  BY DEF Gathered
<1>7. D(n) \subseteq Keys
  OBVIOUS
<1> HIDE DEF D, U
<1> DEFINE regs == Gathered(lists, n)
<1>8. DOMAIN regs = D(n) /\ \A d \in Keys : At(regs, d) = U(d, n)
  BY <1>5, <1>6 DEF At
<1> HIDE DEF regs
<1>9. CASE l = {}
  <2>1. [d \in D(n + 1) |-> U(d, n + 1)] = [d \in D(n) |-> U(d, n)]
    BY <1>3, <1>4, <1>9
  <2> QED BY <1>6, <1>9, <2>1 DEF AddPatterns, regs
<1>10. CASE l # {}
  <2>1. AddPatterns(regs, c, l) = [d \in D(n) \cup c |-> At(regs, d) \cup (IF d \in c THEN l ELSE {})]
    BY <1>8, <1>10 DEF AddPatterns
  <2>2. \A d \in D(n) \cup c : At(regs, d) \cup (IF d \in c THEN l ELSE {}) = U(d, n + 1)
    BY <1>1, <1>4, <1>7, <1>8
  <2>3. D(n + 1) = D(n) \cup c
    BY <1>3, <1>10
  <2> QED BY <1>6, <2>1, <2>2, <2>3 DEF regs
<1> QED
  BY <1>9, <1>10

(* What the walk and the events may come to: something below a path of a      *)
(* check; and which function of load_conf is through.                        *)
Below(name) == \E i \in 1..Count : \E p \in root.checks[i].path : IsPrefix(p, name)

Configured ==
  /\ DOMAIN _conf \subseteq Keys \X Levels /\ Range(_conf) \subseteq SUBSET Actions
  /\ given = NoAlert \/ given \in [name : Names, level : Levels, acts : SUBSET Actions]

Excluded ==
  /\ _filter \subseteq Keys
  /\ \A i \in 1..Done("load_excluded_dir") : \A p \in root.checks[i].filter :
       Spelled(p) \in _filter \cup {NoPath}

Walked ==
  /\ watched \subseteq Dirs /\ watched \cap _filter = {}
  /\ unscanned \subseteq Names
  /\ \A d \in watched : Below(d)
  /\ \A f \in unscanned : Below(f)
  /\ Order[phase] < 4 => watched = {} /\ unscanned = {} /\ analysed = {} /\ ignored = {}

Judged ==
  /\ \A f \in analysed : f \in Names /\ Below(f) /\ Cares(f)
  /\ \A f \in ignored : f \in Names /\ Below(f) /\ ~Cares(f)

IInv == Shape /\ Loaded /\ Configured /\ Excluded /\ Walked /\ Judged

LEMMA InitHolds == Init => IInv
<1> SUFFICES ASSUME Init PROVE IInv
  OBVIOUS
<1> USE DEF Init
<1>1. Shape /\ Count \in Nat \ {0}
  BY ConfigShape DEF Shape, Phases, Count
<1>2. Done("load_judge") = 0 /\ Done("load_excluded_dir") = 0
  BY DEF Done, Order
<1>3. \A lists : Gathered(lists, 0) = Nothing
  <2> SUFFICES ASSUME NEW lists PROVE Gathered(lists, 0) = Nothing
    OBVIOUS
  <2>1. {d \in Keys : \E i \in 1..0 : d \in root.checks[i].path /\ lists[i] # {}} = {}
    OBVIOUS
  <2> QED BY <2>1 DEF Gathered, Nothing
<1>4. Loaded
  BY <1>2, <1>3 DEF Loaded
<1>5. Configured
  BY DEF Configured, Nothing, Range
<1> QED
  BY <1>1, <1>2, <1>4, <1>5 DEF IInv, Excluded, Walked, Judged

(* What depends on the configuration alone, and on the patterns.             *)
LEMMA FrameRoot ==
  ASSUME UNCHANGED root
  PROVE  /\ Count' = Count /\ Filters' = Filters /\ Greps' = Greps
         /\ \A name : Below(name)' <=> Below(name)
         /\ \A lists, n : Gathered(lists, n)' = Gathered(lists, n)
BY DEF Count, Below, Filters, Greps, Gathered

LEMMA FrameCares ==
  ASSUME UNCHANGED <<rank, _ignore, _grep>>
  PROVE  \A name : Cares(name)' <=> Cares(name)
BY DEF Cares, match, Related

(* load_conf is not yet at the walk: nothing is watched or judged.           *)
Early == Order[phase] < 4

LEMMA EarlyNext ==
  ASSUME IInv, Early, NextCheck, UNCHANGED <<root, rank, watched, unscanned, history>>
  PROVE  /\ Shape' /\ Judged'
         /\ (watched' \cap _filter' = {}) /\ watched' = {} /\ unscanned' = {}
         /\ analysed' = {} /\ ignored' = {} /\ given' = given
<1>1. watched = {} /\ unscanned = {} /\ analysed = {} /\ ignored = {}
  BY DEF IInv, Walked, Early
<1>2. phase # "run"
  BY DEF Early, Order
<1>3. Shape'
  BY <1>2, LoadSteps DEF IInv
<1> QED
  BY <1>1, <1>3 DEF history, Judged

LEMMA AlerterStep == IInv /\ LoadAlerter => IInv'
<1> SUFFICES ASSUME IInv, LoadAlerter PROVE IInv'
  OBVIOUS
<1> USE DEF LoadAlerter
<1>1. Early
  BY DEF Early, Order
<1>2. /\ Shape' /\ Judged' /\ watched' = {} /\ unscanned' = {}
      /\ analysed' = {} /\ ignored' = {} /\ given' = given
  BY <1>1, EarlyNext
<1>3. Done("load_judge")' = Done("load_judge") /\ Done("load_excluded_dir")' = Done("load_excluded_dir")
  BY LoadSteps DEF IInv, Phases
<1>4. Loaded'
  BY <1>3, FrameRoot DEF IInv, Loaded
<1>5. Excluded'
  BY <1>3 DEF IInv, Excluded
<1>6. Walked'
  BY <1>2 DEF Walked
<1>7. Configured'
  <2> DEFINE check == root.checks[next]
             D == DOMAIN _conf \cup (check.path \X Levels)
             R(k) == IF k[1] \in check.path
                     THEN lower_first(check.alert[k[2]], root.alert[k[2]]) ELSE _conf[k]
  <2>1. check \in Check /\ check.path \subseteq Keys /\ root.alert \in [Levels -> SUBSET Actions]
    BY ConfigShape, ConfigsAssumption DEF IInv, Shape
  <2>2. check.alert \in [Levels -> SUBSET Actions]
    BY <2>1 DEF Check
  <2>3. D \subseteq Keys \X Levels
    BY <2>1 DEF IInv, Configured
  <2>4. ASSUME NEW k \in D PROVE R(k) \subseteq Actions
    <3>1. CASE k[1] \in check.path
      <4>1. k[2] \in Levels
        BY <2>3
      <4> QED BY <2>1, <2>2, <3>1, <4>1 DEF lower_first
    <3>2. CASE k[1] \notin check.path
      <4>1. k \in DOMAIN _conf
        BY <3>2
      <4> QED BY <3>2, <4>1 DEF IInv, Configured, Range
    <3> QED BY <3>1, <3>2
  <2>5. _conf' = [k \in D |-> R(k)]
    OBVIOUS
  <2> HIDE DEF D, R
  <2>6. DOMAIN _conf' = D /\ Range(_conf') \subseteq SUBSET Actions
    BY <2>4, <2>5 DEF Range
  <2> QED BY <1>2, <2>3, <2>6 DEF IInv, Configured
<1> QED
  BY <1>2, <1>4, <1>5, <1>6, <1>7 DEF IInv

LEMMA JudgeStep == IInv /\ LoadJudge => IInv'
<1> SUFFICES ASSUME IInv, LoadJudge PROVE IInv'
  OBVIOUS
<1> USE DEF LoadJudge
<1>1. Early
  BY DEF Early, Order
<1>2. /\ Shape' /\ Judged' /\ watched' = {} /\ unscanned' = {}
      /\ analysed' = {} /\ ignored' = {} /\ given' = given
  BY <1>1, EarlyNext
<1>3. /\ Done("load_judge")' = next /\ Done("load_judge") = next - 1
      /\ Done("load_excluded_dir")' = Done("load_excluded_dir")
  BY LoadSteps DEF IInv, Phases, Done, Shape
<1>4. Loaded'
  <2>1. next - 1 \in 0..Count - 1 /\ next - 1 + 1 = next /\ next \in 1..Count
    BY ConfigShape DEF IInv, Shape
  <2>2. \A lists : AddPatterns(Gathered(lists, next - 1), root.checks[next].path, lists[next])
                     = Gathered(lists, next)
    BY <2>1, GatherOne DEF IInv
  <2>3. Filters[next] = root.checks[next].filter /\ Greps[next] = root.checks[next].grep
    BY <2>1 DEF Filters, Greps
  <2>4. _ignore' = Gathered(Filters, next) /\ _grep' = Gathered(Greps, next)
    BY <1>3, <2>2, <2>3 DEF IInv, Loaded
  <2> QED BY <1>3, <2>4, FrameRoot DEF Loaded
<1>5. Excluded'
  BY <1>3 DEF IInv, Excluded
<1>6. Walked'
  BY <1>2 DEF Walked
<1>7. Configured'
  BY <1>2 DEF IInv, Configured
<1> QED
  BY <1>2, <1>4, <1>5, <1>6, <1>7 DEF IInv

LEMMA ExcludedStep == IInv /\ LoadExcludedDir => IInv'
<1> SUFFICES ASSUME IInv, LoadExcludedDir PROVE IInv'
  OBVIOUS
<1> USE DEF LoadExcludedDir
<1>1. Early
  BY DEF Early, Order
<1>2. /\ Shape' /\ Judged' /\ watched' = {} /\ unscanned' = {}
      /\ analysed' = {} /\ ignored' = {} /\ given' = given
  BY <1>1, EarlyNext
<1>3. /\ Done("load_excluded_dir")' = next /\ Done("load_excluded_dir") = next - 1
      /\ Done("load_judge")' = Done("load_judge")
  BY LoadSteps DEF IInv, Phases, Done, Shape
<1>4. Loaded'
  BY <1>3, FrameRoot DEF IInv, Loaded, rules
<1>5. Excluded'
  <2>1. next \in 1..Count /\ root.checks[next] \in Check /\ Count \in Nat
    BY ConfigShape DEF IInv, Shape
  <2>2. root.checks[next].filter \subseteq Patterns
    BY <2>1 DEF Check
  <2>3. _filter' \subseteq Keys
    BY <2>2, PatternsAssumption DEF IInv, Excluded
  <2>4. ASSUME NEW i \in 1..next, NEW p \in root.checks[i].filter
        PROVE  Spelled(p) \in _filter' \cup {NoPath}
    <3>1. CASE i = next
      BY <3>1
    <3>2. CASE i \in 1..next - 1
      BY <1>3, <3>2 DEF IInv, Excluded
    <3> QED BY <2>1, <3>1, <3>2
  <2> QED BY <1>3, <2>3, <2>4 DEF Excluded
<1>6. Walked'
  BY <1>2 DEF Walked
<1>7. Configured'
  BY <1>2 DEF IInv, Configured, rules
<1> QED
  BY <1>2, <1>4, <1>5, <1>6, <1>7 DEF IInv

(* A directory that a walk enters is one that need_mon() lets it enter.       *)
LEMMA ReachedIs ==
  ASSUME NEW check, NEW d \in Reached(check)
  PROVE  /\ d \in Dirs /\ d \notin _filter
         /\ \E p \in check.path \cap Dirs : IsPrefix(p, d)
<1>1. d \in Prefixes(d)
  <2>1. d \in Path /\ Len(d) \in Nat /\ Len(d) \in 0..Len(d)
    BY PathsAreSequences DEF Reached, Path
  <2>2. /\ SubSeq(d, 1, Len(d)) \in Path /\ Len(SubSeq(d, 1, Len(d))) = Len(d)
        /\ \A i \in 1..Len(d) : SubSeq(d, 1, Len(d))[i] = d[i]
    BY <2>1, SubPath
  <2>3. SubSeq(d, 1, Len(d)) = d
    BY <2>1, <2>2, SeqEqual DEF Path
  <2> QED BY <2>1, <2>3 DEF Prefixes
<1> QED
  BY <1>1 DEF Reached, need_mon

LEMMA WatcherStep == IInv /\ LoadWatcher => IInv'
<1> SUFFICES ASSUME IInv, LoadWatcher PROVE IInv'
  OBVIOUS
<1> USE DEF LoadWatcher
<1> DEFINE check == root.checks[next]
           reached == Reached(check)
<1>1. next \in 1..Count /\ check.path \subseteq Keys
  BY ConfigShape DEF IInv, Shape
<1>2. Shape' /\ Done("load_judge")' = Done("load_judge")
      /\ Done("load_excluded_dir")' = Done("load_excluded_dir")
  BY LoadSteps DEF IInv, Phases
<1>3. Loaded' /\ Excluded' /\ Configured' /\ Judged'
  BY <1>2, FrameRoot, FrameCares DEF IInv, Loaded, Excluded, Configured, Judged, rules, history
<1>4. /\ reached \subseteq Dirs /\ reached \cap _filter = {}
      /\ \A d \in reached : Below(d)
      /\ \A f \in Names : Front(f) \in reached => Below(f)
  <2>1. \A d \in reached : d \in Dirs /\ d \notin _filter /\ \E p \in check.path \cap Dirs : IsPrefix(p, d)
    BY ReachedIs
  <2> HIDE DEF reached
  <2>2. \A d \in reached : Below(d)
    BY <1>1, <2>1 DEF Below
  <2>3. ASSUME NEW f \in Names, Front(f) \in reached PROVE Below(f)
    <3>1. PICK p \in check.path \cap Dirs : IsPrefix(p, Front(f))
      BY <2>1, <2>3
    <3>2. IsPrefix(p, f)
      BY <3>1, AboveFile
    <3> QED BY <1>1, <3>2 DEF Below
  <2> QED BY <2>1, <2>2, <2>3
<1>5. watched' = watched \cup reached /\ unscanned' = {f \in Names : Front(f) \in reached}
  OBVIOUS
<1> HIDE DEF reached
<1>6. phase' \in {"load_watcher", "run"}
  BY DEF NextCheck, After
<1>7. Walked'
  BY <1>4, <1>5, <1>6, FrameRoot DEF IInv, Walked, Order
<1> QED
  BY <1>2, <1>3, <1>7 DEF IInv

LEMMA JudgementStep ==
  ASSUME IInv, ~Early, NEW f \in Names, Below(f), do_analysis(f),
         UNCHANGED <<root, rank, phase, next, rules, _filter, watched>>,
         unscanned' \subseteq unscanned
  PROVE  IInv'
<1> USE DEF rules
<1>1. Shape'
  BY DEF IInv, Shape, Count
<1>2. Done("load_judge")' = Done("load_judge") /\ Done("load_excluded_dir")' = Done("load_excluded_dir")
  BY DEF Done, Count
<1>3. Loaded' /\ Excluded'
  BY <1>2, FrameRoot DEF IInv, Loaded, Excluded
<1>4. Walked'
  BY FrameRoot DEF IInv, Walked, Early
<1>5. Judged'
  <2>1. \A name : (Cares(name)' <=> Cares(name)) /\ (Below(name)' <=> Below(name))
    BY FrameRoot, FrameCares
  <2>2. CASE ~Cares(f) /\ ignored' = ignored \cup {f} /\ analysed' = analysed
    BY <2>1, <2>2 DEF IInv, Judged
  <2>3. CASE Cares(f) /\ analysed' = analysed \cup {f} /\ ignored' = ignored
    BY <2>1, <2>3 DEF IInv, Judged
  <2> QED BY <2>2, <2>3 DEF do_analysis
<1>6. Configured'
  <2>1. given' = given \/ \E level \in Levels :
          given' = [name |-> f, level |-> level, acts |-> FindRule(level, Front(f)) \cap Actions]
    BY DEF do_analysis
  <2>2. \A level \in Levels :
          [name |-> f, level |-> level, acts |-> FindRule(level, Front(f)) \cap Actions]
            \in [name : Names, level : Levels, acts : SUBSET Actions]
    OBVIOUS
  <2> QED BY <2>1, <2>2 DEF IInv, Configured
<1> QED
  BY <1>1, <1>3, <1>4, <1>5, <1>6 DEF IInv

LEMMA IInvHolds == Spec => []IInv
<1>1. IInv /\ [Next]_vars => IInv'
  <2> SUFFICES ASSUME IInv, [Next]_vars PROVE IInv'
    OBVIOUS
  <2>1. CASE LoadAlerter \/ LoadJudge \/ LoadExcludedDir \/ LoadWatcher
    BY <2>1, AlerterStep, JudgeStep, ExcludedStep, WatcherStep
  <2>2. CASE ScanFile
    <3>1. PICK f \in unscanned : do_analysis(f) /\ unscanned' = unscanned \ {f}
      BY <2>2 DEF ScanFile
    <3>2. f \in Names /\ Below(f) /\ ~Early
      BY DEF IInv, Walked, Early
    <3> QED BY <2>2, <3>1, <3>2, JudgementStep DEF ScanFile
  <2>3. CASE Event
    <3>1. PICK f \in Names : Front(f) \in watched /\ do_analysis(f)
      BY <2>3 DEF Event
    <3>2. Below(f)
      <4>1. PICK i \in 1..Count : \E p \in root.checks[i].path : IsPrefix(p, Front(f))
        BY <3>1 DEF IInv, Walked, Below
      <4>2. \A p \in root.checks[i].path : p \in Dirs
        BY ConfigShape, KeysAreDirs DEF IInv, Shape
      <4> QED BY <4>1, <4>2, AboveFile DEF Below
    <3>3. ~Early
      BY <2>3 DEF Event, Early, Order
    <3> QED BY <2>3, <3>1, <3>2, <3>3, JudgementStep DEF Event
  <2>4. CASE UNCHANGED vars
    <3>1. UNCHANGED <<root, rank, phase, next, rules, _filter, watched, unscanned, history>>
      BY <2>4 DEF vars, rules, history
    <3>2. Done("load_judge")' = Done("load_judge") /\ Done("load_excluded_dir")' = Done("load_excluded_dir")
      BY <3>1 DEF Done, Count
    <3> QED
      BY <3>1, <3>2, FrameRoot, FrameCares
         DEF IInv, Shape, Loaded, Configured, Excluded, Walked, Judged, rules, history, Count
  <2> QED BY <2>1, <2>2, <2>3, <2>4 DEF Next
<1> QED
  BY <1>1, InitHolds, PTL DEF Spec
-------------------------------------------------------------------------------
(* Separate checks: whatever is_prefix relates to a file of one is that one's. *)
LEMMA OwnCheckOnly ==
  ASSUME Shape, Separate, NEW f \in Names, NEW i \in 1..Count,
         NEW p \in root.checks[i].path, IsPrefix(p, f),
         NEW j \in 1..Count, NEW d \in root.checks[j].path, is_prefix(f, d)
  PROVE  j = i
<1>1. p \in Path /\ d \in Path /\ f \in Path
  BY ConfigShape, KeysAreDirs, PathsAreSequences DEF Shape
<1>2. is_prefix(p, d)
  BY <1>1, RelatedAbove
<1>3. DOMAIN root.checks = 1..Count
  BY ConfigShape DEF Shape, Count
<1> QED
  BY <1>2, <1>3 DEF Separate

LEMMA PrefixIsRelated ==
  ASSUME NEW f \in Path, NEW p \in Path, IsPrefix(p, f)
  PROVE  is_prefix(f, p)
<1>1. Len(p) <= Len(f) /\ \A i \in 1..Len(p) : p[i] = f[i]
  BY PrefixIs
<1>2. DOMAIN p = 1..Len(p)
  BY DEF Path
<1> QED
  BY <1>1, <1>2 DEF is_prefix, BeginsString

LEMMA LeastIs ==
  ASSUME NEW S \in SUBSET Nat, S # {}
  PROVE  \E n \in S : \A k \in S : n <= k
<1> DEFINE less == OpToRel(<, Nat)
<1>1. IsWellFoundedOn(less, Nat)
  BY NatLessThanWellFounded
<1>2. \A x, y \in Nat : <<x, y>> \in less <=> x < y
  BY DEF OpToRel
<1> HIDE DEF less
<1>3. PICK n \in S : \A k \in S : ~(<<k, n>> \in less)
  BY <1>1, WFMin
<1>4. \A k \in S : n \in Nat /\ k \in Nat /\ ~(k < n)
  BY <1>2, <1>3
<1> QED
  BY <1>4

(* The map lists one of some keys before the others.                        *)
LEMMA OneIsFirst ==
  ASSUME rank \in Ranks, NEW keys \in SUBSET Keys, keys # {}
  PROVE  \E d \in keys : \A e \in keys : rank[d] <= rank[e]
<1> DEFINE R == {rank[d] : d \in keys}
<1>1. rank \in [Keys -> Nat]
  BY RanksAssumption
<1>2. R \in SUBSET Nat /\ R # {}
  BY <1>1
<1>3. PICK x \in R : \A y \in R : x <= y
  BY <1>2, LeastIs
<1>4. PICK d \in keys : x = rank[d]
  OBVIOUS
<1> QED
  BY <1>3, <1>4

(* With separate checks match() asks the patterns of the file's own check.    *)
LEMMA SeparateMatch ==
  ASSUME Shape, Separate, NEW f \in Names, NEW i \in 1..Count,
         NEW p \in root.checks[i].path, IsPrefix(p, f), NEW lists
  PROVE  match(Gathered(lists, Count), f) <=> \E q \in lists[i] : Matches(q, f)
<1> DEFINE regs == Gathered(lists, Count)
<1>1. p \in Keys /\ is_prefix(f, p)
  BY ConfigShape, KeysAreDirs, PathsAreSequences, PrefixIsRelated DEF Shape
<1>2. /\ DOMAIN regs = {d \in Keys : \E j \in 1..Count : d \in root.checks[j].path /\ lists[j] # {}}
      /\ \A d \in DOMAIN regs :
           regs[d] = UNION {lists[j] : j \in {k \in 1..Count : d \in root.checks[k].path}}
  BY DEF Gathered
<1> HIDE DEF regs
<1>3. \A d \in Related(regs, f) : regs[d] = lists[i]
  <2> SUFFICES ASSUME NEW d \in Related(regs, f) PROVE regs[d] = lists[i]
    OBVIOUS
  <2>1. d \in DOMAIN regs /\ is_prefix(f, d)
    BY DEF Related
  <2>2. \A j \in 1..Count : d \in root.checks[j].path => j = i
    BY <2>1, OwnCheckOnly
  <2>3. d \in root.checks[i].path
    BY <1>2, <2>1, <2>2
  <2>4. {k \in 1..Count : d \in root.checks[k].path} = {i}
    BY <2>2, <2>3
  <2>5. regs[d] = UNION {lists[j] : j \in {k \in 1..Count : d \in root.checks[k].path}}
    BY <1>2, <2>1
  <2>6. UNION {lists[j] : j \in {i}} = lists[i]
    OBVIOUS
  <2> QED BY <2>4, <2>5, <2>6
<1>4. ASSUME match(regs, f) PROVE \E q \in lists[i] : Matches(q, f)
  BY <1>3, <1>4 DEF match
<1>5. ASSUME NEW q \in lists[i], Matches(q, f) PROVE match(regs, f)
  <2>1. p \in Related(regs, f) /\ Related(regs, f) \subseteq Keys
    BY <1>1, <1>2 DEF Related
  <2>2. PICK d \in Related(regs, f) : \A e \in Related(regs, f) : rank[d] <= rank[e]
    BY <2>1, OneIsFirst DEF Shape
  <2> QED BY <1>3, <1>5, <2>2 DEF match
<1> QED
  BY <1>4, <1>5 DEF regs

LEMMA OwnIs ==
  ASSUME Shape, Separate, NEW f \in Names, NEW i \in 1..Count,
         NEW p \in root.checks[i].path, IsPrefix(p, f)
  PROVE  /\ Own(f) = {root.checks[i]}
         /\ \A j \in 1..Count : j # i => root.checks[j] \in Checks \ Own(f)
<1>1. Checks = {root.checks[j] : j \in 1..Count} /\ f \in Path
  <2>1. DOMAIN root.checks = 1..Count
    BY ConfigShape DEF Shape, Count
  <2> QED BY <2>1, PathsAreSequences DEF Checks, Range
<1>2. ASSUME NEW j \in 1..Count, NEW d \in root.checks[j].path, IsPrefix(d, f) PROVE j = i
  <2>1. d \in Path
    BY ConfigShape, KeysAreDirs, PathsAreSequences DEF Shape
  <2>2. is_prefix(f, d)
    BY <1>1, <1>2, <2>1, PrefixIsRelated
  <2> QED BY <2>2, OwnCheckOnly
<1>3. root.checks[i] \in Own(f)
  BY <1>1 DEF Own
<1>4. ASSUME NEW c \in Own(f) PROVE c = root.checks[i]
  <2>1. PICK j \in 1..Count : c = root.checks[j]
    BY <1>1 DEF Own
  <2>2. PICK d \in c.path : IsPrefix(d, f)
    BY DEF Own
  <2> QED BY <1>2, <2>1, <2>2
<1>5. ASSUME NEW j \in 1..Count, j # i PROVE root.checks[j] \notin Own(f)
  BY <1>2, <1>5 DEF Own
<1> QED
  BY <1>1, <1>3, <1>4, <1>5

LEMMA JudgedByOwn ==
  ASSUME IInv, Separate, ~Early, NEW f \in Names, Below(f)
  PROVE  /\ Cares(f) => ~FilteredOut(f) /\ ~NotSelected(f)
         /\ ~Cares(f) => \/ FilteredOut(f) \/ NotSelected(f)
                         \/ \E c \in Checks \ Own(f) : c.grep # {}
<1>1. PICK i \in 1..Count : \E p \in root.checks[i].path : IsPrefix(p, f)
  BY DEF Below
<1>2. PICK p \in root.checks[i].path : IsPrefix(p, f)
  BY <1>1
<1>3. _ignore = Gathered(Filters, Count) /\ _grep = Gathered(Greps, Count)
  BY DEF IInv, Shape, Loaded, Done, Order, Early, Phases
<1>4. Filters[i] = root.checks[i].filter /\ Greps[i] = root.checks[i].grep
  BY DEF Filters, Greps
<1>5. match(_ignore, f) <=> \E q \in root.checks[i].filter : Matches(q, f)
  BY <1>2, <1>3, <1>4, SeparateMatch DEF IInv
<1>6. match(_grep, f) <=> \E q \in root.checks[i].grep : Matches(q, f)
  BY <1>2, <1>3, <1>4, SeparateMatch DEF IInv
<1>7. /\ Own(f) = {root.checks[i]}
      /\ \A j \in 1..Count : j # i => root.checks[j] \in Checks \ Own(f)
  BY <1>2, OwnIs DEF IInv
<1>8. FilteredOut(f) <=> match(_ignore, f)
  BY <1>5, <1>7 DEF FilteredOut
<1>9. NotSelected(f) <=> root.checks[i].grep # {} /\ ~match(_grep, f)
  BY <1>6, <1>7 DEF NotSelected
<1>10. DOMAIN _grep = {d \in Keys : \E j \in 1..Count : d \in root.checks[j].path /\ root.checks[j].grep # {}}
  BY <1>3 DEF Gathered, Greps
<1>11. root.checks[i].grep # {} => DOMAIN _grep # {}
  <2>1. p \in Keys
    BY ConfigShape DEF IInv, Shape
  <2> QED BY <1>2, <1>10, <2>1
<1>12. DOMAIN _grep # {} /\ root.checks[i].grep = {} => \E c \in Checks \ Own(f) : c.grep # {}
  BY <1>7, <1>10
<1> QED
  BY <1>8, <1>9, <1>11, <1>12 DEF Cares

(* Every variable keeps its type, whatever the configuration: in particular   *)
(* neither map ever lists a directory without patterns, which match() would    *)
(* take for one that matches nothing.                                      *)
THEOREM RulesTypeCorrect == Spec => []TypeOK
<1>1. IInv => TypeOK
  <2> SUFFICES ASSUME IInv PROVE TypeOK
    OBVIOUS
  <2>1. Count \in Nat /\ root.checks \in Seq(Check) /\ \A i \in 1..Count : root.checks[i] \in Check
    BY ConfigShape DEF IInv, Shape
  <2>2. Done("load_judge") \in 0..Count
    BY <2>1 DEF IInv, Shape, Done, Order
  <2>3. ASSUME NEW lists, NEW n \in 0..Count, \A i \in 1..Count : lists[i] \subseteq Patterns
        PROVE  /\ DOMAIN Gathered(lists, n) \subseteq Keys
               /\ Range(Gathered(lists, n)) \subseteq (SUBSET Patterns) \ {{}}
    <3>1. n <= Count /\ \A i \in 1..n : i \in 1..Count
      BY <2>1
    <3>2. \A d \in DOMAIN Gathered(lists, n) :
            Gathered(lists, n)[d] \subseteq Patterns /\ Gathered(lists, n)[d] # {}
      BY <2>3, <3>1 DEF Gathered
    <3>3. DOMAIN Gathered(lists, n) \subseteq Keys
      BY DEF Gathered
    <3> QED BY <3>2, <3>3 DEF Range
  <2>4. \A i \in 1..Count : Filters[i] \subseteq Patterns /\ Greps[i] \subseteq Patterns
    BY <2>1 DEF Filters, Greps, Check
  <2>5. \A regs \in {_ignore, _grep} :
          DOMAIN regs \subseteq Keys /\ Range(regs) \subseteq (SUBSET Patterns) \ {{}}
    BY <2>2, <2>3, <2>4 DEF IInv, Loaded
  <2>6. next \in 1..Len(root.checks) + 1
    BY <2>1 DEF IInv, Shape, Count
  <2> QED
    BY <2>1, <2>5, <2>6
       DEF IInv, Shape, Phases, Configured, Excluded, Walked, Judged, TypeOK
<1> QED
  BY <1>1, IInvHolds, PTL

(* With separate checks, any number of them and of paths, a file is ignored    *)
(* for the patterns of its own check only, whatever order the maps have; the   *)
(* first directory that is_prefix() relates to it is always one of its check. *)
THEOREM PatternsAreOwn == Spec => []OwnPatterns
<1>1. IInv => OwnPatterns
  <2> SUFFICES ASSUME IInv, Separate
               PROVE  /\ \A f \in analysed : ~FilteredOut(f) /\ ~NotSelected(f)
                      /\ \A f \in ignored :
                           \/ FilteredOut(f) \/ NotSelected(f)
                           \/ \E c \in Checks \ Own(f) : c.grep # {}
    BY DEF OwnPatterns
  <2>1. analysed \cup ignored # {} => ~Early
    BY DEF IInv, Walked, Early
  <2> QED BY <2>1, JudgedByOwn DEF IInv, Judged
<1> QED
  BY <1>1, IInvHolds, PTL

(* What the exclusions and the walks of the checks that are through amount to. *)
FiltersOf(n) == UNION {root.checks[i].filter : i \in 1..n}

EInv ==
  /\ _filter = {Spelled(p) : p \in FiltersOf(Done("load_excluded_dir"))} \ {NoPath}
  /\ watched = UNION {Reached(root.checks[i]) : i \in 1..Done("load_watcher")}

LEMMA EInvInit == Init => EInv
<1> SUFFICES ASSUME Init PROVE EInv
  OBVIOUS
<1>1. Done("load_excluded_dir") = 0 /\ Done("load_watcher") = 0 /\ 1..0 = {}
  BY DEF Init, Done, Order
<1> QED
  BY <1>1 DEF Init, EInv, FiltersOf

(* The walks depend on the exclusions alone.                                *)
LEMMA FrameReached ==
  ASSUME UNCHANGED root
  PROVE  /\ \A n : FiltersOf(n)' = FiltersOf(n)
         /\ _filter' = _filter =>
              \A i : Reached(root.checks[i])' = Reached(root.checks[i])
BY DEF Reached, need_mon, FiltersOf

LEMMA EInvNext == IInv /\ EInv /\ [Next]_vars => EInv'
<1> SUFFICES ASSUME IInv, EInv, [Next]_vars PROVE EInv'
  OBVIOUS
<1>0. Shape /\ next \in Nat \ {0} /\ Count \in Nat /\ root' = root
  <2>1. root' = root
    BY DEF Next, LoadAlerter, LoadJudge, LoadExcludedDir, LoadWatcher, ScanFile, Event, vars
  <2> QED BY <2>1, ConfigShape DEF IInv, Shape
<1>1. CASE LoadAlerter \/ LoadJudge
  <2>1. /\ Done("load_excluded_dir")' = Done("load_excluded_dir")
        /\ Done("load_watcher")' = Done("load_watcher")
    BY <1>0, <1>1, LoadSteps DEF Phases, LoadAlerter, LoadJudge
  <2>2. UNCHANGED <<root, _filter, watched>>
    BY <1>1 DEF LoadAlerter, LoadJudge
  <2> QED BY <2>1, <2>2, FrameReached DEF EInv, FiltersOf
<1>2. CASE LoadExcludedDir
  <2> DEFINE n == Done("load_excluded_dir")
  <2>1. /\ n' = n + 1 /\ next = n + 1
        /\ Done("load_watcher") = 0 /\ Done("load_watcher")' = 0
    <3>1. Done("load_watcher") = 0
      BY <1>2 DEF LoadExcludedDir, Done, Order
    <3> QED BY <1>0, <1>2, <3>1, LoadSteps DEF Phases, LoadExcludedDir
  <2>2. n \in Nat
    BY <1>0, <2>1, <1>2 DEF LoadExcludedDir, Done
  <2> HIDE DEF n
  <2>3. 1..n + 1 = 1..n \cup {n + 1}
    BY <2>2
  <2>4. FiltersOf(n + 1) = FiltersOf(n) \cup root.checks[next].filter
    BY <2>1, <2>3 DEF FiltersOf
  <2>5. /\ _filter' = _filter \cup ({Spelled(p) : p \in root.checks[next].filter} \ {NoPath})
        /\ watched' = watched
    BY <1>2 DEF LoadExcludedDir
  <2>6. _filter = {Spelled(p) : p \in FiltersOf(n)} \ {NoPath}
    BY DEF EInv, n
  <2>7. _filter' = {Spelled(p) : p \in FiltersOf(n + 1)} \ {NoPath}
    BY <2>4, <2>5, <2>6
  <2>8. _filter' = {Spelled(p) : p \in FiltersOf(Done("load_excluded_dir"))'} \ {NoPath}
    BY <1>0, <2>1, <2>7, FrameReached DEF n, FiltersOf
  <2>9. watched = {} /\ 1..0 = {}
    BY <2>1 DEF EInv
  <2> QED BY <2>1, <2>5, <2>8, <2>9 DEF EInv
<1>3. CASE LoadWatcher
  <2> DEFINE n == Done("load_watcher")
  <2>1. n' = n + 1 /\ next = n + 1 /\ Done("load_excluded_dir")' = Done("load_excluded_dir")
    BY <1>0, <1>3, LoadSteps DEF Phases, LoadWatcher
  <2>2. n \in Nat
    BY <1>0, <2>1, <1>3 DEF LoadWatcher, Done
  <2>3. watched = UNION {Reached(root.checks[i]) : i \in 1..n}
    BY DEF EInv
  <2>4. watched' = watched \cup Reached(root.checks[next]) /\ _filter' = _filter
    BY <1>3 DEF LoadWatcher
  <2>5. 1..n + 1 = 1..n \cup {n + 1}
    BY <2>2
  <2>6. watched' = UNION {Reached(root.checks[i]) : i \in 1..n + 1}
    BY <2>1, <2>3, <2>4, <2>5
  <2>7. watched' = UNION {Reached(root.checks[i])' : i \in 1..n + 1}
    BY <1>0, <2>4, <2>6, FrameReached
  <2> QED BY <1>0, <2>1, <2>4, <2>7, FrameReached DEF EInv, FiltersOf
<1>4. CASE ScanFile \/ Event \/ UNCHANGED vars
  <2>1. UNCHANGED <<root, phase, next, _filter, watched>>
    BY <1>4 DEF ScanFile, Event, vars
  <2>2. /\ Done("load_excluded_dir")' = Done("load_excluded_dir")
        /\ Done("load_watcher")' = Done("load_watcher")
    BY <2>1 DEF Done, Count
  <2> QED BY <2>1, <2>2, FrameReached DEF EInv, FiltersOf
<1> QED
  BY <1>1, <1>2, <1>3, <1>4 DEF Next

(* Once walks begin, a directory is kept out if and only if a filter spells it. *)
LEMMA KeptOut ==
  ASSUME IInv, EInv, ~Early, NEW c \in Checks, NEW d \in Dirs
  PROVE  d \in Reached(c) <=> LeadsTo(c, d)
<1>1. FiltersOf(Done("load_excluded_dir")) = UNION {k.filter : k \in Checks}
  <2>1. Done("load_excluded_dir") = Count
    BY DEF IInv, Shape, Early, Done, Order, Phases
  <2>2. Checks = {root.checks[i] : i \in 1..Count}
    BY ConfigShape DEF IInv, Shape, Checks, Range, Count
  <2> QED BY <2>1, <2>2 DEF FiltersOf
<1>2. c.path \subseteq Dirs
  <2>1. PICK i \in 1..Count : c = root.checks[i]
    BY ConfigShape DEF IInv, Shape, Checks, Range, Count
  <2> QED BY <2>1, ConfigShape, KeysAreDirs DEF IInv, Shape
<1>3. ASSUME NEW top \in c.path, NEW e \in Prefixes(d), IsPrefix(top, e)
      PROVE  need_mon(e) <=> ~SpelledByAny(e)
  <2>1. top \in Dirs /\ top # << >> /\ top \in Path /\ d \in Path
    BY <1>2, DirsAssumption, PathsAreSequences
  <2>2. e \in Path
    BY <2>1, SubPath DEF Prefixes
  <2>3. e # << >>
    <3>1. Len(top) <= Len(e) /\ Len(top) \in Nat \ {0}
      BY <1>3, <2>1, <2>2, PrefixIs, EmptySeq DEF Path
    <3> QED BY <3>1
  <2>4. e # NoPath
    BY <2>3, DirsAssumption
  <2>5. e \in _filter <=> \E k \in Checks : \E p \in k.filter : Spelled(p) = e
    BY <1>1, <2>4 DEF EInv
  <2> QED BY <2>5 DEF need_mon, SpelledByAny
<1> QED
  BY <1>2, <1>3 DEF Reached, LeadsTo

(* The exclusions of all checks, and no others, bound every walk: they are all  *)
(* loaded before the first one (monitor.cpp:362-367), for any checks, filters *)
(* and tree.                                                               *)
THEOREM ExcludedStaysOutAlways == Spec => []ExcludedStaysOut
<1>1. IInv /\ EInv => ExcludedStaysOut
  <2> SUFFICES ASSUME IInv, EInv PROVE ExcludedStaysOut
    OBVIOUS
  <2>0. \A i \in 1..Count : root.checks[i] \in Checks
    BY ConfigShape DEF IInv, Shape, Checks, Range, Count
  <2>1. ASSUME NEW d \in watched PROVE \E c \in Checks : LeadsTo(c, d)
    <3>1. d \in Dirs /\ ~Early
      BY <2>1 DEF IInv, Walked, Early
    <3>2. PICK i \in 1..Done("load_watcher") : d \in Reached(root.checks[i])
      BY <2>1 DEF EInv
    <3>3. i \in 1..Count
      BY <3>2, ConfigShape DEF IInv, Shape, Done
    <3> QED BY <2>0, <3>1, <3>2, <3>3, KeptOut
  <2>2. ASSUME phase = "run", NEW d \in Dirs, NEW c \in Checks, LeadsTo(c, d)
        PROVE  d \in watched
    <3>1. ~Early /\ Done("load_watcher") = Count
      BY <2>2, ConfigShape DEF IInv, Shape, Early, Done, Order
    <3>2. PICK i \in 1..Count : c = root.checks[i]
      BY ConfigShape DEF IInv, Shape, Checks, Range, Count
    <3>3. d \in Reached(c)
      BY <2>2, <3>1, KeptOut
    <3> QED BY <3>1, <3>2, <3>3 DEF EInv
  <2> QED BY <2>1, <2>2 DEF ExcludedStaysOut
<1>2. Spec => [](IInv /\ EInv)
  BY IInvHolds, EInvInit, EInvNext, PTL DEF Spec
<1> QED
  BY <1>1, <1>2, PTL

(* The walk and the events judge a name alike: the maps are complete before    *)
(* the first name comes.                                                   *)
THEOREM VerdictIsStable == Spec => []VerdictStable
<1>1. IInv => VerdictStable
  BY DEF IInv, Judged, VerdictStable
<1> QED
  BY <1>1, IInvHolds, PTL
-------------------------------------------------------------------------------
(* The rule of an alert.                                                    *)
LEMMA GreatestIs ==
  ASSUME NEW S \in SUBSET Nat, S # {}, NEW b \in Nat, \A n \in S : n <= b
  PROVE  \E n \in S : \A k \in S : k <= n
<1> DEFINE gaps == {b - k : k \in S}
<1>1. gaps \in SUBSET Nat /\ gaps # {}
  <2>1. \A k \in S : b - k \in Nat
    OBVIOUS
  <2> QED BY <2>1
<1>2. PICK m \in gaps : \A k \in gaps : m <= k
  BY <1>1, LeastIs
<1>3. PICK n \in S : m = b - n
  OBVIOUS
<1>4. ASSUME NEW k \in S PROVE k <= n
  <2>1. b - n <= b - k
    BY <1>2, <1>3
  <2> QED BY <2>1
<1> QED
  BY <1>4

LEMMA PrefixesAre ==
  ASSUME NEW p \in Path, NEW q \in Path
  PROVE  p \in Prefixes(q) <=> IsPrefix(p, q)
<1>1. Len(p) \in Nat /\ Len(q) \in Nat /\ p \in Seq(Components) /\ q \in Seq(Components)
  BY DEF Path
<1>2. ASSUME p \in Prefixes(q) PROVE IsPrefix(p, q)
  <2>1. PICK n \in 0..Len(q) : p = SubSeq(q, 1, n)
    BY <1>2 DEF Prefixes
  <2>2. Len(p) = n /\ \A i \in 1..n : p[i] = q[i]
    BY <2>1, SubPath
  <2> QED BY <1>1, <2>2, PrefixIs
<1>3. ASSUME IsPrefix(p, q) PROVE p \in Prefixes(q)
  <2>1. Len(p) \in 0..Len(q) /\ \A i \in 1..Len(p) : p[i] = q[i]
    BY <1>1, <1>3, PrefixIs
  <2>2. /\ SubSeq(q, 1, Len(p)) \in Path /\ Len(SubSeq(q, 1, Len(p))) = Len(p)
        /\ \A i \in 1..Len(p) : SubSeq(q, 1, Len(p))[i] = q[i]
    BY <2>1, SubPath
  <2>3. p = SubSeq(q, 1, Len(p))
    BY <1>1, <2>1, <2>2, SeqEqual DEF Path
  <2> QED BY <2>1, <2>3 DEF Prefixes
<1> QED
  BY <1>2, <1>3

LEMMA KeysArePaths == Keys \subseteq Path
<1>1. << >> \in Path
  BY EmptySeq DEF Path
<1> QED
  BY <1>1, KeysAreDirs, PathsAreSequences

(* Whatever is above a key is a key.                                        *)
LEMMA CutKey ==
  ASSUME NEW d \in Keys, NEW n \in 0..Len(d)
  PROVE  SubSeq(d, 1, n) \in Keys
<1>1. d \in Path /\ Len(d) \in Nat
  BY KeysArePaths DEF Path
<1>2. CASE d = << >>
  <2>1. n = 0
    BY <1>2
  <2>2. SubSeq(d, 1, n) = << >>
    BY <1>1, <2>1, SubPath, EmptySeq DEF Path
  <2> QED BY <1>2, <2>2
<1>3. CASE d # << >>
  <2>1. d \in Dirs /\ SubSeq(d, 1, n) \in Prefixes(d)
    BY <1>3, KeysAreDirs DEF Prefixes
  <2> QED BY <2>1 DEF Keys
<1> QED
  BY <1>2, <1>3

(* What is above a key is the key or above the one it is in.                 *)
LEMMA FrontOfKey ==
  ASSUME NEW d \in Keys, d # << >>
  PROVE  /\ Front(d) \in Keys
         /\ \A p \in Keys : IsPrefix(p, d) <=> p = d \/ IsPrefix(p, Front(d))
<1> DEFINE n == Len(d) - 1
<1>1. d \in Path /\ Len(d) \in Nat \ {0}
  BY KeysArePaths, EmptySeq DEF Path
<1>2. n \in 0..Len(d) /\ Front(d) = SubSeq(d, 1, n)
  BY <1>1 DEF Front
<1>3. Front(d) \in Keys /\ Front(d) \in Path
  BY <1>2, CutKey, KeysArePaths
<1>4. Len(Front(d)) = n /\ \A i \in 1..n : Front(d)[i] = d[i]
  <2> HIDE DEF n
  <2> QED BY <1>1, <1>2, SubPath
<1>5. ASSUME NEW p \in Keys
      PROVE  IsPrefix(p, d) <=> p = d \/ IsPrefix(p, Front(d))
  <2>1. p \in Path /\ Len(p) \in Nat
    BY KeysArePaths DEF Path
  <2>2. IsPrefix(p, d) <=> Len(p) <= Len(d) /\ \A i \in 1..Len(p) : p[i] = d[i]
    BY <1>1, <2>1, PrefixIs
  <2>3. IsPrefix(p, Front(d)) <=> Len(p) <= n /\ \A i \in 1..Len(p) : p[i] = Front(d)[i]
    BY <1>3, <1>4, <2>1, PrefixIs
  <2>4. CASE Len(p) <= n
    BY <1>1, <1>4, <2>1, <2>2, <2>3, <2>4
  <2>5. CASE Len(p) > n
    <3>1. ASSUME IsPrefix(p, d) PROVE p = d
      <4>1. Len(p) = Len(d) /\ \A i \in 1..Len(p) : p[i] = d[i]
        BY <1>1, <2>1, <2>2, <2>5, <3>1
      <4> QED BY <1>1, <2>1, <4>1, SeqEqual DEF Path
    <3>2. p = d => IsPrefix(p, d)
      BY <1>1, <2>1, <2>2
    <3> QED BY <2>1, <2>3, <2>5, <1>1, <3>1, <3>2
  <2> QED BY <1>1, <2>1, <2>4, <2>5
<1> QED
  BY <1>3, <1>5

(* The search of alert() ends at the longest key with a rule: the function is  *)
(* given without recursion, shown to satisfy its recursive equation, and any   *)
(* function that satisfies it has that value.                                *)
LEMMA FindRuleIs ==
  ASSUME NEW level, NEW dir \in Keys, NEW p \in Keys,
         <<p, level>> \in DOMAIN _conf, IsPrefix(p, dir),
         \A q \in Keys : IsPrefix(q, dir) /\ <<q, level>> \in DOMAIN _conf => Len(q) <= Len(p)
  PROVE  FindRule(level, dir) = _conf[<<p, level>>]
<1> DEFINE Ruled(d) == <<d, level>> \in DOMAIN _conf
           Nearest(d) == {q \in Keys : /\ Ruled(q) /\ IsPrefix(q, d)
                                       /\ \A r \in Keys : Ruled(r) /\ IsPrefix(r, d) => Len(r) <= Len(q)}
           At_(d) == IF Nearest(d) = {} THEN {} ELSE _conf[<<CHOOSE q \in Nearest(d) : TRUE, level>>]
           g == [d \in Keys |-> At_(d)]
           Searches(s) == s = [d \in Keys |->
                            IF <<d, level>> \in DOMAIN _conf THEN _conf[<<d, level>>]
                            ELSE IF d = << >> THEN {} ELSE s[Front(d)]]
           search == CHOOSE s : Searches(s)
<1>1. ASSUME NEW d \in Keys
      PROVE  At_(d) = IF Ruled(d) THEN _conf[<<d, level>>]
                      ELSE IF d = << >> THEN {} ELSE At_(Front(d))
  <2>1. d \in Path /\ Len(d) \in Nat /\ \A q \in Keys : q \in Path /\ Len(q) \in Nat
    BY KeysArePaths DEF Path
  <2>2. \A q \in Keys : IsPrefix(q, d) => Len(q) <= Len(d) /\ (Len(q) = Len(d) => q = d)
    <3>1. \A q \in Keys : IsPrefix(q, d) => Len(q) <= Len(d) /\ \A i \in 1..Len(q) : q[i] = d[i]
      BY <2>1, PrefixIs
    <3> QED BY <2>1, <3>1, SeqEqual DEF Path
  <2>3. IsPrefix(d, d)
    BY <2>1, PrefixIs
  <2>4. CASE Ruled(d)
    <3>1. Nearest(d) = {d}
      BY <2>1, <2>2, <2>3, <2>4
    <3> HIDE DEF Nearest, Ruled
    <3>2. (CHOOSE q \in Nearest(d) : TRUE) = d
      BY <3>1
    <3> QED BY <2>4, <3>1, <3>2
  <2>5. CASE ~Ruled(d) /\ d = << >>
    <3>1. \A q \in Keys : IsPrefix(q, d) => q = d
      BY <2>1, <2>2, <2>5
    <3>2. Nearest(d) = {}
      BY <2>5, <3>1
    <3> HIDE DEF Nearest, Ruled
    <3> QED BY <2>5, <3>2
  <2>6. CASE ~Ruled(d) /\ d # << >>
    <3>1. \A q \in Keys : Ruled(q) => (IsPrefix(q, d) <=> IsPrefix(q, Front(d)))
      BY <2>6, FrontOfKey
    <3>2. Nearest(d) = Nearest(Front(d))
      BY <3>1
    <3> HIDE DEF Nearest, Ruled
    <3> QED BY <2>6, <3>2
  <2> QED BY <2>4, <2>5, <2>6
<1>2. Searches(g)
  <2>1. \A d \in Keys : d # << >> => Front(d) \in Keys
    BY FrontOfKey
  <2> HIDE DEF At_
  <2>2. \A d \in Keys : d # << >> => g[Front(d)] = At_(Front(d))
    BY <2>1
  <2> QED BY <1>1, <2>2
<1>3. Searches(search)
  <2> HIDE DEF Searches, g
  <2> QED BY <1>2
<1>4. FindRule(level, dir) = search[dir]
  BY DEF FindRule
<1> HIDE DEF search, g, At_, Nearest
<1> DEFINE Cut(n) == SubSeq(dir, 1, n)
           wrong == {n \in Len(p)..Len(dir) : search[Cut(n)] # _conf[<<p, level>>]}
<1>5. /\ dir \in Path /\ p \in Path /\ Len(dir) \in Nat /\ Len(p) \in 0..Len(dir)
      /\ \A i \in 1..Len(p) : p[i] = dir[i]
  <2>1. dir \in Path /\ p \in Path /\ Len(dir) \in Nat /\ Len(p) \in Nat
    BY KeysArePaths DEF Path
  <2> QED BY <2>1, PrefixIs
<1>6. ASSUME NEW n \in Len(p)..Len(dir)
      PROVE  /\ Cut(n) \in Keys /\ Cut(n) \in Path /\ Len(Cut(n)) = n /\ IsPrefix(Cut(n), dir)
             /\ \A i \in 1..n : Cut(n)[i] = dir[i]
  <2>1. n \in 0..Len(dir)
    BY <1>5
  <2>2. Cut(n) \in Keys /\ Cut(n) \in Path /\ Len(Cut(n)) = n /\ \A i \in 1..n : Cut(n)[i] = dir[i]
    BY <1>5, <2>1, CutKey, SubPath
  <2> HIDE DEF Cut
  <2> QED BY <1>5, <2>1, <2>2, PrefixIs
<1>7. wrong = {}
  <2> SUFFICES ASSUME wrong # {} PROVE FALSE
    OBVIOUS
  <2>1. wrong \in SUBSET Nat
    BY <1>5
  <2>2. PICK n \in wrong : \A k \in wrong : n <= k
    BY <2>1, LeastIs
  <2>3. n \in Len(p)..Len(dir) /\ search[Cut(n)] # _conf[<<p, level>>]
    OBVIOUS
  <2>4. /\ Cut(n) \in Keys /\ Cut(n) \in Path /\ Len(Cut(n)) = n /\ IsPrefix(Cut(n), dir)
        /\ \A i \in 1..n : Cut(n)[i] = dir[i]
    BY <1>6, <2>3
  <2>5. CASE n = Len(p)
    <3>1. Cut(n) = p
      <4> HIDE DEF Cut
      <4> QED BY <1>5, <2>4, <2>5, SeqEqual DEF Path
    <3>2. search[p] = _conf[<<p, level>>]
      BY <1>3
    <3> QED BY <2>3, <3>1, <3>2
  <2>6. CASE n > Len(p)
    <3>1. n - 1 \in Len(p)..Len(dir) /\ n \in Nat \ {0} /\ n - 1 \notin wrong
      BY <1>5, <2>1, <2>2, <2>3, <2>6
    <3>2. search[Cut(n - 1)] = _conf[<<p, level>>]
      BY <3>1
    <3>3. ~Ruled(Cut(n)) /\ Cut(n) # << >>
      <4> HIDE DEF Cut
      <4> QED BY <1>5, <2>4, <2>6, <3>1, EmptySeq
    <3>4. Front(Cut(n)) = Cut(n - 1)
      <4>1. /\ Cut(n - 1) \in Path /\ Len(Cut(n - 1)) = n - 1
            /\ \A i \in 1..n - 1 : Cut(n - 1)[i] = dir[i]
        BY <1>6, <3>1
      <4>2. n - 1 \in 0..Len(Cut(n)) /\ Front(Cut(n)) = SubSeq(Cut(n), 1, n - 1)
        BY <2>4, <3>1 DEF Front
      <4> DEFINE c == Cut(n)
                 m == n - 1
      <4>3. m \in 0..Len(c) /\ Front(c) = SubSeq(c, 1, m) /\ c \in Path
        BY <2>4, <4>2
      <4>4. \A i \in 1..m : c[i] = dir[i]
        BY <2>4, <3>1
      <4> HIDE DEF c, m
      <4>5. Front(c) \in Path /\ Len(Front(c)) = m /\ \A i \in 1..m : Front(c)[i] = c[i]
        BY <4>3, SubPath
      <4>6. Cut(m) \in Path /\ Len(Cut(m)) = m /\ \A i \in 1..m : Cut(m)[i] = dir[i]
        BY <4>1 DEF m
      <4> HIDE DEF Cut
      <4>7. Front(c) = Cut(m)
        BY <4>4, <4>5, <4>6, SeqEqual DEF Path
      <4> QED BY <4>7 DEF c, m
    <3>5. search[Cut(n)] = search[Front(Cut(n))]
      <4> HIDE DEF Cut
      <4> QED BY <1>3, <2>4, <3>3
    <3> QED BY <2>3, <3>2, <3>4, <3>5
  <2> QED BY <1>5, <2>3, <2>5, <2>6
<1>8. Cut(Len(dir)) = dir
  <2>1. Cut(Len(dir)) \in Path /\ Len(Cut(Len(dir))) = Len(dir)
        /\ \A i \in 1..Len(dir) : Cut(Len(dir))[i] = dir[i]
    BY <1>5, <1>6
  <2> HIDE DEF Cut
  <2> QED BY <1>5, <2>1, SeqEqual DEF Path
<1>9. Len(dir) \in Len(p)..Len(dir)
  BY <1>5
<1> QED
  BY <1>4, <1>7, <1>8, <1>9

(* The rules loaded: the ones of the last check so far that names a directory. *)
Listed(n) == {d \in Keys : \E i \in 1..n : d \in root.checks[i].path}

IsLast(i, d, n) ==
  d \in root.checks[i].path /\ \A j \in 1..n : d \in root.checks[j].path => j <= i

ActsOf(i, level) == lower_first(root.checks[i].alert[level], root.alert[level])

Ruled(n) ==
  /\ DOMAIN _conf = Listed(n) \X Levels
  /\ \A i \in 1..n, d \in Keys, level \in Levels :
       IsLast(i, d, n) => _conf[<<d, level>>] = ActsOf(i, level)

RInv ==
  /\ Ruled(Done("load_alerter"))
  /\ \A f \in unscanned : Below(Front(f))
  /\ NearestRule

LEMMA FrameRuled ==
  ASSUME UNCHANGED root
  PROVE  /\ UNCHANGED _conf => \A n : Ruled(n)' <=> Ruled(n)
         /\ UNCHANGED given => (NearestRule' <=> NearestRule)
BY DEF Ruled, Listed, IsLast, ActsOf, NearestRule, Named, Checks

LEMMA AlerterRules == IInv /\ RInv /\ LoadAlerter => RInv'
<1> SUFFICES ASSUME IInv, RInv, LoadAlerter PROVE RInv'
  OBVIOUS
<1> USE DEF LoadAlerter
<1>0. PICK n : n = next
  OBVIOUS
<1> DEFINE c == root.checks[n]
<1>1. /\ n \in 1..Count /\ Count \in Nat /\ c.path \subseteq Keys
      /\ Done("load_alerter") = n - 1 /\ Done("load_alerter")' = n
  BY <1>0, ConfigShape, LoadSteps DEF IInv, Shape, Phases, Done
<1>2. Ruled(n - 1)
  BY <1>1 DEF RInv
<1>3. _conf' = [k \in DOMAIN _conf \cup (c.path \X Levels) |->
                  IF k[1] \in c.path
                  THEN lower_first(c.alert[k[2]], root.alert[k[2]]) ELSE _conf[k]]
  BY <1>0
<1>4. Listed(n) = Listed(n - 1) \cup c.path
  <2>1. \A i \in 1..n : i \in 1..n - 1 \/ i = n
    BY <1>1
  <2> QED BY <1>1, <2>1 DEF Listed
<1>5. DOMAIN _conf' = Listed(n) \X Levels
  BY <1>2, <1>3, <1>4 DEF Ruled
<1>6. ASSUME NEW i \in 1..n, NEW d \in Keys, NEW level \in Levels, IsLast(i, d, n)
      PROVE  _conf'[<<d, level>>] = ActsOf(i, level)
  <2>1. <<d, level>> \in DOMAIN _conf'
    <3>1. d \in Listed(n)
      BY <1>6 DEF Listed, IsLast
    <3> QED BY <1>5, <3>1
  <2>2. CASE i = n
    <3>1. d \in c.path
      BY <1>6, <2>2 DEF IsLast
    <3> QED BY <1>3, <1>5, <2>1, <2>2, <3>1 DEF ActsOf
  <2>3. CASE i # n
    <3>1. i \in 1..n - 1 /\ d \notin c.path
      BY <1>1, <1>6, <2>3 DEF IsLast
    <3>2. IsLast(i, d, n - 1)
      BY <1>1, <1>6 DEF IsLast
    <3>3. _conf[<<d, level>>] = ActsOf(i, level)
      BY <1>2, <3>1, <3>2 DEF Ruled
    <3> QED BY <1>3, <1>5, <2>1, <3>1, <3>3
  <2> QED BY <2>2, <2>3
<1>7. Ruled(n)'
  <2>1. root' = root
    OBVIOUS
  <2>2. Listed(n)' = Listed(n)
    BY <2>1 DEF Listed
  <2>3. \A i, d : IsLast(i, d, n)' <=> IsLast(i, d, n)
    BY <2>1 DEF IsLast
  <2>4. \A i, level : ActsOf(i, level)' = ActsOf(i, level)
    BY <2>1 DEF ActsOf
  <2> QED BY <1>5, <1>6, <2>2, <2>3, <2>4 DEF Ruled
<1>8. unscanned' = {} /\ UNCHANGED <<root, given>>
  BY DEF IInv, Walked, Order, history
<1> QED
  BY <1>1, <1>7, <1>8, FrameRuled DEF RInv

LEMMA NearestIsTaken ==
  ASSUME IInv, Ruled(Count), NEW f \in Names, NEW level \in Levels, Below(Front(f)),
         given' = [name |-> f, level |-> level, acts |-> FindRule(level, Front(f)) \cap Actions],
         UNCHANGED root
  PROVE  NearestRule'
<1> DEFINE dir == Front(f)
<1>1. dir \in Dirs /\ dir \in Keys /\ dir \in Path /\ Len(dir) \in Nat
  BY NamesAssumption, KeysAreDirs, KeysArePaths DEF Path
<1>2. /\ Count \in Nat \ {0} /\ DOMAIN root.checks = 1..Count
      /\ \A i \in 1..Count : root.checks[i] \in Check /\ root.checks[i].path \subseteq Keys
      /\ Checks = {root.checks[i] : i \in 1..Count}
  <2>1. /\ Count \in Nat \ {0} /\ root.checks \in Seq(Check)
        /\ \A i \in 1..Count : root.checks[i] \in Check /\ root.checks[i].path \subseteq Keys
    BY ConfigShape DEF IInv, Shape
  <2>2. DOMAIN root.checks = 1..Count
    BY <2>1 DEF Count
  <2> QED BY <2>1, <2>2 DEF Checks, Range
<1> HIDE DEF dir
<1>3. Named(dir) = {p \in Listed(Count) : IsPrefix(p, dir)}
  <2>1. \A p \in Listed(Count) : p \in Keys /\ p \in Path /\ \E c \in Checks : p \in c.path
    BY <1>2, KeysArePaths DEF Listed
  <2>2. ASSUME NEW p \in Named(dir) PROVE p \in Listed(Count) /\ IsPrefix(p, dir)
    <3>1. PICK i \in 1..Count : p \in root.checks[i].path
      BY <1>2 DEF Named
    <3>2. p \in Keys /\ p \in Path
      BY <1>2, <3>1, KeysArePaths
    <3> QED BY <1>1, <3>1, <3>2, PrefixesAre DEF Named, Listed
  <2>3. ASSUME NEW p \in Listed(Count), IsPrefix(p, dir) PROVE p \in Named(dir)
    BY <1>1, <2>1, <2>3, PrefixesAre DEF Named
  <2> QED BY <2>2, <2>3
<1>4. \A p \in Named(dir) : p \in Keys /\ Len(p) \in Nat /\ Len(p) <= Len(dir)
  <2>1. \A p \in Named(dir) : p \in Keys /\ p \in Path /\ IsPrefix(p, dir)
    BY <1>3, KeysArePaths DEF Listed
  <2> QED BY <1>1, <2>1, PrefixIs DEF Path
<1>5. PICK p \in Named(dir) : \A q \in Named(dir) : Len(q) <= Len(p)
  <2> DEFINE S == {Len(q) : q \in Named(dir)}
  <2>1. Named(dir) # {}
    <3>1. PICK i \in 1..Count : \E q \in root.checks[i].path : IsPrefix(q, dir)
      BY DEF Below, dir
    <3> QED BY <1>2, <1>3, <3>1 DEF Listed
  <2>2. S \in SUBSET Nat /\ S # {} /\ \A n \in S : n <= Len(dir)
    BY <1>4, <2>1
  <2>3. PICK n \in S : \A k \in S : k <= n
    BY <1>1, <2>2, GreatestIs
  <2> QED BY <2>3
<1>6. PICK i \in 1..Count : IsLast(i, p, Count)
  <2> DEFINE S == {j \in 1..Count : p \in root.checks[j].path}
  <2>1. S \in SUBSET Nat /\ S # {} /\ \A n \in S : n <= Count
    BY <1>2, <1>3 DEF Listed
  <2>2. PICK n \in S : \A k \in S : k <= n
    BY <1>2, <2>1, GreatestIs
  <2> QED BY <2>2 DEF IsLast
<1>7. FindRule(level, dir) = _conf[<<p, level>>]
  <2>1. <<p, level>> \in DOMAIN _conf /\ IsPrefix(p, dir) /\ p \in Keys
    BY <1>3, <1>4 DEF Ruled
  <2>2. \A q \in Keys : IsPrefix(q, dir) /\ <<q, level>> \in DOMAIN _conf => Len(q) <= Len(p)
    BY <1>3, <1>5 DEF Ruled
  <2> QED BY <1>1, <2>1, <2>2, FindRuleIs
<1>8. _conf[<<p, level>>] = ActsOf(i, level)
  BY <1>4, <1>6 DEF Ruled
<1>9. ActsOf(i, level) \subseteq Actions
  <2>1. root.checks[i].alert \in [Levels -> SUBSET Actions]
    BY <1>2 DEF Check
  <2>2. root.alert \in [Levels -> SUBSET Actions]
    BY ConfigsAssumption DEF IInv, Shape
  <2> QED BY <2>1, <2>2 DEF ActsOf, lower_first
<1>10. given'.name = f /\ given'.level = level /\ given'.acts = ActsOf(i, level)
  BY <1>7, <1>8, <1>9 DEF dir
<1>11. /\ \A q \in Named(dir) : Len(q) <= Len(p)
       /\ p \in root.checks[i].path
       /\ \A j \in DOMAIN root.checks : p \in root.checks[j].path => j <= i
       /\ LET own == root.checks[i].alert[level] IN
            ActsOf(i, level) = IF own # {} THEN own ELSE root.alert[level]
  BY <1>2, <1>5, <1>6 DEF IsLast, ActsOf, lower_first
<1>12. Named(dir)' = Named(dir) /\ root' = root
  BY DEF Named, Checks, dir
<1> QED
  BY <1>2, <1>10, <1>11, <1>12 DEF NearestRule, Named, Checks, dir

LEMMA JudgementRules ==
  ASSUME IInv, RInv, ~Early, NEW f \in Names, Below(Front(f)), do_analysis(f),
         UNCHANGED <<root, phase, next, _conf>>, unscanned' \subseteq unscanned
  PROVE  RInv'
<1>1. Done("load_alerter") = Count /\ Done("load_alerter")' = Count
  BY DEF IInv, Shape, Done, Count, Order, Early, Phases
<1>2. Ruled(Count) /\ Ruled(Count)'
  <2>1. Ruled(Count) /\ UNCHANGED root
    BY <1>1 DEF RInv
  <2>2. Count' = Count /\ DOMAIN _conf' = DOMAIN _conf /\ _conf' = _conf
    BY DEF Count
  <2> QED BY <2>1, <2>2 DEF Ruled, Listed, IsLast, ActsOf
<1>3. Ruled(Done("load_alerter"))'
  <2>1. Done("load_alerter")' = Count'
    BY <1>1 DEF Count
  <2> QED BY <1>2, <2>1
<1>4. NearestRule'
  <2>1. CASE given' = given
    BY <2>1, FrameRuled DEF RInv
  <2>2. CASE \E level \in Levels :
               given' = [name |-> f, level |-> level, acts |-> FindRule(level, Front(f)) \cap Actions]
    BY <1>2, <2>2, NearestIsTaken
  <2> QED BY <2>1, <2>2 DEF do_analysis
<1> QED
  BY <1>3, <1>4, FrameRoot DEF RInv

LEMMA RInvInit == Init => RInv
<1> SUFFICES ASSUME Init PROVE RInv
  OBVIOUS
<1> USE DEF Init
<1>1. Done("load_alerter") = 0
  BY DEF Done, Order
<1>2. Ruled(0)
  BY DEF Ruled, Listed, Nothing
<1> QED
  BY <1>1, <1>2 DEF RInv, NearestRule

LEMMA OtherLoadRules ==
  ASSUME IInv, RInv, LoadJudge \/ LoadExcludedDir \/ LoadWatcher
  PROVE  RInv'
<1> USE DEF LoadJudge, LoadExcludedDir, LoadWatcher, rules, history
<1>1. Done("load_alerter")' = Done("load_alerter")
  BY LoadSteps DEF IInv, Phases
<1>2. UNCHANGED <<root, _conf, given>>
  OBVIOUS
<1>3. \A f \in unscanned' : Below(Front(f))
  <2>1. CASE unscanned' = unscanned
    BY <2>1 DEF RInv
  <2>2. CASE LoadWatcher
    <3>1. \A f \in unscanned' : Front(f) \in Reached(root.checks[next])
      BY <2>2
    <3>2. next \in 1..Count
      BY DEF IInv, Shape
    <3>3. \A f \in unscanned' : \E p \in root.checks[next].path : IsPrefix(p, Front(f))
      BY <3>1, ReachedIs
    <3> QED BY <3>2, <3>3 DEF Below
  <2> QED BY <2>1, <2>2
<1> QED
  BY <1>1, <1>2, <1>3, FrameRuled, FrameRoot DEF RInv

LEMMA RInvHolds == Spec => []RInv
<1>1. IInv /\ RInv /\ [Next]_vars => RInv'
  <2> SUFFICES ASSUME IInv, RInv, [Next]_vars PROVE RInv'
    OBVIOUS
  <2>1. CASE LoadAlerter \/ LoadJudge \/ LoadExcludedDir \/ LoadWatcher
    BY <2>1, AlerterRules, OtherLoadRules
  <2>2. CASE ScanFile
    <3>1. PICK f \in unscanned : do_analysis(f) /\ unscanned' = unscanned \ {f}
      BY <2>2 DEF ScanFile
    <3>2. f \in Names /\ Below(Front(f)) /\ ~Early
      BY DEF IInv, RInv, Walked, Early
    <3> QED BY <2>2, <3>1, <3>2, JudgementRules DEF ScanFile, rules
  <2>3. CASE Event
    <3>1. PICK f \in Names : Front(f) \in watched /\ do_analysis(f)
      BY <2>3 DEF Event
    <3>2. Below(Front(f)) /\ ~Early
      BY <2>3, <3>1 DEF IInv, Walked, Event, Early, Order
    <3> QED BY <2>3, <3>1, <3>2, JudgementRules DEF Event, rules
  <2>4. CASE UNCHANGED vars
    <3>1. UNCHANGED <<root, phase, next, _conf, unscanned, given>>
      BY <2>4 DEF vars
    <3>2. Done("load_alerter")' = Done("load_alerter")
      BY <3>1 DEF Done, Count
    <3> QED BY <3>1, <3>2, FrameRuled, FrameRoot DEF RInv
  <2> QED BY <2>1, <2>2, <2>3, <2>4 DEF Next
<1> QED
  BY <1>1, RInvInit, IInvHolds, PTL DEF Spec

(* An alert takes the actions of the nearest configured directory above the    *)
(* file, of the last check that names it and, where that check has none, of     *)
(* the root; for any number of checks that name any directories.             *)
THEOREM NearestRuleIsTaken == Spec => []NearestRule
<1>1. RInv => NearestRule
  BY DEF RInv
<1> QED
  BY <1>1, RInvHolds, PTL
===============================================================================
