-------------------------------- MODULE Rules ---------------------------------
(***************************************************************************)
(* What the configuration makes of a file: whether it is watched at all,    *)
(* whether do_analysis looks at it, and which actions an alert of it takes. *)
(* (src/monitor.cpp: load_conf and the functions it calls;                 *)
(* src/alerter.cpp; src/file_analysis.cpp: add_filter, add_grep, match;    *)
(* src/file_watcher.cpp: the walk and the excluded directories.)           *)
(*                                                                         *)
(* A path is the sequence of its components, without a slash at its end     *)
(* ("/" itself, whose key no search reaches, is left out).  Begins relates  *)
(* a component to the longer ones it is the beginning of, for is_prefix()   *)
(* compares characters.  A pattern is the set of the names it matches, and  *)
(* the directory it spells if it is one.                                    *)
(***************************************************************************)
EXTENDS Integers, SequencesExt

CONSTANTS
  Dirs,          \* the directories that exist
  Names,         \* the files below them
  Begins,
  Patterns,
  Matches(_, _), \* Matches(pattern, name): regcomp and regexec
  Spelled(_),    \* the path a pattern is the spelling of, or NoPath
  NoPath,
  Configs,       \* the configurations, see Check
  Ranks          \* the orders in which an unordered_map may list its keys

Levels  == {"CHANGED", "CREATED", "DELETED"}
Actions == {"mail", "log"}        \* init_action

Keys == UNION {Prefixes(d) : d \in Dirs}

Check == [path : SUBSET (Keys \ {<< >>}), recursive : BOOLEAN, alert : [Levels -> SUBSET Actions],
          filter : SUBSET Patterns, grep : SUBSET Patterns]

ASSUME DirsAssumption ==
  /\ NoPath \notin Dirs
  /\ \A d \in Dirs : /\ d # << >> /\ d \in Seq(Range(d))
                     /\ \A p \in Prefixes(d) \ {<< >>} : p \in Dirs
ASSUME PatternsAssumption == \A p \in Patterns : Spelled(p) \in Keys \cup {NoPath}
ASSUME NamesAssumption == \A f \in Names :
  f # << >> /\ f \in Seq(Range(f)) /\ Front(f) \in Dirs
ASSUME ConfigsAssumption == \A c \in Configs :
  /\ c.alert \in [Levels -> SUBSET Actions]
  /\ c.checks \in Seq(Check) /\ c.checks # << >>   \* without a check nothing is watched
ASSUME RanksAssumption == \A r \in Ranks : IsInjective(r) /\ r \in [Keys -> Nat]

VARIABLES
  root,             \* the configuration
  rank,             \* the order of the maps of this process
  phase, next,      \* the function load_conf is in, and its next check
  _conf,            \* the rules of the alerter
  _ignore, _grep,   \* the patterns of filter and grep, by directory
  _filter,          \* the directories that are not entered
  watched,          \* the directories that have a watch
  unscanned,        \* the files the walk has listed and not yet returned
  analysed, ignored,\* history: what do_analysis did with a name it was given
  given             \* the last alert: name, level and actions

vars == <<root, rank, phase, next, _conf, _ignore, _grep, _filter, watched,
          unscanned, analysed, ignored, given>>
rules  == <<_conf, _ignore, _grep>>
history == <<analysed, ignored, given>>

NoAlert == [name |-> << >>, level |-> "CHANGED", acts |-> {}]
Nothing == [d \in {} |-> {}]

TypeOK ==
  /\ root.checks \in Seq(Check) /\ rank \in Ranks
  /\ phase \in {"load_alerter", "load_judge", "load_excluded_dir", "load_watcher", "run"}
  /\ next \in 1..Len(root.checks) + 1
  /\ DOMAIN _conf \subseteq Keys \X Levels /\ Range(_conf) \subseteq SUBSET Actions
  /\ \A regs \in {_ignore, _grep} :
       DOMAIN regs \subseteq Keys /\ Range(regs) \subseteq (SUBSET Patterns) \ {{}}
  /\ _filter \subseteq Keys
  /\ watched \subseteq Dirs
  /\ unscanned \subseteq Names
  /\ analysed \subseteq Names /\ ignored \subseteq Names
  /\ given = NoAlert \/ given \in [name : Names, level : Levels, acts : SUBSET Actions]

Init ==
  /\ root \in Configs /\ rank \in Ranks
  /\ phase = "load_alerter" /\ next = 1
  /\ _conf = Nothing /\ _ignore = Nothing /\ _grep = Nothing
  /\ _filter = {}
  /\ watched = {} /\ unscanned = {}
  /\ analysed = {} /\ ignored = {} /\ given = NoAlert
-------------------------------------------------------------------------------
(* load_conf: each function goes through the checks in order, one step each. *)

(* A deviation: the directories are walked before the patterns are loaded.  *)
After_walk_first(p) ==
  CASE p = "load_alerter"      -> "load_excluded_dir"
    [] p = "load_excluded_dir" -> "load_watcher"
    [] p = "load_watcher"      -> "load_judge"
    [] p = "load_judge"        -> "run"

After(p) ==
  CASE p = "load_alerter"      -> "load_judge"
    [] p = "load_judge"        -> "load_excluded_dir"
    [] p = "load_excluded_dir" -> "load_watcher"
    [] p = "load_watcher"      -> "run"

NextCheck ==
  IF next < Len(root.checks)
  THEN next' = next + 1 /\ phase' = phase
  ELSE next' = 1 /\ phase' = After(phase)

(* Deviation and code: the list of the check goes before that of the root.  *)
lower_first_swapped(low, high) == IF high # {} THEN high ELSE low
lower_first(low, high) == IF low # {} THEN low ELSE high

LoadAlerter ==
  /\ phase = "load_alerter"
  /\ LET check == root.checks[next] IN
       _conf' = [k \in DOMAIN _conf \cup (check.path \X Levels) |->
                   IF k[1] \in check.path
                   THEN lower_first(check.alert[k[2]], root.alert[k[2]]) ELSE _conf[k]]
  /\ NextCheck
  /\ UNCHANGED <<root, rank, _ignore, _grep, _filter, watched, unscanned, history>>

At(regs, d) == IF d \in DOMAIN regs THEN regs[d] ELSE {}

(* add_filter, add_grep: a directory without patterns gets no entry ...     *)
AddPatterns_always(regs, dirs, patterns) ==
  [d \in DOMAIN regs \cup dirs |-> At(regs, d) \cup (IF d \in dirs THEN patterns ELSE {})]

AddPatterns(regs, dirs, patterns) ==
  IF patterns = {} THEN regs
  ELSE [d \in DOMAIN regs \cup dirs |-> At(regs, d) \cup (IF d \in dirs THEN patterns ELSE {})]

LoadJudge ==
  /\ phase = "load_judge"
  /\ LET check == root.checks[next] IN
       /\ _ignore' = AddPatterns(_ignore, check.path, check.filter)
       /\ _grep' = AddPatterns(_grep, check.path, check.grep)
  /\ NextCheck
  /\ UNCHANGED <<root, rank, _conf, _filter, watched, unscanned, history>>

(* A filter that spells a directory keeps every walk out of it.             *)
LoadExcludedDir ==
  /\ phase = "load_excluded_dir"
  /\ _filter' = _filter \cup ({Spelled(p) : p \in root.checks[next].filter} \ {NoPath})
  /\ NextCheck
  /\ UNCHANGED <<root, rank, rules, watched, unscanned, history>>

need_mon(d) == d \notin _filter

(* Deviation: only the directory the walk starts from is looked up.         *)
Reached_top_only(check) ==
  {d \in Dirs : \E top \in check.path \cap Dirs :
     /\ IsPrefix(top, d) /\ (check.recursive \/ d = top)
     /\ need_mon(top)}

(* The directories the walk of a check enters.                              *)
Reached(check) ==
  {d \in Dirs : \E top \in check.path \cap Dirs :
     /\ IsPrefix(top, d) /\ (check.recursive \/ d = top)
     /\ \A e \in Prefixes(d) : IsPrefix(top, e) => need_mon(e)}

LoadWatcher ==
  /\ phase = "load_watcher" /\ unscanned = {}
  /\ LET reached == Reached(root.checks[next]) IN
       /\ watched' = watched \cup reached
       /\ unscanned' = {f \in Names : Front(f) \in reached}
  /\ NextCheck
  /\ UNCHANGED <<root, rank, rules, _filter, history>>
-------------------------------------------------------------------------------
(* is_prefix(): one string is the beginning of the other.                   *)
BeginsString(p, q) ==
  /\ Len(p) <= Len(q)
  /\ \A i \in DOMAIN p : p[i] = q[i] \/ (i = Len(p) /\ <<p[i], q[i]>> \in Begins)

is_prefix(p, q) == BeginsString(p, q) \/ BeginsString(q, p)

(* Deviation: the patterns of whatever directory comes first.               *)
Related_any(regs, name) == DOMAIN regs
Related(regs, name) == {d \in DOMAIN regs : is_prefix(name, d)}

(* match() asks the first directory of the map that is_prefix, and no other. *)
match(regs, name) ==
  \E d \in Related(regs, name) :
    /\ \A e \in Related(regs, name) : rank[d] <= rank[e]
    /\ \E p \in regs[d] : Matches(p, name)

Cares(name) ==
  /\ ~match(_ignore, name)
  /\ DOMAIN _grep # {} => match(_grep, name)

(* Alerter::alert: the rule of the directory or of the nearest above it.     *)
FindRule(level, dir) ==
  LET search[d \in Keys] ==
        IF <<d, level>> \in DOMAIN _conf THEN _conf[<<d, level>>]
        ELSE IF d = << >> THEN {} ELSE search[Front(d)]
  IN search[dir]

(* do_analysis, as far as rules go: nothing, or an alert of some level, or   *)
(* no reason for one.                                                       *)
do_analysis(name) ==
  \/ /\ ~Cares(name)
     /\ ignored' = ignored \cup {name}
     /\ UNCHANGED <<analysed, given>>
  \/ /\ Cares(name)
     /\ analysed' = analysed \cup {name}
     /\ \/ UNCHANGED given
        \/ \E level \in Levels :
             given' = [name |-> name, level |-> level,
                       acts |-> FindRule(level, Front(name)) \cap Actions]
     /\ UNCHANGED ignored

ScanFile ==
  /\ \E f \in unscanned : do_analysis(f) /\ unscanned' = unscanned \ {f}
  /\ UNCHANGED <<root, rank, phase, next, rules, _filter, watched>>

Event ==
  /\ phase = "run" /\ unscanned = {}
  /\ \E f \in Names : Front(f) \in watched /\ do_analysis(f)
  /\ UNCHANGED <<root, rank, phase, next, rules, _filter, watched, unscanned>>

Next ==
  \/ LoadAlerter \/ LoadJudge \/ LoadExcludedDir \/ LoadWatcher
  \/ ScanFile \/ Event

Spec == Init /\ [][Next]_vars
-------------------------------------------------------------------------------
(* Properties.  The checks are read from the configuration, not from what    *)
(* the program has loaded.                                                 *)

Checks == Range(root.checks)

(* An alert takes the actions of the nearest configured directory above the  *)
(* file; of the last check that names it; and the ones of the root where     *)
(* that check has none.  Neither what else is configured nor the order of    *)
(* the checks of other directories matters.                                *)
Named(dir) == {p \in Prefixes(dir) : \E c \in Checks : p \in c.path}

NearestRule ==
  given # NoAlert =>
    \E p \in Named(Front(given.name)) :
      /\ \A q \in Named(Front(given.name)) : Len(q) <= Len(p)
      /\ \E i \in DOMAIN root.checks :
           /\ p \in root.checks[i].path
           /\ \A j \in DOMAIN root.checks : p \in root.checks[j].path => j <= i
           /\ LET own == root.checks[i].alert[given.level] IN
                given.acts = IF own # {} THEN own ELSE root.alert[given.level]

(* The checks have nothing to do with each other: no path of one is, as a     *)
(* string, the beginning of a path of another.                              *)
Separate ==
  \A i, j \in DOMAIN root.checks : i # j =>
    \A p \in root.checks[i].path, q \in root.checks[j].path : ~is_prefix(p, q)

Own(name) == {c \in Checks : \E p \in c.path : IsPrefix(p, name)}

FilteredOut(name) == \E c \in Own(name) : \E p \in c.filter : Matches(p, name)
NotSelected(name) == \E c \in Own(name) :
                       c.grep # {} /\ \A p \in c.grep : ~Matches(p, name)

(* With separate checks a file is ignored for patterns of its own check and   *)
(* never for those of another, in whatever order the maps list their keys;   *)
(* except that a grep of any check makes one of each necessary.             *)
OwnPatterns ==
  Separate =>
    /\ \A f \in analysed : ~FilteredOut(f) /\ ~NotSelected(f)
    /\ \A f \in ignored :
         \/ FilteredOut(f) \/ NotSelected(f)
         \/ \E c \in Checks \ Own(f) : c.grep # {}

SpelledByAny(d) == \E c \in Checks : \E p \in c.filter : Spelled(p) = d

(* A path of the check leads to d without coming through a directory that a   *)
(* filter of any check spells.                                              *)
LeadsTo(c, d) ==
  \E top \in c.path :
    /\ IsPrefix(top, d) /\ (c.recursive \/ d = top)
    /\ \A e \in Prefixes(d) : IsPrefix(top, e) => ~SpelledByAny(e)

(* A directory that a filter spells is kept out of the walks of all checks,    *)
(* in whatever order they come, and with it what is below it, unless another  *)
(* path leads there from below the excluded one: need_mon() looks up each      *)
(* directory by itself.  Nothing else is kept out.                          *)
ExcludedStaysOut ==
  /\ \A d \in watched : \E c \in Checks : LeadsTo(c, d)
  /\ phase = "run" => \A d \in Dirs, c \in Checks : LeadsTo(c, d) => d \in watched

(* The walk and the events judge a name alike: what was read once is not      *)
(* ignored later, nor the other way round.                                  *)
VerdictStable == analysed \cap ignored = {}

(* "Only the names that end in .c and .cpp" is said of one check: a file of a  *)
(* separate check without a grep is not ignored for it.                     *)
GrepIsOwn ==
  Separate => \A f \in ignored : FilteredOut(f) \/ NotSelected(f)
===============================================================================
