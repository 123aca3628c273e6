------------------------------- MODULE DirWatch -------------------------------
(***************************************************************************)
(* The watcher and the tree it watches: the walk of add_dir over each path   *)
(* of the configuration, the watches of inotify and the table from their     *)
(* descriptors to paths, and the loop that turns an event into a name, while *)
(* files and directories are made, removed, written and renamed.            *)
(* (src/file_watcher.cpp.)                                                *)
(*                                                                         *)
(* A path is the sequence of the names from Top down.  What the judge does   *)
(* with a name is left to FileAnalysis: here a name is looked at or not.     *)
(***************************************************************************)
EXTENDS Integers, FiniteSets, SequencesExt

CONSTANTS
  Dirs, Files,   \* inodes
  Top,           \* the one directory that stays where it is
  Names,
  Trees,         \* where the nodes may be when the walk begins
  Roots,         \* the paths of the configuration: [path, recursive]
  Excluded,      \* _filter
  MayFail,       \* paths the kernel may refuse to list, or to watch
  Nowhere,
  NoName,        \* of an event without a name
  MaxQueued,     \* fs.inotify.max_queued_events
  MaxChanges     \* bound of the environment

Nodes == Dirs \cup Files

(* A tree gives each node that exists a path of its own, and every path above *)
(* it to a directory.                                                       *)
IsTree(t) ==
  /\ t \in [Nodes -> Seq(Names) \cup {Nowhere}] /\ t[Top] = << >>
  /\ \A m, n \in Nodes : t[m] = t[n] /\ t[m] # Nowhere => m = n
  /\ \A n \in Nodes : t[n] # Nowhere =>
       \A k \in 0..Len(t[n]) - 1 : \E d \in Dirs : t[d] = SubSeq(t[n], 1, k)

ASSUME DirWatchAssumption ==
  /\ Top \in Dirs /\ Dirs \cap Files = {} /\ IsFiniteSet(Dirs) /\ IsFiniteSet(Files)
  /\ Nowhere \notin Seq(Names) /\ NoName \notin Names
  /\ Roots \in Seq([path : Seq(Names), recursive : BOOLEAN]) \ {<< >>}
  /\ Excluded \subseteq Seq(Names) /\ MayFail \subseteq Seq(Names)
  /\ \A t \in Trees : IsTree(t)
  /\ MaxQueued \in Nat \ {0} /\ MaxChanges \in Nat

VARIABLES
  path,       \* of each node, or Nowhere
  wds,        \* the watch descriptor of each node, 0 if it has none
  inotify,    \* the events of the kernel
  _hash,      \* the path of each descriptor
  skip,       \* _skip
  roots,      \* the paths load_watcher has still to walk, the present one first
  _queue,     \* of the EntryIterator: a stack, its top at the end
  pc, entry,  \* what main is about to do with which path
  unseen,     \* history: paths of files with a change that is to be looked at
  stray,      \* history: directories that came where no walk will look, or that
              \* the kernel refused to list or to watch when the last one was there
  changes     \* bound

tree == <<path, changes>>
kernel == <<wds, inotify>>
walk == <<_hash, skip, roots, _queue, pc, entry>>
vars == <<tree, kernel, walk, unseen, stray>>

Placed == {n \in Nodes : path[n] # Nowhere}

Below(n) == {m \in Placed : IsPrefix(path[n], path[m])}
NodesAt(p) == {n \in Placed : path[n] = p}
Isdir(p) == NodesAt(p) \cap Files = {}     \* so is what does not exist
Holds(d, name, n) == d \in Placed /\ path[n] = Append(path[d], name)

Overflow == [wd |-> -1, name |-> NoName]

(* Every event that has a name has the descriptor of a path: the find of     *)
(* watch() is not tested.                                                  *)
TypeOK ==
  /\ IsTree(path)
  /\ wds \in [Nodes -> 0..Len(_hash)]
  /\ inotify \in Seq([wd : DOMAIN _hash, name : Names \cup {NoName}] \cup {Overflow})
  /\ Len(inotify) <= MaxQueued + 1
  /\ _hash \in Seq(Seq(Names))
  /\ _queue \in Seq(Seq(Names)) /\ roots \in Seq(Range(Roots))
  /\ skip \in BOOLEAN
  /\ pc \in {"next", "watch", "judge", "loop"} /\ entry \in Seq(Names)
  /\ unseen \subseteq Seq(Names) /\ stray \subseteq Dirs

need_mon(dir) == dir \notin Excluded

(* Whether a walk that has come to q comes to the directory p.               *)
Leads(q, recursive, p) ==
  /\ IsPrefix(q, p) /\ (recursive \/ q = p)
  /\ \A k \in Len(q)..Len(p) : need_mon(SubSeq(p, 1, k))

Reached(p) == \E r \in Range(Roots) : Leads(r.path, r.recursive, p)

(* Whether the present walk, or a later one, is still to come to p.          *)
Coming(p) ==
  \/ \E q \in Range(_queue) : Leads(q, Head(roots).recursive, p)
  \/ \E i \in 2..Len(roots) : Leads(roots[i].path, roots[i].recursive, p)

Init ==
  /\ path \in Trees
  /\ wds = [n \in Nodes |-> 0] /\ inotify = << >>
  /\ _hash = << >> /\ roots = Roots /\ _queue = << Head(Roots).path >>
  /\ skip \in BOOLEAN /\ pc = "next" /\ entry = << >>
  /\ unseen = IF skip THEN {} ELSE
       {path[f] : f \in {g \in Files \cap Placed : Reached(Front(path[g]))}}
  /\ stray = {} /\ changes = 0
-------------------------------------------------------------------------------
(* The environment, and what the kernel makes of it.                        *)

(* A node that is not watched has no events; one is dropped when the queue is *)
(* full, and the first to be leaves a mark.                                 *)
Queued(q, n, name) ==
  IF wds[n] = 0 THEN q
  ELSE IF Len(q) < MaxQueued THEN Append(q, [wd |-> wds[n], name |-> name])
  ELSE IF Overflow \in Range(q) THEN q ELSE Append(q, Overflow)

(* Main has listed d, and not watched it yet.                               *)
Window(d) == pc = "watch" /\ entry = path[d]

(* An event is queued that the table will turn into p.                       *)
Pending(p) == \E event \in Range(inotify) :
  event.name # NoName /\ Append(_hash[event.wd], event.name) = p

(* Whether a change in d is promised to be looked at: d is within a walk, did *)
(* not come where that had passed, was not refused, and has a watch or is     *)
(* still to be listed.                                                     *)
Promised(d) ==
  /\ Reached(path[d]) /\ d \notin stray
  /\ wds[d] # 0 \/ (~skip /\ ~Window(d))

(* A change of the file name of d is owed a look, unless its event is         *)
(* dropped; one that takes the file away is only owed it where d is watched.  *)
Owed(d, name, gone) ==
  LET queued == [wd |-> wds[d], name |-> name] \in Range(inotify') IN
  IF Promised(d) /\ (IF wds[d] = 0 THEN ~gone ELSE queued)
  THEN {Append(path[d], name)} ELSE {}

(* Directories whose path is new.  A walk that is to come finds them there,    *)
(* but nothing mends the path of a descriptor.                              *)
Arrived(S) ==
  stray' = (stray \ S) \cup
    {d \in S : wds[d] # 0 \/ (Reached(path'[d]) /\ ~Coming(path'[d]))}

Change == changes < MaxChanges /\ changes' = changes + 1

Touch(f, d, name) ==
  /\ Change /\ Holds(d, name, f)
  /\ inotify' = Queued(Queued(inotify, d, name), f, NoName)
  /\ unseen' = (unseen \ {path[f]}) \cup Owed(d, name, FALSE)
  /\ UNCHANGED <<path, wds, walk, stray>>

Make(n, d, name) ==
  /\ Change /\ n \notin Placed /\ d \in Placed
  /\ NodesAt(Append(path[d], name)) = {}
  /\ path' = [path EXCEPT ![n] = Append(path[d], name)]
  /\ inotify' = Queued(inotify, d, name)
  /\ unseen' = IF n \in Files THEN (unseen \ {path'[n]}) \cup Owed(d, name, FALSE) ELSE unseen
  /\ Arrived({n} \cap Dirs)
  /\ UNCHANGED <<wds, walk>>

Unlink(n, d, name) ==
  /\ Change /\ Holds(d, name, n) /\ Below(n) = {n}
  /\ path' = [path EXCEPT ![n] = Nowhere]
  /\ inotify' = Queued(Queued(Queued(inotify, n, NoName), n, NoName), d, name)
  /\ unseen' = IF n \in Files THEN (unseen \ {path[n]}) \cup Owed(d, name, TRUE) ELSE unseen
  /\ wds' = [wds EXCEPT ![n] = 0]
  /\ UNCHANGED <<walk, stray>>

(* What is below n goes with it.                                           *)
Moved(n, p, to) == to \o SubSeq(p, Len(path[n]) + 1, Len(p))

Rename(n, from, old, d, name) ==
  /\ Change /\ Holds(from, old, n) /\ d \in Placed \ Below(n)
  /\ NodesAt(Append(path[d], name)) = {}
  /\ path' = [m \in Nodes |->
       IF m \in Below(n) THEN Moved(n, path[m], Append(path[d], name)) ELSE path[m]]
  /\ inotify' = Queued(Queued(inotify, from, old), d, name)
  /\ unseen' = IF n \in Files
                THEN (unseen \ {path[n], path'[n]})
                       \cup Owed(from, old, TRUE) \cup Owed(d, name, FALSE)
                ELSE {p \in unseen : ~IsPrefix(path[n], p)}
  /\ Arrived(Below(n) \cap Dirs)
  /\ UNCHANGED <<wds, walk>>

Environment == \E d \in Dirs, name \in Names :
  \/ \E f \in Files : Touch(f, d, name)
  \/ \E n \in Nodes : Unlink(n, d, name) \/ Make(n, d, name)
  \/ \E n \in Nodes, from \in Dirs, old \in Names : Rename(n, from, old, d, name)
-------------------------------------------------------------------------------
(* The walk.                                                               *)

(* The names readdir finds in a directory, in any order; of the directories  *)
(* among them only those of a recursive walk.                              *)
Listings(d) == SetToSeqs({p \in {path[n] : n \in Placed} :
  /\ \E name \in Names : p = Append(path[d], name)
  /\ ~Isdir(p) \/ Head(roots).recursive})

(* A deviation: a directory that cannot be opened ends the walk.             *)
Continue_stops == _queue' = << >> /\ UNCHANGED <<pc, entry>>

(* The loop goes on with the rest of the stack.                              *)
Continue == _queue' = Front(_queue) /\ UNCHANGED <<pc, entry>>

(* The path p is below the directory name, and no walk comes to it any more.  *)
Forgotten(name, p) == IsPrefix(name, p) /\ Coming(p) /\ ~Coming(p)'

(* opendir fails for a directory that is there: nothing below it is promised  *)
(* unless another walk comes to it, it is watched or its event is queued.     *)
GivenUp(name) ==
  /\ stray' = stray \cup {d \in Dirs \cap Placed : wds[d] = 0 /\ Forgotten(name, path[d])}
  /\ unseen' = {p \in unseen :
                  Forgotten(name, Front(p)) => Pending(p) \/ p \in Range(_queue')}

(* EntryIterator::next, one turn of its loop: a file is the judge's, unless   *)
(* --skip was given; what cannot be opened, or is not to be monitored, is    *)
(* passed over; a directory is listed and then watched.                     *)
NextEntry ==
  /\ pc = "next" /\ _queue # << >>
  /\ UNCHANGED <<tree, kernel, _hash, skip, roots>>
  /\ LET name == Last(_queue) rest == Front(_queue) IN
       \/ /\ ~Isdir(name)
          /\ _queue' = rest /\ entry' = name /\ pc' = IF skip THEN "next" ELSE "judge"
          /\ UNCHANGED <<unseen, stray>>
       \/ /\ Isdir(name) /\ (NodesAt(name) = {} \/ ~need_mon(name))
          /\ Continue /\ UNCHANGED <<unseen, stray>>
       \/ /\ Isdir(name) /\ need_mon(name) /\ name \in MayFail
          /\ Continue /\ GivenUp(name)
       \/ /\ need_mon(name)
          /\ \E d \in NodesAt(name) \cap Dirs : \E listing \in Listings(d) :
               _queue' = rest \o listing
          /\ entry' = name /\ pc' = "watch"
          /\ UNCHANGED <<unseen, stray>>

(* The end of a walk: on to the next path, or to the loop.                   *)
WalkDone ==
  /\ pc = "next" /\ _queue = << >>
  /\ roots' = Tail(roots)
  /\ IF roots' = << >> THEN pc' = "loop" /\ UNCHANGED _queue
                       ELSE _queue' = << Head(roots').path >> /\ UNCHANGED pc
  /\ UNCHANGED <<tree, kernel, _hash, skip, entry, unseen, stray>>

(* Deviations: a path that is in the table is not entered again; the table    *)
(* gets the path the walk began with.                                      *)
Enter_by_path(n) ==
  IF wds[n] = 0
  THEN /\ _hash' = IF entry \in Range(_hash) THEN _hash ELSE Append(_hash, entry)
       /\ wds' = [wds EXCEPT ![n] = Len(_hash) + 1]
  ELSE UNCHANGED <<wds, _hash>>
Enter_root(n) ==
  IF wds[n] = 0
  THEN /\ _hash' = Append(_hash, Head(roots).path)
       /\ wds' = [wds EXCEPT ![n] = Len(_hash')]
  ELSE UNCHANGED <<wds, _hash>>

(* An inode that is watched already keeps its descriptor, and the table its   *)
(* path.                                                                   *)
Enter(n) ==
  IF wds[n] = 0
  THEN /\ _hash' = Append(_hash, entry)
       /\ wds' = [wds EXCEPT ![n] = Len(_hash')]
  ELSE UNCHANGED <<wds, _hash>>

(* add_dir(dir): the watch of a directory that has gone, or one the kernel     *)
(* refuses, is an error nobody looks at.                                    *)
AddDir ==
  /\ pc = "watch"
  /\ \/ /\ NodesAt(entry) = {} \/ entry \in MayFail
        /\ UNCHANGED <<wds, _hash>>
        /\ stray' = stray \cup {d \in Dirs \cap NodesAt(entry) : wds[d] = 0 /\ ~Coming(entry)}
     \/ \E n \in NodesAt(entry) : Enter(n) /\ UNCHANGED stray
  /\ pc' = "next"
  /\ UNCHANGED <<tree, inotify, skip, roots, _queue, entry, unseen>>

(* do_analysis, from the walk.                                             *)
Judge ==
  /\ pc = "judge"
  /\ unseen' = unseen \ {entry}
  /\ pc' = "next"
  /\ UNCHANGED <<tree, kernel, _hash, skip, roots, _queue, entry, stray>>

Walk == NextEntry \/ WalkDone \/ AddDir \/ Judge

(* A deviation: an event without a name ends the buffer.                     *)
Watch_returns ==
  /\ pc = "loop" /\ inotify # << >>
  /\ LET event == Head(inotify) IN
       IF event.name = NoName THEN UNCHANGED unseen /\ inotify' = << >>
       ELSE unseen' = unseen \ {Append(_hash[event.wd], event.name)} /\ inotify' = Tail(inotify)
  /\ UNCHANGED <<tree, wds, walk, stray>>

(* watch(), one event: its name goes to the judge, if it has one.            *)
Watch ==
  /\ pc = "loop" /\ inotify # << >>
  /\ LET event == Head(inotify) IN
       IF event.name = NoName THEN UNCHANGED unseen
       ELSE unseen' = unseen \ {Append(_hash[event.wd], event.name)}
  /\ inotify' = Tail(inotify)
  /\ UNCHANGED <<tree, wds, walk, stray>>

Poll == pc = "loop" /\ inotify = << >> /\ UNCHANGED vars

Next == Environment \/ Walk \/ Watch \/ Poll

Spec == Init /\ [][Next]_vars
FairSpec == Spec /\ WF_vars(Walk) /\ WF_vars(Watch)
-------------------------------------------------------------------------------
(* Properties.                                                             *)

(* A promised change is never lost between the listing, the watch, the queue  *)
(* of the kernel and the table of paths: as long as nobody has looked at it,  *)
(* the walk is still to come to its directory or its file, or an event is     *)
(* queued that the table will turn into its very name.  A directory that      *)
(* could not be opened or watched takes only its own promises with it.        *)
NothingLost ==
  \A p \in unseen :
    \/ Pending(p)
    \/ ~skip /\ (p \in Range(_queue) \/ Coming(Front(p)) \/ (pc = "judge" /\ entry = p))

(* The table names a watched directory by the path it has, whatever was made,  *)
(* removed or walked twice, as long as neither it nor what is above it was    *)
(* renamed since.                                                          *)
TableTrue ==
  \A d \in (Dirs \cap Placed) \ stray : wds[d] # 0 => _hash[wds[d]] = path[d]

(* When the walks are done, every directory they were to reach is watched,    *)
(* but for those that came, or moved, to where the walks had passed, and for  *)
(* what the kernel refused to watch, or to list, when the last walk came.     *)
AllWatched ==
  pc = "loop" => \A d \in (Dirs \cap Placed) \ stray : Reached(path[d]) => wds[d] # 0

(* Once the tree is left alone (the changes are bounded), everything that was  *)
(* promised is looked at: no walk over a changing tree, no removed directory  *)
(* and no overflow stops the watcher.                                       *)
PromiseKept == <>[](unseen = {})
===============================================================================
