-------------------------------- MODULE FileLog --------------------------------
(***************************************************************************)
(* The alert log: Formater::formater, called by any thread, and the rotation  *)
(* of its file under the logger's mutex.  (src/file_log.cpp.)                *)
(*                                                                         *)
(* A line is a number, the first that is written is 1, and counts one towards *)
(* total_size: the program counts the bytes of its message and leaves out     *)
(* those it puts before it, so that a file may be larger than its limit by    *)
(* the heads of its lines.  warning() and error() only: cur_level is          *)
(* LOGGER_WARNING, and nothing calls the others.                           *)
(***************************************************************************)
EXTENDS Integers, FiniteSets

CONSTANTS
  Threads, Nobody,
  Limit,         \* the size above which the file is put away
  PerSecond      \* lines the program logs in a second, at most

(* A second is too short to fill a file (14 MB), also if each thread has a     *)
(* line from before, so that no two are put away under the name of one second. *)
ASSUME FileLogAssumption ==
  /\ Limit \in Nat /\ PerSecond \in Nat \ {0}
  /\ PerSecond + Cardinality(Threads) <= Limit + 1
  /\ Nobody \notin Threads

VARIABLES
  _mutex,
  total_size,
  current,       \* the lines of the file
  opened,        \* file_handler.is_open()
  bad,           \* !file_handler: a write has failed since it was opened
  old,           \* the files put away: [name, lines]
  at,            \* where a thread is in formater with a line
  second, hurry, \* time(NULL), and the lines that began in this second
  written        \* history: how many lines reached the file

log ==
  <<_mutex, total_size, current, opened, bad, old, at, second, hurry, written>>

LogTypeOK ==
  /\ _mutex \in Threads \cup {Nobody}
  /\ total_size \in 0..Limit + 1 /\ opened \in BOOLEAN /\ bad \in BOOLEAN
  /\ \A o, p \in old : o.name \in 0..second /\ (o.name = p.name => o = p)
  /\ at \in [Threads -> {"out", "lock", "count", "close", "rename", "open", "write"}]
  /\ hurry \in 0..PerSecond
  /\ \A t \in Threads : at[t] \in {"count", "close", "rename", "open", "write"} => _mutex = t

LogInit ==
  /\ _mutex = Nobody /\ total_size = 0
  /\ current = {} /\ opened = TRUE /\ bad = FALSE /\ old = {}
  /\ at = [t \in Threads |-> "out"]
  /\ second = 0 /\ hurry = 0 /\ written = 0

Move(t, from, to) == at[t] = from /\ at' = [at EXCEPT ![t] = to]

Second ==
  /\ hurry > 0 /\ hurry' = 0
  /\ second' = second + 1
  /\ UNCHANGED <<_mutex, total_size, current, opened, bad, old, at, written>>

Log(t) ==
  /\ hurry < PerSecond /\ hurry' = hurry + 1
  /\ Move(t, "out", "lock")
  /\ UNCHANGED <<_mutex, total_size, current, opened, bad, old, second, written>>

(* A deviation: no guard.                                                  *)
Guard_none(t) ==
  /\ Move(t, "lock", "count")
  /\ _mutex' = t
  /\ UNCHANGED <<total_size, current, opened, bad, old, second, hurry, written>>

Guard(t) ==
  /\ Move(t, "lock", "count")
  /\ _mutex = Nobody /\ _mutex' = t
  /\ UNCHANGED <<total_size, current, opened, bad, old, second, hurry, written>>

(* A deviation: only what the analysis thread logs is counted.               *)
Count_alerts_only(t) ==
  /\ at[t] = "count"
  /\ total_size' = IF t = "main" THEN total_size ELSE total_size + 1
  /\ Move(t, "count", IF total_size' > Limit THEN "close" ELSE "write")
  /\ UNCHANGED <<_mutex, current, opened, bad, old, second, hurry, written>>

Count(t) ==
  /\ at[t] = "count"
  /\ total_size' = total_size + 1
  /\ Move(t, "count", IF total_size' > Limit THEN "close" ELSE "write")
  /\ UNCHANGED <<_mutex, current, opened, bad, old, second, hurry, written>>

Close(t) ==
  /\ Move(t, "close", "rename")
  /\ opened' = FALSE
  /\ UNCHANGED <<_mutex, total_size, current, bad, old, second, hurry, written>>

(* A deviation: the name has no time in it.                                 *)
PutAway_one_name(t) ==
  /\ Move(t, "rename", "open")
  /\ old' = {[name |-> 0, lines |-> current]}
  /\ current' = {} /\ total_size' = 0
  /\ UNCHANGED <<_mutex, opened, bad, second, hurry, written>>

(* rename, which replaces a file that has the name already, and fails where   *)
(* none could be opened last time: of lines there are none then, nor are      *)
(* there in a file that could not be written to.                            *)
PutAway(t) ==
  /\ Move(t, "rename", "open")
  /\ \/ old' = {o \in old : o.name # second} \cup {[name |-> second, lines |-> current]}
     \/ current = {} /\ old' = old
  /\ current' = {} /\ total_size' = 0
  /\ UNCHANGED <<_mutex, opened, bad, second, hurry, written>>

(* Opening takes a descriptor, which may be gone, and clears the stream.      *)
Open(t, possible) ==
  /\ Move(t, "open", "write")
  /\ opened' = possible
  /\ bad' = (bad /\ ~possible)
  /\ UNCHANGED <<_mutex, total_size, current, old, second, hurry, written>>

(* A line that finds no file is refused with -1.  A write that fails, on a     *)
(* full disk, loses its line all the same, and so does every line after it on  *)
(* a stream that is bad; formater returns 0.                                *)
Write(t) ==
  /\ Move(t, "write", "out")
  /\ \/ /\ opened /\ ~bad /\ UNCHANGED bad
        /\ written' = written + 1 /\ current' = current \cup {written'}
     \/ opened /\ bad' = TRUE /\ UNCHANGED <<current, written>>
     \/ ~opened /\ UNCHANGED <<bad, current, written>>
  /\ _mutex' = Nobody
  /\ UNCHANGED <<total_size, opened, old, second, hurry>>

(* A new process appends to the file it finds, and counts from 0.            *)
Reopened ==
  /\ _mutex' = Nobody /\ total_size' = 0 /\ opened' = TRUE /\ bad' = FALSE
  /\ at' = [t \in Threads |-> "out"]
  /\ UNCHANGED <<current, old, second, hurry, written>>
-------------------------------------------------------------------------------
(* Every line that reached the file is in it or in one that was put away:     *)
(* whoever rotates, and however threads and restarts fall between its steps,  *)
(* no alert is overwritten.  (A line whose write failed, or that a process  *)
(* died with, never reached it.)                                           *)
NoLineLost == 1..written \subseteq current \cup UNION {o.lines : o \in old}
===============================================================================
