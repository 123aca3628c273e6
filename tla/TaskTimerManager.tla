--------------------------- MODULE TaskTimerManager ---------------------------
(***************************************************************************)
(* The timer manager of the daemon (src/TaskTimerManager.hpp): a multimap   *)
(* from expiration times to timers, shared by the thread that analyses      *)
(* files (add, cancel) and by the timer thread (execute), under            *)
(* callbacks_mutex.  The module has no specification of its own: the       *)
(* component that uses it (FileAnalysis) extends it and takes its operators *)
(* as the timer part of its actions.                                       *)
(*                                                                         *)
(* add and cancel take and release the mutex without calling anything      *)
(* else, so each is one step; execute keeps the mutex over a whole sweep    *)
(* and calls back into the analysis queue, so a sweep is several steps.    *)
(***************************************************************************)
EXTENDS Integers

CONSTANT Files      \* what a timer carries as user_data: the name of a file

VARIABLES
  callbacks,   \* the multimap; task ids tell timers of equal expiration apart
  sweep,       \* the range [begin, it_end) execute() is working on
  due          \* the part of the range whose callback has not been called

timers == <<callbacks, sweep, due>>

Timer == [expiration : Int, task_id : Nat, name : Files]

TimersOK ==
  /\ callbacks \subseteq Timer
  /\ sweep \subseteq callbacks
  /\ due \subseteq sweep

TimersInit ==
  /\ callbacks = {}
  /\ sweep = {}
  /\ due = {}

(* The process dies.                                                       *)
TimersLost ==
  /\ callbacks' = {}
  /\ sweep' = {}
  /\ due' = {}

(* A deviation: no mutex.                                                  *)
MutexFree_always == TRUE

(* callbacks_mutex is held, across steps, by a sweep in progress only.     *)
MutexFree == sweep = {}

(* Timers that will still call back: those registered, less the ones the   *)
(* sweep in progress has called and not yet erased.                        *)
Armed == callbacks \ (sweep \ due)

add(timer) ==
  /\ MutexFree
  /\ callbacks' = callbacks \cup {timer}
  /\ UNCHANGED <<sweep, due>>

(* The timer with this expiration and this id, if it is still registered;  *)
(* a timer that has fired is not found and nothing happens.                *)
Registered(timer) ==
  {t \in callbacks : /\ t.expiration = timer.expiration
                     /\ t.task_id = timer.task_id}

cancel(timer) ==
  /\ MutexFree
  /\ \/ /\ Registered(timer) = {}
        /\ UNCHANGED callbacks
     \/ \E t \in Registered(timer) : callbacks' = callbacks \ {t}
  /\ UNCHANGED <<sweep, due>>

(* execute(): lock, read the clock, find the end of the expired range.  A  *)
(* sweep that finds nothing changes nothing and is left out.               *)
BeginSweep(now) ==
  /\ MutexFree
  /\ sweep' = {t \in callbacks : t.expiration <= now}
  /\ sweep' # {}
  /\ due' = sweep'
  /\ UNCHANGED callbacks

(* The multimap is walked by expiration, and in order of insertion (the    *)
(* order of the task ids) where expirations are equal.                     *)
NextDue(timer) ==
  /\ timer \in due
  /\ \A t \in due : \/ timer.expiration < t.expiration
                    \/ /\ timer.expiration = t.expiration
                       /\ timer.task_id <= t.task_id

Called(timer) ==
  /\ NextDue(timer)
  /\ due' = due \ {timer}
  /\ UNCHANGED <<callbacks, sweep>>

(* erase(begin, it_end), unlock, sleep.                                    *)
EndSweep ==
  /\ sweep # {}
  /\ due = {}
  /\ callbacks' = callbacks \ sweep
  /\ sweep' = {}
  /\ UNCHANGED due
===============================================================================
