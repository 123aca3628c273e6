-------------------------------- MODULE Daemon --------------------------------
(***************************************************************************)
(* The life of the daemon as its operator sees it: `zzhelper --start' and   *)
(* `zzhelper --stop', the pid file and the command FIFO they share          *)
(* (src/monitor.cpp, and of src/file_watcher.cpp the constructor, stop()   *)
(* and loop()).  A step is one system call with what follows it in the      *)
(* program, so any two processes interleave between their calls.           *)
(*                                                                         *)
(* --start returns to its caller from daemon(0,0), long before the pid file *)
(* is written; the process goes on in the background.  The model lets the   *)
(* child keep the pid of its parent.                                       *)
(*                                                                         *)
(* The calls on the two files may fail, and the program goes on: a daemon   *)
(* may be in its loop without a pid file, or without a FIFO.  The variable  *)
(* failed is a history of that, for the properties alone.                   *)
(***************************************************************************)
EXTENDS Integers, FiniteSets

CONSTANTS
  Pids,
  Missing, Empty,  \* the pid file is not there; it has no text yet
  NoPid, NoFifo,
  Operator,        \* "careful" or "hasty", see Command
  ConfMayFail,     \* may the database or load_conf fail?
  MaxFailures,     \* bound of the environment: calls on the two files that fail
  MaxCommands      \* bound of the environment

ASSUME PidsAssumption == {Missing, Empty, NoPid} \cap Pids = {}
ASSUME DaemonBounds ==
  /\ Operator \in {"careful", "hasty"}
  /\ ConfMayFail \in BOOLEAN
  /\ {MaxFailures, MaxCommands} \subseteq Nat
  /\ NoFifo \notin Nat

VARIABLES
  pid_file,
  cmd_file,     \* the FIFO the path of the command file names now
  fifos,        \* how many were made; a FIFO is a number up to it
  ready,        \* the FIFOs with a byte to read
  pc,           \* of each process; "none" if there is no such process
  pid,          \* the local variable pid of each process
  command_fd,   \* the FIFO each process has open
  signalled,    \* processes with a SIGTERM on its way
  commands,     \* how many were given
  failed        \* how many calls on each file have failed

vars == <<pid_file, cmd_file, fifos, ready, pc, pid, command_fd, signalled, commands, failed>>

Starting == {"start_get_pid", "start_alive", "write_get_pid", "write_alive",
             "create", "write", "unlink", "mkfifo", "load_conf", "open"}
Serving  == {"poll", "remove_pid", "return"}
Stopping == {"stop_get_pid", "stop_alive", "stop_open", "stop_write", "stop_close",
             "get_pid", "kill"}
Writing  == {"stop_write", "stop_close"}

Files == {"pid_file", "command_file"}

TypeOK ==
  /\ pid_file \in {Missing, Empty} \cup Pids
  /\ cmd_file \in {NoFifo} \cup 1..fifos
  /\ fifos \in Nat
  /\ ready \subseteq 1..fifos
  /\ pc \in [Pids -> {"none"} \cup Starting \cup Serving \cup Stopping]
  /\ pid \in [Pids -> {NoPid} \cup Pids]
  /\ command_fd \in [Pids -> {NoFifo} \cup 1..fifos]
  /\ signalled \subseteq Pids
  /\ commands \in Nat
  /\ failed \in [Files -> Nat]
  /\ \A p \in Pids : pc[p] \in Writing => command_fd[p] # NoFifo

Init ==
  /\ pid_file = Missing
  /\ cmd_file = NoFifo
  /\ fifos = 0
  /\ ready = {}
  /\ pc = [p \in Pids |-> "none"]
  /\ pid = [p \in Pids |-> NoPid]
  /\ command_fd = [p \in Pids |-> NoFifo]
  /\ signalled = {}
  /\ commands = 0
  /\ failed = [file \in Files |-> 0]
-------------------------------------------------------------------------------
Alive(p) == pc[p] # "none"

(* The processes somebody waits for at a terminal.                          *)
Foreground == {p \in Pids : pc[p] \in {"start_get_pid", "start_alive"} \cup Stopping}

(* A process with a signal on its way does nothing more.                    *)
At(p, label) == pc[p] = label /\ p \notin signalled

Goto(p, label) == pc' = [pc EXCEPT ![p] = label]

(* get_pid(): the pid, or -1 if the file is not there or has no text.       *)
ReadPid == IF pid_file \in Pids THEN pid_file ELSE NoPid

(* kill(pid, 0) and the name of the process: every process here is a zzhelper. *)
Running(p) == pid[p] # NoPid /\ Alive(pid[p])

(* The descriptors of a process close when it ends; a FIFO nobody has open   *)
(* loses its byte.                                                         *)
StillOpen(p) == {command_fd[q] : q \in Pids \ {p}}

Forget(p) == pid' = [pid EXCEPT ![p] = NoPid]

Exit(p) ==
  /\ pc' = [pc EXCEPT ![p] = "none"]
  /\ Forget(p)
  /\ command_fd' = [command_fd EXCEPT ![p] = NoFifo]
  /\ ready' = ready \cap StillOpen(p)
  /\ signalled' = signalled \ {p}

unchangedButPc ==
  <<pid_file, cmd_file, fifos, ready, pid, command_fd, signalled, commands, failed>>

(* A call on one of the files returns an error (no permission, no memory, no *)
(* descriptor or no space left), or none has.                               *)
Works(file) == failed[file] = 0

Fails(file) ==
  /\ failed["pid_file"] + failed["command_file"] < MaxFailures
  /\ failed' = [failed EXCEPT ![file] = @ + 1]
-------------------------------------------------------------------------------
(* A command is given.  A careful operator starts only when no other start   *)
(* is under way, in the background included, and may stop at any time; a     *)
(* hasty one gives each command as soon as the last has returned.  The pid  *)
(* of a new process is none that a process or the pid file still names.      *)
Command ==
  /\ commands < MaxCommands
  /\ Operator = "hasty" => Foreground = {}
  /\ \E p \in Pids \ ({pid_file} \cup {pid[q] : q \in Pids}),
       first \in {"start_get_pid", "stop_get_pid"} :
       /\ pc[p] = "none"
       /\ first = "start_get_pid" /\ Operator = "careful"
            => \A q \in Pids : pc[q] \notin Starting
       /\ Goto(p, first)
  /\ commands' = commands + 1
  /\ UNCHANGED <<pid_file, cmd_file, fifos, ready, pid, command_fd, signalled, failed>>

(* is_running(), called by --start, write_pid_file and --stop: get_pid ...   *)
(* Without it, or without the name of the process in /proc, nothing runs.    *)
NextAlive == [start_get_pid |-> "start_alive", write_get_pid |-> "write_alive",
              stop_get_pid |-> "stop_alive"]

IsRunningGetPid(p) ==
  /\ \E label \in DOMAIN NextAlive : At(p, label) /\ Goto(p, NextAlive[label])
  /\ \/ pid' = [pid EXCEPT ![p] = ReadPid] /\ UNCHANGED failed
     \/ pid' = [pid EXCEPT ![p] = NoPid] /\ Fails("pid_file")
  /\ UNCHANGED <<pid_file, cmd_file, fifos, ready, command_fd, signalled, commands>>

(* A deviation: --start does not look for a running daemon.                 *)
StartAlive_always(p) ==
  /\ At(p, "start_alive")
  /\ Goto(p, "write_get_pid")
  /\ Forget(p)
  /\ UNCHANGED <<pid_file, cmd_file, fifos, ready, command_fd, signalled, commands, failed>>

(* ... and forget it, and, in --start, give up or go on in the background.   *)
StartAlive(p) ==
  /\ At(p, "start_alive")
  /\ \/ /\ Running(p)
        /\ Exit(p)
     \/ /\ ~Running(p)
        /\ Goto(p, "write_get_pid")
        /\ Forget(p)
        /\ UNCHANGED <<ready, command_fd, signalled>>
  /\ UNCHANGED <<pid_file, cmd_file, fifos, commands, failed>>

(* ... in write_pid_file(): write nothing and return an error, which main()  *)
(* does not look at.                                                       *)
WriteAlive(p) ==
  /\ At(p, "write_alive")
  /\ Goto(p, IF Running(p) THEN "unlink" ELSE "create")
  /\ Forget(p)
  /\ UNCHANGED <<pid_file, cmd_file, fifos, ready, command_fd, signalled, commands, failed>>

(* A deviation: a file a former daemon left is not written to.              *)
CreatePidFile_exclusive(p) ==
  /\ At(p, "create")
  /\ pid_file' = IF pid_file = Missing THEN Empty ELSE pid_file
  /\ Goto(p, IF pid_file = Missing THEN "write" ELSE "unlink")
  /\ UNCHANGED <<cmd_file, fifos, ready, pid, command_fd, signalled, commands, failed>>

(* open() with O_CREAT, without O_TRUNC: what is in the file stays until     *)
(* write().  Without the file the daemon goes on.                           *)
CreatePidFile(p) ==
  /\ At(p, "create")
  /\ \/ /\ pid_file' = IF pid_file = Missing THEN Empty ELSE pid_file
        /\ Goto(p, "write")
        /\ UNCHANGED failed
     \/ /\ Fails("pid_file")
        /\ Goto(p, "unlink")
        /\ UNCHANGED pid_file
  /\ UNCHANGED <<cmd_file, fifos, ready, pid, command_fd, signalled, commands>>

WritePidFile(p) ==
  /\ At(p, "write")
  /\ \/ pid_file' = p /\ UNCHANGED failed
     \/ Fails("pid_file") /\ UNCHANGED pid_file
  /\ Goto(p, "unlink")
  /\ UNCHANGED <<cmd_file, fifos, ready, pid, command_fd, signalled, commands>>

(* The database does not open, before the constructor of File_watcher does   *)
(* anything, or load_conf() fails, the walk of the directories included:     *)
(* main() returns and leaves the pid file.                                  *)
GiveUp(p) ==
  /\ ConfMayFail
  /\ At(p, "unlink") \/ At(p, "load_conf")
  /\ Exit(p)
  /\ UNCHANGED <<pid_file, cmd_file, fifos, commands, failed>>

(* A deviation: the FIFO of a former daemon is used again.                  *)
UnlinkFifo_keeps(p) ==
  /\ At(p, "unlink")
  /\ Goto(p, "mkfifo")
  /\ UNCHANGED unchangedButPc

(* The constructor of File_watcher: the path of the command file is freed,   *)
(* and a new FIFO made there unless another process was faster.             *)
UnlinkFifo(p) ==
  /\ At(p, "unlink")
  /\ \/ cmd_file' = NoFifo /\ UNCHANGED failed
     \/ Fails("command_file") /\ UNCHANGED cmd_file
  /\ Goto(p, "mkfifo")
  /\ UNCHANGED <<pid_file, fifos, ready, pid, command_fd, signalled, commands>>

MakeFifo(p) ==
  /\ At(p, "mkfifo")
  /\ \/ /\ fifos' = IF cmd_file = NoFifo THEN fifos + 1 ELSE fifos
        /\ cmd_file' = IF cmd_file = NoFifo THEN fifos + 1 ELSE cmd_file
        /\ UNCHANGED failed
     \/ Fails("command_file") /\ UNCHANGED <<cmd_file, fifos>>
  /\ Goto(p, "load_conf")
  /\ UNCHANGED <<pid_file, ready, pid, command_fd, signalled, commands>>

LoadConf(p) ==
  /\ At(p, "load_conf")
  /\ Goto(p, "open")
  /\ UNCHANGED unchangedButPc

(* loop() opens whatever FIFO the path names now.  Without one, the entry    *)
(* poll() gets for it is not initialised: it never reports anything, or,     *)
(* when it happens to name a readable descriptor, ends the loop at once.     *)
OpenFifo(p) ==
  /\ At(p, "open")
  /\ \/ /\ cmd_file # NoFifo
        /\ command_fd' = [command_fd EXCEPT ![p] = cmd_file]
        /\ Goto(p, "poll")
        /\ UNCHANGED failed
     \/ /\ \/ cmd_file = NoFifo /\ UNCHANGED failed
           \/ Fails("command_file")
        /\ Goto(p, "poll") \/ Goto(p, "remove_pid")
        /\ UNCHANGED command_fd
  /\ UNCHANGED <<pid_file, cmd_file, fifos, ready, pid, signalled, commands>>

(* A byte in the FIFO ends the loop; it is not read.                        *)
Poll(p) ==
  /\ At(p, "poll")
  /\ command_fd[p] \in ready
  /\ Goto(p, "remove_pid")
  /\ UNCHANGED unchangedButPc

(* remove_pid_file(): what another process writes to the file it has open    *)
(* goes to a file without a name.                                           *)
RemovePid(p) ==
  /\ At(p, "remove_pid")
  /\ \/ /\ pid_file' = Missing
        /\ pc' = [q \in Pids |-> IF q = p THEN "return"
                               ELSE IF pc[q] = "write" THEN "unlink" ELSE pc[q]]
        /\ UNCHANGED failed
     \/ /\ Fails("pid_file")
        /\ Goto(p, "return")
        /\ UNCHANGED pid_file
  /\ UNCHANGED <<cmd_file, fifos, ready, pid, command_fd, signalled, commands>>

Return(p) ==
  /\ At(p, "return")
  /\ Exit(p)
  /\ UNCHANGED <<pid_file, cmd_file, fifos, commands, failed>>
-------------------------------------------------------------------------------
(* --stop                                                                  *)

StopAlive(p) ==
  /\ At(p, "stop_alive")
  /\ \/ /\ Running(p)
        /\ Goto(p, "stop_open")
        /\ Forget(p)
        /\ UNCHANGED <<ready, command_fd, signalled>>
     \/ /\ ~Running(p)
        /\ Exit(p)
  /\ UNCHANGED <<pid_file, cmd_file, fifos, commands, failed>>

(* File_watcher::stop opens the FIFO the path names now, for reading too ... *)
StopOpen(p) ==
  /\ At(p, "stop_open")
  /\ \/ /\ cmd_file # NoFifo
        /\ command_fd' = [command_fd EXCEPT ![p] = cmd_file]
        /\ Goto(p, "stop_write")
        /\ UNCHANGED failed
     \/ /\ \/ cmd_file = NoFifo /\ UNCHANGED failed
           \/ Fails("command_file")
        /\ Goto(p, "get_pid")
        /\ UNCHANGED command_fd
  /\ UNCHANGED <<pid_file, cmd_file, fifos, ready, pid, signalled, commands>>

(* A deviation: the byte is written to what the path names by then.          *)
StopWrite_reopens(p) ==
  /\ At(p, "stop_write")
  /\ ready' = ready \cup {cmd_file}
  /\ Goto(p, "stop_close")
  /\ UNCHANGED <<pid_file, cmd_file, fifos, pid, command_fd, signalled, commands, failed>>

(* ... writes a byte ...                                                    *)
StopWrite(p) ==
  /\ At(p, "stop_write")
  /\ ready' = ready \cup {command_fd[p]}
  /\ Goto(p, "stop_close")
  /\ UNCHANGED <<pid_file, cmd_file, fifos, pid, command_fd, signalled, commands, failed>>

(* ... and closes it: the byte stays if another process has the FIFO open.   *)
StopClose(p) ==
  /\ At(p, "stop_close")
  /\ command_fd' = [command_fd EXCEPT ![p] = NoFifo]
  /\ ready' = ready \cap StillOpen(p)
  /\ Goto(p, "get_pid")
  /\ UNCHANGED <<pid_file, cmd_file, fifos, pid, signalled, commands, failed>>

(* The pid is read once more, and is that of another daemon by then if one   *)
(* has started; without a pid the command fails.                            *)
StopGetPid(p) ==
  /\ At(p, "get_pid")
  /\ \/ /\ ReadPid # NoPid
        /\ pid' = [pid EXCEPT ![p] = ReadPid]
        /\ Goto(p, "kill")
        /\ UNCHANGED <<ready, command_fd, signalled, failed>>
     \/ /\ \/ ReadPid = NoPid /\ UNCHANGED failed
           \/ Fails("pid_file")
        /\ Exit(p)
  /\ UNCHANGED <<pid_file, cmd_file, fifos, commands>>

(* A deviation: --stop trusts the FIFO alone.                               *)
Kill_not(p) ==
  /\ At(p, "kill")
  /\ Exit(p)
  /\ UNCHANGED <<pid_file, cmd_file, fifos, commands, failed>>

(* SIGTERM; the signal of a process that is gone goes nowhere.              *)
Kill(p) ==
  /\ At(p, "kill")
  /\ pc' = [pc EXCEPT ![p] = "none"]
  /\ pid' = [pid EXCEPT ![p] = NoPid]
  /\ signalled' = signalled \cup {q \in Pids : q = pid[p] /\ Alive(q)}
  /\ UNCHANGED <<pid_file, cmd_file, fifos, ready, command_fd, commands, failed>>

(* The signal arrives.  Nothing catches it: the pid file stays.             *)
Die(p) ==
  /\ p \in signalled
  /\ Exit(p)
  /\ UNCHANGED <<pid_file, cmd_file, fifos, commands, failed>>

Start(p) ==
  \/ StartAlive(p) \/ WriteAlive(p) \/ CreatePidFile(p) \/ WritePidFile(p)
  \/ GiveUp(p) \/ UnlinkFifo(p) \/ MakeFifo(p) \/ LoadConf(p) \/ OpenFifo(p)
  \/ Poll(p) \/ RemovePid(p) \/ Return(p)

Stop(p) ==
  \/ StopAlive(p) \/ StopOpen(p) \/ StopWrite(p) \/ StopClose(p) \/ StopGetPid(p)
  \/ Kill(p)

Run(p) == IsRunningGetPid(p) \/ Start(p) \/ Stop(p) \/ Die(p)

(* The operator rests and every daemon sleeps in poll().                     *)
Idle ==
  /\ signalled = {}
  /\ \A p \in Pids :
       pc[p] = "none" \/ (pc[p] = "poll" /\ command_fd[p] \notin ready)
  /\ UNCHANGED vars

Next == Command \/ Idle \/ \E p \in Pids : Run(p)

Spec == Init /\ [][Next]_vars

(* A process that can run does; commands are given or not.                  *)
FairSpec == Spec /\ \A p \in Pids : WF_vars(Run(p))
-------------------------------------------------------------------------------
(* Properties of a careful operator's daemon                               *)

(* While every call on the pid file works there is one daemon at most.       *)
(* main() asks is_running() twice, and a start after which another daemon is *)
(* still in its loop would have two of them alert of every change and write  *)
(* the same table.  After a failed call that may be: a daemon goes on without *)
(* a pid file (write_pid_file), and the next start does not see it.         *)
OneDaemon ==
  Works("pid_file") =>
    \A p, q \in {r \in Pids : pc[r] \in {"write", "unlink", "mkfifo", "load_conf", "open",
                                        "poll", "remove_pid"}} : p = q

(* A daemon in its loop is the one --stop finds, by the pid file while the   *)
(* calls on that file work, and by the FIFO while all do: no leftover of a   *)
(* daemon that was killed, and no stop that is under way, comes between.     *)
Reachable ==
  \A p \in Pids : pc[p] = "poll" =>
    /\ Works("pid_file") => pid_file = p
    /\ Works("pid_file") /\ Works("command_file") => command_fd[p] = cmd_file

(* A stop leaves nothing behind for a later daemon: what is to be read in the *)
(* FIFO a daemon is about to open is the byte of a stop that is still between *)
(* its open() and its close() there.  (Such a stop may have looked for the    *)
(* daemon before this one, and ends this one.)                              *)
NoStaleStop ==
  Works("pid_file") /\ Works("command_file") =>
    \A p \in Pids : pc[p] = "open" /\ cmd_file \in ready =>
      \E s \in Pids : pc[s] \in Writing /\ command_fd[s] = cmd_file

(* A stop that begins when the pid file names a process that is alive ends   *)
(* that process, in whatever part of its start it is, and whether or not the *)
(* FIFO works, unless a call on the pid file fails.                         *)
StopEnds ==
  \A q \in Pids :
    (Alive(q) /\ pid_file = q /\ \E p \in Pids : pc[p] = "stop_get_pid")
      ~> (~Alive(q) \/ ~Works("pid_file"))
-------------------------------------------------------------------------------
(* What the program says of itself                                         *)

(* A start that finds a server running when it is to write its pid file is   *)
(* "Bailing out..." (write_pid_file): it is not a daemon after that.         *)
BailsOut ==
  [][\A p \in Pids :
       pc[p] = "write_alive" /\ Running(p) => pc'[p] \in {"write_alive", "none"}]_vars

(* A stop that says "failed to stop" (main) leaves a daemon in its loop that  *)
(* is not about to end.                                                     *)
FailedMeansRunning ==
  [][\A p \in Pids :
       pc[p] = "get_pid" /\ p \notin signalled /\ pc'[p] = "none"
         => \E q \in Pids : pc[q] = "poll"]_vars
===============================================================================
