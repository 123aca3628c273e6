------------------------------ MODULE DaemonProofs ----------------------------
(***************************************************************************)
(* That a careful operator never has two daemons while the calls on the pid  *)
(* file work, and can always stop the one there is, for any number of        *)
(* processes, commands and failures.                                        *)
(***************************************************************************)
EXTENDS Daemon, TLAPS

Written   == {"unlink", "mkfifo", "load_conf", "open"}
Committed == {"write_get_pid", "write_alive", "create", "write"} \cup Written
Looping   == {"poll", "remove_pid"}

LEMMA TypeInit == Init => TypeOK
BY DEF Init, TypeOK, Writing

(* A call that fails shows, and is not forgotten.                           *)
LEMMA FailShows ==
  ASSUME TypeOK, NEW file \in Files, Fails(file)
  PROVE  /\ failed' \in [Files -> Nat]
         /\ ~Works(file)'
         /\ \A other \in Files \ {file} : Works(other)' <=> Works(other)
BY DEF TypeOK, Fails, Works

LEMMA CallsFail == [Next]_vars => (\E file \in Files : Fails(file)) \/ UNCHANGED failed
<1> SUFFICES ASSUME [Next]_vars PROVE (\E file \in Files : Fails(file)) \/ UNCHANGED failed
  OBVIOUS
<1>1. CASE Command \/ Idle \/ UNCHANGED vars
  BY <1>1 DEF Command, Idle, vars
<1>2. ASSUME NEW p \in Pids, Run(p)
      PROVE  (\E file \in Files : Fails(file)) \/ UNCHANGED failed
  BY <1>2 DEF Run, Start, Stop, IsRunningGetPid, StartAlive, WriteAlive, CreatePidFile,
              WritePidFile, UnlinkFifo, MakeFifo, GiveUp, LoadConf, OpenFifo, Poll, RemovePid,
              Return, StopAlive, StopOpen, StopWrite, StopClose, StopGetPid, Kill, Die,
              unchangedButPc, Files
<1> QED
  BY <1>1, <1>2 DEF Next

(* The end of a process keeps the types.                                    *)
LEMMA ExitType ==
  ASSUME TypeOK, NEW p \in Pids, Exit(p),
         UNCHANGED <<pid_file, cmd_file, fifos, commands, failed>>
  PROVE  TypeOK'
BY DEF TypeOK, Exit, Forget, Writing

(* A stop that is to write or close has opened.                              *)
LEMMA OpenedStep ==
  ASSUME TypeOK, [Next]_vars
  PROVE  \A q \in Pids : pc'[q] \in Writing => command_fd'[q] # NoFifo
<1> USE DEF TypeOK, Writing
<1>1. CASE Command \/ Idle \/ UNCHANGED vars
  BY <1>1 DEF Command, Goto, Idle, vars
<1>2. ASSUME NEW p \in Pids, Run(p), NEW q \in Pids \ {p}, pc'[q] \in Writing
      PROVE  command_fd'[q] # NoFifo
  <2>1. pc'[q] = pc[q] \/ pc'[q] = "unlink"
    BY <1>2 DEF Run, Start, Stop, Goto, IsRunningGetPid, StartAlive, WriteAlive, CreatePidFile,
                WritePidFile, UnlinkFifo, MakeFifo, GiveUp, LoadConf, OpenFifo, Poll, RemovePid,
                Return, StopAlive, StopOpen, StopWrite, StopClose, StopGetPid, Kill, Die, Exit
  <2>2. command_fd'[q] = command_fd[q]
    BY <1>2 DEF Run, Start, Stop, IsRunningGetPid, StartAlive, WriteAlive, CreatePidFile,
                WritePidFile, UnlinkFifo, MakeFifo, GiveUp, LoadConf, OpenFifo, Poll, RemovePid,
                Return, StopAlive, StopOpen, StopWrite, StopClose, StopGetPid, Kill, Die, Exit,
                unchangedButPc
  <2> QED
    BY <1>2, <2>1, <2>2
<1>3. ASSUME NEW p \in Pids, Run(p), pc'[p] \in Writing
      PROVE  command_fd'[p] # NoFifo
  <2>1. StopOpen(p) \/ StopWrite(p)
    BY <1>3
       DEF Run, Start, Stop, At, Goto, IsRunningGetPid, NextAlive, StartAlive, WriteAlive,
           CreatePidFile, WritePidFile, UnlinkFifo, MakeFifo, GiveUp, LoadConf, OpenFifo, Poll,
           RemovePid, Return, StopAlive, StopClose, StopGetPid, Kill, Die, Exit
  <2> QED
    BY <1>3, <2>1 DEF StopOpen, StopWrite, At, Goto
<1> QED
  BY <1>1, <1>2, <1>3 DEF Next

LEMMA TypeStep == TypeOK /\ [Next]_vars => TypeOK'
<1> SUFFICES ASSUME TypeOK, [Next]_vars PROVE TypeOK'
  OBVIOUS
<1>0. /\ failed' \in [Files -> Nat]
      /\ \A q \in Pids : pc'[q] \in Writing => command_fd'[q] # NoFifo
  BY CallsFail, FailShows, OpenedStep DEF TypeOK
<1>1. CASE Command
  BY <1>0, <1>1 DEF TypeOK, Command, Goto, Starting, Stopping
<1>2. CASE Idle \/ UNCHANGED vars
  BY <1>2 DEF TypeOK, Idle, vars
<1>3. ASSUME NEW p \in Pids, Run(p) PROVE TypeOK'
  <2> USE DEF At, Goto
  <2>1. CASE IsRunningGetPid(p)
    <3>1. pid' \in [Pids -> {NoPid} \cup Pids]
      BY <2>1 DEF TypeOK, IsRunningGetPid, ReadPid
    <3> QED
      BY <1>0, <2>1, <3>1 DEF TypeOK, IsRunningGetPid, NextAlive, Starting, Stopping
  <2>2. CASE StartAlive(p) \/ WriteAlive(p) \/ StopAlive(p)
    <3>1. CASE Exit(p)
      BY <2>2, <3>1, ExitType DEF StartAlive, WriteAlive, StopAlive
    <3>2. CASE ~Exit(p)
      <4>1. pc' \in [Pids -> {"none"} \cup Starting \cup Serving \cup Stopping]
        BY <2>2, <3>2 DEF TypeOK, StartAlive, WriteAlive, StopAlive, Starting, Stopping
      <4>2. pid' \in [Pids -> {NoPid} \cup Pids]
        BY <2>2, <3>2 DEF TypeOK, StartAlive, WriteAlive, StopAlive, Forget
      <4> QED
        BY <1>0, <2>2, <3>2, <4>1, <4>2 DEF TypeOK, StartAlive, WriteAlive, StopAlive
    <3> QED
      BY <3>1, <3>2
  <2>3. CASE CreatePidFile(p) \/ WritePidFile(p) \/ UnlinkFifo(p) \/ LoadConf(p) \/ Poll(p)
    <3>1. pc' \in [Pids -> {"none"} \cup Starting \cup Serving \cup Stopping]
      BY <2>3 DEF TypeOK, CreatePidFile, WritePidFile, UnlinkFifo, LoadConf, Poll, Starting, Serving
    <3>2. /\ pid_file' \in {Missing, Empty} \cup Pids
          /\ cmd_file' \in {NoFifo} \cup 1..fifos
          /\ UNCHANGED <<fifos, ready, pid, command_fd, signalled, commands>>
      BY <2>3 DEF TypeOK, CreatePidFile, WritePidFile, UnlinkFifo, LoadConf, Poll, unchangedButPc
    <3> QED
      BY <1>0, <3>1, <3>2 DEF TypeOK
  <2>4. CASE MakeFifo(p)
    <3>1. fifos' \in Nat /\ 1..fifos \subseteq 1..fifos'
      BY <2>4 DEF TypeOK, MakeFifo
    <3>2. cmd_file' \in {NoFifo} \cup 1..fifos' /\ ready' \subseteq 1..fifos'
      BY <2>4, <3>1 DEF TypeOK, MakeFifo
    <3>3. command_fd' \in [Pids -> {NoFifo} \cup 1..fifos']
      BY <2>4, <3>1 DEF TypeOK, MakeFifo
    <3> QED
      BY <1>0, <2>4, <3>1, <3>2, <3>3 DEF TypeOK, MakeFifo, Starting
  <2>5. CASE OpenFifo(p) \/ StopOpen(p)
    <3>1. pc' \in [Pids -> {"none"} \cup Starting \cup Serving \cup Stopping]
      BY <2>5 DEF TypeOK, OpenFifo, StopOpen, Serving, Stopping
    <3>2. command_fd' \in [Pids -> {NoFifo} \cup 1..fifos]
      BY <2>5 DEF TypeOK, OpenFifo, StopOpen
    <3> QED
      BY <1>0, <2>5, <3>1, <3>2 DEF TypeOK, OpenFifo, StopOpen
  <2>6. CASE RemovePid(p)
    <3>1. pc' \in [Pids -> {"none"} \cup Starting \cup Serving \cup Stopping]
      BY <2>6 DEF TypeOK, RemovePid, Serving, Starting
    <3> QED
      BY <1>0, <2>6, <3>1 DEF TypeOK, RemovePid
  <2>7. CASE GiveUp(p) \/ Return(p) \/ Die(p)
    BY <2>7, ExitType DEF GiveUp, Return, Die
  <2>8. CASE StopWrite(p)
    <3>1. command_fd[p] \in 1..fifos
      BY <2>8 DEF TypeOK, StopWrite, Writing
    <3> QED
      BY <1>0, <2>8, <3>1 DEF TypeOK, StopWrite, Stopping
  <2>9. CASE StopClose(p)
    BY <1>0, <2>9 DEF TypeOK, StopClose, Stopping
  <2>10. CASE StopGetPid(p)
    <3>1. ReadPid \in {NoPid} \cup Pids
      BY DEF ReadPid
    <3>2. pc' \in [Pids -> {"none"} \cup Starting \cup Serving \cup Stopping]
      BY <2>10 DEF TypeOK, StopGetPid, Exit, Stopping
    <3>3. CASE Exit(p)
      BY <1>0, <2>10, <3>2, <3>3 DEF TypeOK, StopGetPid, Exit, Forget
    <3>4. CASE ~Exit(p)
      BY <1>0, <2>10, <3>1, <3>2, <3>4 DEF TypeOK, StopGetPid
    <3> QED
      BY <3>3, <3>4
  <2>11. CASE Kill(p)
    BY <1>0, <2>11 DEF TypeOK, Kill, Forget
  <2> QED
    BY <1>3, <2>1, <2>2, <2>3, <2>4, <2>5, <2>6, <2>7, <2>8, <2>9, <2>10, <2>11
       DEF Run, Start, Stop
<1> QED
  BY <1>1, <1>2, <1>3 DEF Next

(* Every variable has the values its declaration says.                      *)
THEOREM DaemonTypeCorrect == Spec => []TypeOK
<1> QED
  BY TypeInit, TypeStep, PTL DEF Spec
-------------------------------------------------------------------------------
(* While the calls on the pid file work, one start is under way at a time,   *)
(* and once it has made up its mind no daemon is in its loop.               *)
OneStart == \A p, q \in Pids : pc[p] \in Starting /\ pc[q] \in Starting => p = q

NoneLooping == \A p, q \in Pids : pc[p] \in Committed => pc[q] \notin Looping

(* The process the pid file names, if it is alive, is the daemon.            *)
Named == \A p \in Pids : pc[p] \in Written \cup Looping => pid_file = p

OnlyNamed ==
  \A p \in Pids : pid_file = p /\ pc[p] # "none" => pc[p] \in Written \cup Looping

(* What a start has read of the pid file is still so when it decides.        *)
Seen == \A p, q \in Pids : pc[p] = "start_alive" /\ pc[q] \in Looping => pid[p] = q

Gone == \A p \in Pids : pc[p] = "write_alive" => ~Running(p)

DaemonInv == OneStart /\ NoneLooping /\ Named /\ OnlyNamed /\ Seen /\ Gone

LEMMA DaemonInvInit == Init => DaemonInv
BY DEF Init, DaemonInv, OneStart, NoneLooping, Named, OnlyNamed, Seen, Gone,
       Starting, Committed, Written, Looping

(* A process that ends, or a --stop that goes on, touches nothing of it.     *)
LEMMA OthersStay ==
  ASSUME TypeOK, DaemonInv, NEW p \in Pids,
         pc'[p] \notin Starting \cup Looping,
         pc'[p] = "none" \/ (pc[p] \in Stopping /\ pc'[p] \in Stopping),
         \A q \in Pids \ {p} : pc'[q] = pc[q] /\ pid'[q] = pid[q],
         UNCHANGED pid_file
  PROVE  DaemonInv'
<1> USE DEF DaemonInv
<1>1. \A q \in Pids : pc'[q] \in Starting \cup Looping => q # p
  OBVIOUS
<1>2. Committed \subseteq Starting /\ Written \subseteq Starting
  BY DEF Committed, Written, Starting
<1>3. \A q \in Pids : pc'[q] = "start_alive" \/ pc'[q] = "write_alive" \/ pc'[q] = "poll" => q # p
  BY <1>1 DEF Starting, Looping
<1>4. OneStart'
  BY <1>1 DEF OneStart, Starting
<1>5. NoneLooping'
  BY <1>1, <1>2 DEF NoneLooping, Looping, Committed, Written
<1>6. Named'
  BY <1>1, <1>2 DEF Named, Written, Looping
<1>7. OnlyNamed'
  BY DEF OnlyNamed, Written, Looping, Stopping
<1>8. Seen'
  BY <1>1, <1>3 DEF Seen, Looping
<1>9. Gone'
  <2> SUFFICES ASSUME NEW q \in Pids, pc'[q] = "write_alive", Running(q)' PROVE FALSE
    BY DEF Gone
  <2>1. q # p /\ pc[q] = "write_alive" /\ pid'[q] = pid[q]
    BY <1>3
  <2>2. pid[q] \in Pids /\ pc'[pid[q]] # "none"
    BY <2>1 DEF Running, Alive, TypeOK
  <2>3. pc[pid[q]] # "none"
    BY <2>2 DEF Stopping
  <2> QED
    BY <2>1, <2>2, <2>3 DEF Gone, Running, Alive
<1> QED
  BY <1>4, <1>5, <1>6, <1>7, <1>8, <1>9

(* The end of a process, as the model has it.                               *)
LEMMA ExitStays ==
  ASSUME TypeOK, DaemonInv, NEW p \in Pids, Exit(p), UNCHANGED pid_file
  PROVE  DaemonInv'
<1>1. pc'[p] = "none"
  BY DEF Exit, Forget, TypeOK
<1>2. \A q \in Pids \ {p} : pc'[q] = pc[q] /\ pid'[q] = pid[q]
  BY DEF Exit, Forget, TypeOK
<1>3. pc'[p] \notin Starting \cup Looping
  BY <1>1 DEF Starting, Looping
<1> QED
  BY <1>1, <1>2, <1>3, OthersStay

LEMMA CommandStays ==
  ASSUME TypeOK, DaemonInv, Operator = "careful", Command
  PROVE  DaemonInv'
<1>1. PICK p \in Pids \ ({pid_file} \cup {pid[q] : q \in Pids}),
           first \in {"start_get_pid", "stop_get_pid"} :
        /\ pc[p] = "none"
        /\ first = "start_get_pid" => \A q \in Pids : pc[q] \notin Starting
        /\ pc' = [pc EXCEPT ![p] = first]
        /\ UNCHANGED <<pid_file, pid>>
  BY DEF Command, Goto
<1>2. pc'[p] = first /\ \A q \in Pids \ {p} : pc'[q] = pc[q]
  BY <1>1 DEF TypeOK
<1> USE DEF DaemonInv
<1>3. OneStart'
  BY <1>1, <1>2 DEF OneStart, Starting
<1>4. NoneLooping' /\ Named' /\ Seen'
  BY <1>1, <1>2 DEF NoneLooping, Named, Seen, Committed, Written, Looping
<1>5. OnlyNamed'
  BY <1>1, <1>2 DEF OnlyNamed
<1>6. Gone'
  <2> SUFFICES ASSUME NEW q \in Pids, pc'[q] = "write_alive", Running(q)' PROVE FALSE
    BY DEF Gone
  <2>1. pc[q] = "write_alive" /\ pid'[q] = pid[q] /\ pid[q] # p
    BY <1>1, <1>2
  <2>2. pid[q] \in Pids /\ pc'[pid[q]] # "none"
    BY <2>1 DEF Running, Alive, TypeOK
  <2> QED
    BY <1>2, <2>1, <2>2 DEF Gone, Running, Alive
<1> QED
  BY <1>3, <1>4, <1>5, <1>6

(* One lemma per step of a start: what the process, the only one starting,   *)
(* finds when no daemon is in its loop.                                    *)
LEMMA Alone ==
  ASSUME DaemonInv, NEW p \in Pids, pc[p] \in Committed
  PROVE  \A q \in Pids \ {p} : pc[q] \notin Starting \cup Looping
BY DEF DaemonInv, OneStart, NoneLooping, Starting, Committed, Written, Looping

LEMMA GetPidStays ==
  ASSUME TypeOK, DaemonInv, Works("pid_file")', NEW p \in Pids, IsRunningGetPid(p)
  PROVE  DaemonInv'
<1> USE DEF DaemonInv
<1>1. /\ pid'[p] = ReadPid
      /\ \A q \in Pids \ {p} : pc'[q] = pc[q] /\ pid'[q] = pid[q]
      /\ UNCHANGED pid_file
  BY FailShows DEF IsRunningGetPid, Goto, TypeOK, Files
<1>2. CASE pc[p] = "start_get_pid" /\ pc'[p] = "start_alive"
  <2>1. OneStart' /\ NoneLooping' /\ Named' /\ OnlyNamed'
    BY <1>1, <1>2 DEF OneStart, NoneLooping, Named, OnlyNamed, Starting, Committed,
                      Written, Looping
  <2>2. \A q \in Pids : pc[q] \in Looping => ReadPid = q
    BY DEF Named, ReadPid
  <2>3. Seen'
    BY <1>1, <1>2, <2>2 DEF Seen, Looping
  <2>4. \A q \in Pids : pc[q] # "none" <=> pc'[q] # "none"
    BY <1>1, <1>2
  <2>5. Gone'
    BY <1>1, <1>2, <2>4 DEF Gone, Running, Alive, TypeOK
  <2> QED
    BY <2>1, <2>3, <2>5
<1>3. CASE pc[p] = "write_get_pid" /\ pc'[p] = "write_alive"
  <2>1. \A q \in Pids \ {p} : pc[q] \notin Starting \cup Looping
    BY <1>3, Alone DEF Committed
  <2>2. OneStart' /\ NoneLooping' /\ Named' /\ OnlyNamed' /\ Seen'
    BY <1>1, <1>3, <2>1 DEF OneStart, NoneLooping, Named, OnlyNamed, Seen, Starting,
                            Committed, Written, Looping
  <2>3. ReadPid # NoPid => ReadPid \in Pids /\ pid_file = ReadPid
    BY DEF ReadPid
  <2>4. ReadPid # NoPid => pc[ReadPid] = "none"
    BY <1>3, <2>1, <2>3 DEF OnlyNamed, Written, Looping, Starting
  <2>5. ReadPid # NoPid => pc'[ReadPid] = "none"
    BY <1>1, <1>3, <2>3, <2>4
  <2>6. Gone'
    BY <1>1, <1>3, <2>1, <2>5 DEF Gone, Running, Alive, Starting
  <2> QED
    BY <2>2, <2>6
<1>4. CASE pc[p] = "stop_get_pid" /\ pc'[p] = "stop_alive"
  BY <1>1, <1>4, OthersStay DEF Stopping, Starting, Looping
<1> QED
  BY <1>2, <1>3, <1>4 DEF IsRunningGetPid, At, Goto, NextAlive, TypeOK

(* A start goes from one of its labels to the next and changes, of this, at  *)
(* most the pid file.                                                      *)
LEMMA StartStays ==
  ASSUME TypeOK, DaemonInv, Works("pid_file")', NEW p \in Pids, Start(p)
  PROVE  DaemonInv'
<1> USE DEF DaemonInv
<1>0. ~Fails("pid_file")
  BY FailShows DEF Files
<1>1. CASE StartAlive(p)
  <2>1. CASE Exit(p)
    BY <1>1, <2>1, ExitStays DEF StartAlive
  <2>2. CASE ~Exit(p)
    <3>1. /\ pc[p] = "start_alive" /\ pc'[p] = "write_get_pid" /\ ~Running(p)
          /\ \A q \in Pids \ {p} : pc'[q] = pc[q] /\ pid'[q] = pid[q]
          /\ UNCHANGED pid_file
      BY <1>1, <2>2 DEF StartAlive, At, Goto, Forget, TypeOK
    <3>2. \A q \in Pids : pc[q] \notin Looping
      <4> SUFFICES ASSUME NEW q \in Pids, pc[q] \in Looping PROVE FALSE
        OBVIOUS
      <4>1. pid[p] = q /\ q # NoPid
        BY <3>1, PidsAssumption DEF Seen
      <4> QED
        BY <3>1, <4>1 DEF Running, Alive, Looping
    <3>3. \A q \in Pids \ {p} : pc[q] \notin Starting
      BY <3>1 DEF OneStart, Starting
    <3>4. OneStart' /\ NoneLooping' /\ Named' /\ OnlyNamed' /\ Seen'
      BY <3>1, <3>2, <3>3 DEF OneStart, NoneLooping, Named, OnlyNamed, Seen, Starting,
                              Committed, Written, Looping
    <3>5. Gone'
      BY <3>1, <3>3 DEF Gone, Starting
    <3> QED
      BY <3>4, <3>5
  <2> QED
    BY <2>1, <2>2
<1>2. CASE GiveUp(p)
  BY <1>2, ExitStays DEF GiveUp
<1>3. CASE \/ WriteAlive(p) \/ CreatePidFile(p) \/ WritePidFile(p) \/ UnlinkFifo(p)
           \/ MakeFifo(p) \/ LoadConf(p)
  <2>1. /\ pc[p] \in Committed /\ pc'[p] \in Committed \ {"write_alive"}
        /\ \A q \in Pids \ {p} : pc'[q] = pc[q] /\ pid'[q] = pid[q]
    BY <1>0, <1>3
       DEF WriteAlive, CreatePidFile, WritePidFile, UnlinkFifo, MakeFifo, GiveUp, LoadConf, At,
           Goto, Committed, Written, unchangedButPc, Fails, Forget, TypeOK
  <2>2. \A q \in Pids \ {p} : pc[q] \notin Starting \cup Looping
    BY <2>1, Alone
  <2>3. OneStart' /\ NoneLooping' /\ Seen' /\ Gone'
    BY <2>1, <2>2 DEF OneStart, NoneLooping, Seen, Gone, Starting, Committed, Written,
                      Looping
  <2>4. pc'[p] \in Written => pid_file' = p
    BY <1>0, <1>3, <2>1 DEF WriteAlive, CreatePidFile, WritePidFile, UnlinkFifo, MakeFifo, LoadConf, At,
                Goto, Gone, Named, Written, unchangedButPc, TypeOK
  <2>5. \A q \in Pids : pid_file' = q => pid_file = q \/ (q = p /\ pc'[p] \in Written)
    BY <1>0, <1>3, PidsAssumption
       DEF WriteAlive, CreatePidFile, WritePidFile, UnlinkFifo, MakeFifo, LoadConf, At,
           Goto, Written, unchangedButPc, TypeOK
  <2>6. Named'
    BY <2>1, <2>2, <2>4 DEF Named, Committed, Written, Looping, Starting
  <2>7. pc[p] \in Written => pc'[p] \in Written
    BY <1>0, <1>3 DEF WriteAlive, CreatePidFile, WritePidFile, UnlinkFifo, MakeFifo, LoadConf, At, Goto,
                Written, unchangedButPc, TypeOK
  <2>8. OnlyNamed'
    BY <2>1, <2>2, <2>5, <2>7 DEF OnlyNamed, Committed, Written, Looping, Starting
  <2> QED
    BY <2>3, <2>6, <2>8
<1>4. CASE OpenFifo(p)
  <2>1. /\ pc[p] = "open" /\ pc'[p] \in Looping
        /\ \A q \in Pids \ {p} : pc'[q] = pc[q]
        /\ UNCHANGED <<pid_file, pid>>
    BY <1>4 DEF OpenFifo, At, Goto, Looping, TypeOK
  <2>2. \A q \in Pids \ {p} : pc[q] \notin Starting \cup Looping
    BY <2>1, Alone DEF Committed, Written
  <2> QED
    BY <2>1, <2>2 DEF OneStart, NoneLooping, Named, OnlyNamed, Seen, Gone, Starting,
                      Committed, Written, Looping
<1>5. CASE Poll(p)
  <2>1. /\ pc[p] = "poll" /\ pc'[p] = "remove_pid"
        /\ \A q \in Pids \ {p} : pc'[q] = pc[q]
        /\ UNCHANGED <<pid_file, pid>>
    BY <1>5 DEF Poll, At, Goto, unchangedButPc, Fails, Forget, TypeOK
  <2>2. \A q \in Pids : pc[q] \notin Committed
    BY <2>1 DEF NoneLooping, Looping
  <2> QED
    BY <2>1, <2>2 DEF OneStart, NoneLooping, Named, OnlyNamed, Seen, Gone, Starting,
                      Committed, Written, Looping
<1>6. CASE RemovePid(p)
  <2>1. \A q \in Pids : pc[q] \notin Committed
    BY <1>6 DEF RemovePid, At, NoneLooping, Looping
  <2>2. \A q \in Pids \ {p} : pc[q] \notin Looping
    BY <1>6 DEF RemovePid, At, Named, Looping
  <2>3. /\ pc'[p] = "return" /\ pid_file' = Missing
        /\ \A q \in Pids \ {p} : pc'[q] = pc[q]
        /\ UNCHANGED pid
    BY <1>0, <1>6, <2>1 DEF RemovePid, TypeOK, Committed
  <2> QED
    BY <2>1, <2>2, <2>3, PidsAssumption
       DEF OneStart, NoneLooping, Named, OnlyNamed, Seen, Gone, Starting, Committed,
           Written, Looping
<1>7. CASE Return(p)
  BY <1>7, ExitStays DEF Return
<1> QED
  BY <1>1, <1>2, <1>3, <1>4, <1>5, <1>6, <1>7 DEF Start

LEMMA StopStays ==
  ASSUME TypeOK, DaemonInv, NEW p \in Pids, Stop(p)
  PROVE  DaemonInv'
<1>1. CASE Exit(p)
  BY <1>1, ExitStays DEF Stop, StopAlive, StopOpen, StopWrite, StopClose, StopGetPid, Kill
<1>2. CASE ~Exit(p)
  <2>1. /\ pc'[p] = "none" \/ (pc[p] \in Stopping /\ pc'[p] \in Stopping)
        /\ \A q \in Pids \ {p} : pc'[q] = pc[q] /\ pid'[q] = pid[q]
        /\ UNCHANGED pid_file
    BY <1>2 DEF Stop, StopAlive, StopOpen, StopWrite, StopClose, StopGetPid, Kill, At, Goto, Forget,
                Stopping, TypeOK
  <2>2. pc'[p] \notin Starting \cup Looping
    BY <2>1 DEF Stopping, Starting, Looping
  <2> QED
    BY <2>1, <2>2, OthersStay
<1> QED
  BY <1>1, <1>2

LEMMA DaemonInvStep ==
  TypeOK /\ DaemonInv /\ Operator = "careful" /\ [Next]_vars /\ Works("pid_file")' => DaemonInv'
<1> SUFFICES ASSUME TypeOK, DaemonInv, Operator = "careful", [Next]_vars, Works("pid_file")'
             PROVE  DaemonInv'
  OBVIOUS
<1>1. CASE Idle \/ UNCHANGED vars
  BY <1>1 DEF Idle, vars, DaemonInv, OneStart, NoneLooping, Named, OnlyNamed, Seen, Gone,
              Running, Alive
<1>2. CASE Command
  BY <1>2, CommandStays
<1>3. ASSUME NEW p \in Pids, Run(p) PROVE DaemonInv'
  BY <1>3, GetPidStays, StartStays, StopStays, ExitStays DEF Run, Die
<1> QED
  BY <1>1, <1>2, <1>3 DEF Next

(* A file that works now has always worked.                                 *)
LEMMA WorkedBefore ==
  ASSUME TypeOK, [Next]_vars, NEW file \in Files, Works(file)'
  PROVE  Works(file)
<1>1. CASE \E other \in Files : Fails(other)
  BY <1>1, FailShows
<1>2. CASE UNCHANGED failed
  BY <1>2 DEF Works
<1> QED
  BY <1>1, <1>2, CallsFail

LEMMA DaemonAlways ==
  ASSUME Operator = "careful"
  PROVE  Spec => [](TypeOK /\ (Works("pid_file") => DaemonInv))
<1> DEFINE Inv == TypeOK /\ (Works("pid_file") => DaemonInv)
<1>1. Inv /\ [Next]_vars => Inv'
  BY TypeStep, DaemonInvStep, WorkedBefore DEF Files
<1>2. Init => Inv
  BY TypeInit, DaemonInvInit
<1> QED
  BY <1>1, <1>2, PTL DEF Spec

(* Of the processes past their check of the pid file there is one at most,   *)
(* for any number of starts and stops, daemons that were killed and          *)
(* configurations that do not load, until a call on the pid file fails: then *)
(* write_pid_file() lets the daemon go on, and the next start finds nothing. *)
THEOREM OneDaemonAtMost ==
  ASSUME Operator = "careful"
  PROVE  Spec => []OneDaemon
<1>1. DaemonInv => OneDaemon
  BY DEF DaemonInv, OneDaemon, OneStart, NoneLooping, Named, Starting, Committed, Written, Looping
<1>2. ~Works("pid_file") => OneDaemon
  BY DEF OneDaemon
<1> QED
  BY <1>1, <1>2, DaemonAlways, PTL
-------------------------------------------------------------------------------
(* A byte waits only in a FIFO somebody has open, only a daemon or a stop at  *)
(* work on it has one open, and the one a start has made is no daemon's yet.  *)
OnlyOpened == \A p \in Pids : pc[p] \notin Serving \cup Writing => command_fd[p] = NoFifo

BytesHeld == ready \subseteq {command_fd[q] : q \in Pids}

Unlinked == \A p \in Pids : pc[p] = "mkfifo" => cmd_file = NoFifo

FreshFifo ==
  \A p, q \in Pids : pc[p] \in {"load_conf", "open"} =>
    cmd_file # NoFifo /\ (command_fd[q] = cmd_file => pc[q] \in Writing)

SameFifo == \A p \in Pids : pc[p] = "poll" => command_fd[p] = cmd_file

FifoInv == OnlyOpened /\ BytesHeld /\ Unlinked /\ FreshFifo /\ SameFifo

LEMMA FifoInvInit == Init => FifoInv
BY DEF Init, FifoInv, OnlyOpened, BytesHeld, Unlinked, FreshFifo, SameFifo, Serving

LEMMA ExitKeepsFifo ==
  ASSUME TypeOK, FifoInv, NEW p \in Pids, Exit(p), UNCHANGED cmd_file
  PROVE  FifoInv'
<1> USE DEF FifoInv
<1>1. /\ pc'[p] = "none" /\ command_fd'[p] = NoFifo
      /\ \A q \in Pids \ {p} : pc'[q] = pc[q] /\ command_fd'[q] = command_fd[q]
  BY DEF Exit, TypeOK
<1>2. BytesHeld'
  BY <1>1 DEF Exit, BytesHeld, StillOpen
<1>3. OnlyOpened' /\ Unlinked' /\ FreshFifo' /\ SameFifo'
  BY <1>1 DEF OnlyOpened, Unlinked, FreshFifo, SameFifo
<1> QED
  BY <1>2, <1>3

(* A step that neither opens, makes nor removes a FIFO and writes no byte.    *)
LEMMA FifosUntouched ==
  ASSUME TypeOK, FifoInv, NEW p \in Pids,
         \A q \in Pids \ {p} : pc'[q] = pc[q] \/ (pc[q] = "write" /\ pc'[q] = "unlink"),
         pc[p] \in Serving => pc'[p] \in Serving,
         pc[p] \notin Writing,
         pc'[p] \notin {"poll", "mkfifo", "load_conf", "open"}
           \/ (pc[p] = "load_conf" /\ pc'[p] = "open"),
         UNCHANGED <<cmd_file, ready, command_fd>>
  PROVE  FifoInv'
<1> USE DEF FifoInv
<1>1. OnlyOpened'
  BY DEF OnlyOpened, Serving, Writing
<1>2. BytesHeld' /\ Unlinked' /\ SameFifo'
  BY DEF BytesHeld, Unlinked, SameFifo
<1>3. FreshFifo'
  BY DEF FreshFifo, Writing
<1> QED
  BY <1>1, <1>2, <1>3

LEMMA FifoInvStep ==
  ASSUME TypeOK, DaemonInv, FifoInv, [Next]_vars,
         Works("pid_file")', Works("command_file")'
  PROVE  FifoInv'
<1> USE DEF FifoInv
<1>0. ~Fails("pid_file") /\ ~Fails("command_file")
  BY FailShows DEF Files
<1>1. CASE Idle \/ UNCHANGED vars
  BY <1>1 DEF Idle, vars, OnlyOpened, BytesHeld, Unlinked, FreshFifo, SameFifo
<1>2. CASE Command
  <2>1. PICK p \in Pids, first \in {"start_get_pid", "stop_get_pid"} :
          /\ pc[p] = "none"
          /\ pc' = [pc EXCEPT ![p] = first]
          /\ UNCHANGED <<cmd_file, ready, command_fd>>
    BY <1>2 DEF Command, Goto
  <2> QED
    BY <2>1, FifosUntouched DEF TypeOK, Serving, Writing
<1>3. ASSUME NEW p \in Pids, Run(p) PROVE FifoInv'
  <2> USE DEF At, Goto, TypeOK
  <2>1. CASE Exit(p) /\ UNCHANGED cmd_file
    BY <2>1, ExitKeepsFifo
  <2>2. CASE IsRunningGetPid(p)
    BY <2>2, FifosUntouched DEF IsRunningGetPid, NextAlive, Serving, Writing
  <2>3. CASE (StartAlive(p) /\ ~Exit(p)) \/ WriteAlive(p) \/ CreatePidFile(p) \/ WritePidFile(p)
    BY <2>3, FifosUntouched DEF StartAlive, WriteAlive, CreatePidFile, WritePidFile,
                                Serving, Writing
  <2>4. CASE UnlinkFifo(p)
    <3>1. /\ pc[p] = "unlink" /\ pc'[p] = "mkfifo" /\ cmd_file' = NoFifo
          /\ \A q \in Pids \ {p} : pc'[q] = pc[q] /\ pc[q] \notin {"load_conf", "open", "poll"}
          /\ UNCHANGED <<ready, command_fd>>
      BY <1>0, <2>4, Alone DEF UnlinkFifo, Committed, Written, Starting, Looping
    <3> QED
      BY <3>1 DEF OnlyOpened, BytesHeld, Unlinked, FreshFifo, SameFifo, Serving, Writing
  <2>5. CASE MakeFifo(p)
    <3>1. /\ pc[p] = "mkfifo" /\ pc'[p] = "load_conf"
          /\ \A q \in Pids \ {p} : pc'[q] = pc[q] /\ pc[q] \notin {"mkfifo", "poll"}
          /\ UNCHANGED <<ready, command_fd>>
      BY <2>5, Alone DEF MakeFifo, Committed, Written, Starting, Looping
    <3>2. cmd_file' = fifos + 1 /\ fifos \in Nat
      BY <1>0, <2>5, <3>1 DEF MakeFifo, Unlinked
    <3>3. \A q \in Pids : command_fd[q] # fifos + 1
      BY <3>2, DaemonBounds
    <3>4. cmd_file' # NoFifo
      BY <3>2, DaemonBounds
    <3>5. OnlyOpened' /\ BytesHeld' /\ Unlinked' /\ SameFifo'
      BY <3>1 DEF OnlyOpened, BytesHeld, Unlinked, SameFifo, Serving, Writing
    <3>6. FreshFifo'
      BY <3>1, <3>2, <3>3, <3>4 DEF FreshFifo
    <3> QED
      BY <3>5, <3>6
  <2>6. CASE LoadConf(p)
    BY <2>6, FifosUntouched DEF LoadConf, unchangedButPc, Serving, Writing
  <2>7. CASE OpenFifo(p)
    <3>1. pc[p] = "open" /\ cmd_file # NoFifo /\ command_fd[p] = NoFifo
      BY <2>7 DEF OpenFifo, FreshFifo, OnlyOpened, Serving, Writing
    <3>2. /\ pc'[p] = "poll" /\ command_fd'[p] = cmd_file
          /\ \A q \in Pids \ {p} : /\ pc'[q] = pc[q] /\ command_fd'[q] = command_fd[q]
                                   /\ pc[q] \notin Starting
          /\ UNCHANGED <<cmd_file, ready>>
      BY <1>0, <2>7, <3>1, Alone DEF OpenFifo, Committed, Written
    <3>3. NoFifo \notin ready
      <4>1. ready \subseteq 1..fifos /\ fifos \in Nat
        OBVIOUS
      <4>2. \A i \in 1..fifos : i \in Nat
        BY <4>1
      <4> QED
        BY <4>1, <4>2, DaemonBounds
    <3>4. BytesHeld'
      BY <3>1, <3>2, <3>3 DEF BytesHeld
    <3>5. OnlyOpened' /\ Unlinked' /\ FreshFifo' /\ SameFifo'
      BY <3>2 DEF OnlyOpened, Unlinked, FreshFifo, SameFifo, Serving, Starting
    <3> QED
      BY <3>4, <3>5
  <2>8. CASE Poll(p) \/ RemovePid(p)
    BY <2>8, FifosUntouched DEF Poll, RemovePid, unchangedButPc, Serving, Writing
  <2>9. CASE (StopAlive(p) \/ StopGetPid(p)) /\ ~Exit(p)
    BY <2>9, FifosUntouched DEF StopAlive, StopGetPid, Serving, Writing
  <2>10. CASE StopOpen(p)
    <3>1. /\ pc[p] = "stop_open" /\ command_fd[p] = NoFifo
          /\ \A q \in Pids \ {p} : pc'[q] = pc[q] /\ command_fd'[q] = command_fd[q]
          /\ UNCHANGED <<cmd_file, ready>>
          /\ \/ pc'[p] = "stop_write"
             \/ pc'[p] = "get_pid" /\ command_fd'[p] = NoFifo
      BY <2>10 DEF StopOpen, OnlyOpened, Serving, Writing
    <3>2. NoFifo \notin ready
      <4>1. ready \subseteq 1..fifos /\ fifos \in Nat
        OBVIOUS
      <4>2. \A i \in 1..fifos : i \in Nat
        BY <4>1
      <4> QED
        BY <4>1, <4>2, DaemonBounds
    <3>3. BytesHeld'
      BY <3>1, <3>2 DEF BytesHeld
    <3>4. OnlyOpened' /\ Unlinked' /\ SameFifo'
      BY <3>1 DEF OnlyOpened, Unlinked, SameFifo, Serving, Writing
    <3>5. FreshFifo'
      BY <3>1 DEF FreshFifo, Writing
    <3> QED
      BY <3>3, <3>4, <3>5
  <2>11. CASE StopWrite(p)
    <3>1. /\ pc[p] = "stop_write" /\ pc'[p] = "stop_close"
          /\ \A q \in Pids \ {p} : pc'[q] = pc[q]
          /\ ready' = ready \cup {command_fd[p]}
          /\ UNCHANGED <<cmd_file, command_fd>>
      BY <2>11 DEF StopWrite
    <3>2. BytesHeld'
      BY <3>1 DEF BytesHeld
    <3>3. OnlyOpened' /\ Unlinked' /\ FreshFifo' /\ SameFifo'
      BY <3>1 DEF OnlyOpened, Unlinked, FreshFifo, SameFifo, Serving, Writing
    <3> QED
      BY <3>2, <3>3
  <2>12. CASE StopClose(p)
    <3>1. /\ pc[p] = "stop_close" /\ pc'[p] = "get_pid" /\ command_fd'[p] = NoFifo
          /\ \A q \in Pids \ {p} : pc'[q] = pc[q] /\ command_fd'[q] = command_fd[q]
          /\ ready' = ready \cap StillOpen(p)
          /\ UNCHANGED cmd_file
      BY <2>12 DEF StopClose
    <3>2. BytesHeld'
      BY <3>1 DEF BytesHeld, StillOpen
    <3>3. OnlyOpened' /\ Unlinked' /\ FreshFifo' /\ SameFifo'
      BY <3>1 DEF OnlyOpened, Unlinked, FreshFifo, SameFifo, Serving, Writing
    <3> QED
      BY <3>2, <3>3
  <2>13. CASE Kill(p)
    BY <2>13, FifosUntouched DEF Kill, Serving, Writing
  <2> QED
    BY <1>3, <2>1, <2>2, <2>3, <2>4, <2>5, <2>6, <2>7, <2>8, <2>9, <2>10, <2>11, <2>12, <2>13
       DEF Run, Start, Stop, StartAlive, GiveUp, Return, StopAlive, StopGetPid, Die
<1> QED
  BY <1>1, <1>2, <1>3 DEF Next

LEMMA FifoAlways ==
  ASSUME Operator = "careful"
  PROVE  Spec => [](Works("pid_file") /\ Works("command_file") => DaemonInv /\ FifoInv)
<1> DEFINE D == TypeOK /\ (Works("pid_file") => DaemonInv)
           F == Works("pid_file") /\ Works("command_file") => FifoInv
<1>1. D /\ F /\ [Next]_vars => F'
  BY FifoInvStep, WorkedBefore DEF Files
<1>2. Init => F
  BY FifoInvInit
<1>3. Spec => []D
  BY DaemonAlways
<1>4. D /\ F => (Works("pid_file") /\ Works("command_file") => DaemonInv /\ FifoInv)
  OBVIOUS
<1> QED
  BY <1>1, <1>2, <1>3, <1>4, PTL DEF Spec

(* While the calls on the pid file work, it names the daemon that is in its   *)
(* loop, and while all calls do, the command file is the FIFO it listens to.  *)
THEOREM DaemonIsReachable ==
  ASSUME Operator = "careful"
  PROVE  Spec => []Reachable
<1>1. /\ Works("pid_file") => DaemonInv
      /\ Works("pid_file") /\ Works("command_file") => DaemonInv /\ FifoInv
      => Reachable
  BY DEF DaemonInv, FifoInv, Reachable, Named, SameFifo, Looping
<1> QED
  BY <1>1, DaemonAlways, FifoAlways, PTL

(* The daemon a start brings up does not end on the byte of a stop that has   *)
(* returned: the constructor of File_watcher gives the path a FIFO no process *)
(* has open, and File_watcher::stop takes its byte with it when it closes a   *)
(* FIFO nobody else has opened.  What is to be read there is of a stop that   *)
(* opened it since, and has not closed it.                                   *)
THEOREM StopsAreFresh ==
  ASSUME Operator = "careful"
  PROVE  Spec => []NoStaleStop
<1>1. (Works("pid_file") /\ Works("command_file") => DaemonInv /\ FifoInv) => NoStaleStop
  BY DEF FifoInv, BytesHeld, FreshFifo, NoStaleStop, Writing
<1> QED
  BY <1>1, FifoAlways, PTL
-------------------------------------------------------------------------------
(* Why a stop ends the process it found: what StopEnds needs besides fairness. *)
(* A program goes through its labels in one direction, and waits in poll only. *)
Rank ==
  [start_get_pid |-> 13, start_alive |-> 12, write_get_pid |-> 11, write_alive |-> 10,
   create |-> 9, write |-> 8, unlink |-> 7, mkfifo |-> 6, load_conf |-> 5, open |-> 4,
   poll |-> 3, remove_pid |-> 2, return |-> 1,
   stop_get_pid |-> 7, stop_alive |-> 6, stop_open |-> 5, stop_write |-> 4, stop_close |-> 3,
   get_pid |-> 2, kill |-> 1,
   none |-> 0]

ProgramsEnd ==
  [][\A p \in Pids :
       /\ Run(p) => Rank[pc'[p]] < Rank[pc[p]]
       /\ Alive(p) => Rank[pc'[p]] <= Rank[pc[p]]]_vars

(* A process that nothing keeps from its end, and a stop that will see to it. *)
Ending(q) == q \in signalled \/ pc[q] \in {"remove_pid", "return"}

StopOn(p, q) ==
  \/ /\ pid_file = q
     /\ \/ pc[p] \in {"stop_get_pid", "stop_open", "stop_write", "stop_close", "get_pid"}
        \/ pc[p] = "stop_alive" /\ pid[p] = q
  \/ pc[p] = "kill" /\ pid[p] = q

StopHits ==
  [][/\ \A p, q \in Pids :
          StopOn(p, q) /\ Alive(q)
            => StopOn(p, q)' \/ Ending(q)' \/ ~Alive(q)' \/ ~Works("pid_file")'
     /\ \A q \in Pids : Ending(q) => Ending(q)' \/ ~Alive(q)']_vars

LiveSignals ==
  /\ \A q \in signalled : Alive(q)
  /\ \A p \in Pids : pc[p] \in Stopping => pid_file # p /\ pid[p] # p

LEMMA RunSteps ==
  ASSUME TypeOK, LiveSignals, NEW p \in Pids, Run(p)
  PROVE  /\ \A q \in Pids \ {p} :
              pid'[q] = pid[q] /\ (pc'[q] = pc[q] \/ (pc[q] = "write" /\ pc'[q] = "unlink"))
         /\ Rank[pc'[p]] < Rank[pc[p]]
         /\ \A q \in signalled \ {p} : q \in signalled'
         /\ p \in signalled => p \in signalled' \/ pc'[p] = "none"
<1> USE DEF TypeOK, At, Goto, Rank
<1>1. CASE Return(p)
  BY <1>1 DEF Return, Exit, Forget
<1>12. CASE Die(p)
  <2>1. p \in signalled /\ Exit(p)
    BY <1>12 DEF Die
  <2>2. pc[p] \in Starting \cup Serving \cup Stopping
    BY <2>1 DEF LiveSignals, Alive
  <2>3. Rank[pc[p]] > 0
    BY <2>2 DEF Starting, Serving, Stopping
  <2> QED BY <2>1, <2>3 DEF Exit, Forget
<1>2. CASE IsRunningGetPid(p)
  BY <1>2 DEF IsRunningGetPid, NextAlive
<1>3. CASE StartAlive(p)
  BY <1>3 DEF StartAlive, Exit, Forget
<1>4. CASE WriteAlive(p) \/ CreatePidFile(p) \/ WritePidFile(p) \/ UnlinkFifo(p) \/ MakeFifo(p)
  BY <1>4
     DEF WriteAlive, CreatePidFile, WritePidFile, UnlinkFifo, MakeFifo, unchangedButPc, Fails,
         Forget
<1>5. CASE LoadConf(p) \/ GiveUp(p)
  BY <1>5 DEF LoadConf, GiveUp, unchangedButPc, Exit, Forget
<1>6. CASE OpenFifo(p) \/ Poll(p)
  BY <1>6 DEF OpenFifo, Poll, unchangedButPc, Fails, Forget
<1>7. CASE RemovePid(p)
  BY <1>7 DEF RemovePid
<1>8. CASE StopAlive(p)
  BY <1>8 DEF StopAlive, Exit, Forget
<1>9. CASE StopOpen(p) \/ StopWrite(p) \/ StopClose(p)
  BY <1>9 DEF StopOpen, StopWrite, StopClose
<1>10. CASE StopGetPid(p)
  BY <1>10 DEF StopGetPid, Exit, Forget
<1>11. CASE Kill(p)
  BY <1>11 DEF Kill, Forget
<1> QED
  BY <1>1, <1>2, <1>3, <1>4, <1>5, <1>6, <1>7, <1>8, <1>9, <1>10, <1>11, <1>12 DEF Run, Start, Stop

LEMMA LiveSignalsKept == TypeOK /\ LiveSignals /\ [Next]_vars => LiveSignals'
<1> SUFFICES ASSUME TypeOK, LiveSignals, [Next]_vars PROVE LiveSignals'
  OBVIOUS
<1> USE DEF LiveSignals, Alive
<1>1. CASE Idle \/ UNCHANGED vars
  BY <1>1 DEF Idle, vars
<1>2. CASE Command
  <2>1. PICK p \in Pids \ ({pid_file} \cup {pid[q] : q \in Pids}),
             first \in {"start_get_pid", "stop_get_pid"} :
          pc[p] = "none" /\ pc' = [pc EXCEPT ![p] = first]
    BY <1>2 DEF Command, Goto
  <2>2. UNCHANGED <<pid_file, pid, signalled>>
    BY <1>2 DEF Command
  <2> QED BY <2>1, <2>2 DEF TypeOK
<1>3. ASSUME NEW p \in Pids, Run(p) PROVE LiveSignals'
  <2>1. \A q \in Pids \ {p} :
          /\ pid'[q] = pid[q] /\ (pc[q] # "none" => pc'[q] # "none")
          /\ pc'[q] \in Stopping => pc[q] \in Stopping
    BY <1>3, RunSteps DEF Stopping
  <2>2. signalled' \subseteq Pids
    BY TypeStep DEF TypeOK
  <2>3. \A q \in signalled' : pc'[q] # "none"
    <3>1. CASE Exit(p)
      BY <2>1, <2>2, <3>1 DEF Exit, Forget
    <3>2. CASE Kill(p)
      <4>1. signalled' = signalled \cup {q \in Pids : q = pid[p] /\ pc[q] # "none"}
        BY <3>2 DEF Kill
      <4>2. p \notin signalled /\ pid[p] # p
        BY <3>2 DEF Kill, At, Stopping
      <4> QED BY <2>1, <2>2, <4>1, <4>2
    <3>3. CASE ~Exit(p) /\ ~Kill(p)
      <4>1. p \notin signalled /\ signalled' = signalled
        BY <1>3, <3>3
           DEF Run, Start, Stop, At, IsRunningGetPid, StartAlive, WriteAlive, CreatePidFile,
               WritePidFile, UnlinkFifo, MakeFifo, GiveUp, LoadConf, OpenFifo, Poll, RemovePid, Return,
               StopAlive, StopOpen, StopWrite, StopClose, StopGetPid, Die, unchangedButPc, Fails, Forget
      <4> QED BY <2>1, <2>2, <4>1
    <3> QED BY <3>1, <3>2, <3>3
  <2>4. \A q \in Pids : pid_file' = q => pid_file = q \/ (q = p /\ pc[p] = "write")
    BY <1>3, PidsAssumption
       DEF Run, Start, Stop, At, IsRunningGetPid, StartAlive, WriteAlive, CreatePidFile,
           WritePidFile, UnlinkFifo, MakeFifo, GiveUp, LoadConf, OpenFifo, Poll, RemovePid, Return,
           StopAlive, StopOpen, StopWrite, StopClose, StopGetPid, Kill, Die, Exit, Forget,
           unchangedButPc, Fails
  <2>5. pc'[p] \in Stopping => pc[p] \in Stopping /\ pid'[p] \in {pid[p], ReadPid, NoPid}
    BY <1>3
       DEF Run, Start, Stop, At, Goto, IsRunningGetPid, NextAlive, StartAlive, WriteAlive,
           CreatePidFile, WritePidFile, UnlinkFifo, MakeFifo, GiveUp, LoadConf, OpenFifo, Poll,
           RemovePid, Return, StopAlive, StopOpen, StopWrite, StopClose, StopGetPid, Kill, Die,
           Exit, Forget, unchangedButPc, Fails, Stopping, TypeOK
  <2>6. \A q \in Pids : pc'[q] \in Stopping => pid_file' # q /\ pid'[q] # q
    <3>1. \A q \in Pids : pc'[q] \in Stopping => pc[q] \in Stopping
      BY <2>1, <2>5
    <3>2. \A q \in Pids : pc[q] \in Stopping => pid_file # q /\ pid[q] # q /\ ReadPid # q /\ NoPid # q
      BY PidsAssumption DEF ReadPid
    <3>3. "write" \notin Stopping
      BY DEF Stopping
    <3> QED BY <2>1, <2>4, <2>5, <3>1, <3>2, <3>3
  <2> QED BY <2>3, <2>6
<1> QED
  BY <1>1, <1>2, <1>3 DEF Next

LEMMA LiveSignalsAlways == Spec => [](TypeOK /\ LiveSignals)
<1>1. Init => LiveSignals
  BY DEF Init, LiveSignals, Stopping
<1>2. TypeOK /\ LiveSignals /\ [Next]_vars => (TypeOK /\ LiveSignals)'
  BY TypeStep, LiveSignalsKept
<1> QED
  BY <1>1, <1>2, TypeInit, PTL DEF Spec

(* No program goes back to a label it has left, and none is set back by what   *)
(* another does: each process takes at most as many steps as it has calls,     *)
(* whoever the operator is (monitor.cpp: main, write_pid_file, stop).         *)
THEOREM ProgramsGoForward == Spec => ProgramsEnd
<1>1. TypeOK /\ LiveSignals /\ [Next]_vars =>
        [\A p \in Pids : /\ Run(p) => Rank[pc'[p]] < Rank[pc[p]]
                         /\ Alive(p) => Rank[pc'[p]] <= Rank[pc[p]]]_vars
  <2> SUFFICES ASSUME TypeOK, LiveSignals, Next, NEW p \in Pids
               PROVE  /\ Run(p) => Rank[pc'[p]] < Rank[pc[p]]
                      /\ Alive(p) => Rank[pc'[p]] <= Rank[pc[p]]
    OBVIOUS
  <2>0. pc[p] \in {"none"} \cup Starting \cup Serving \cup Stopping /\ Rank[pc[p]] \in Nat
    BY DEF TypeOK, Rank, Starting, Serving, Stopping
  <2>1. Run(p) => Rank[pc'[p]] < Rank[pc[p]]
    BY RunSteps
  <2>2. ASSUME Alive(p) PROVE Rank[pc'[p]] <= Rank[pc[p]]
    <3>1. CASE Command
      <4>1. pc'[p] = pc[p]
        BY <2>2, <3>1 DEF Command, Goto, Alive, TypeOK
      <4> QED BY <2>0, <4>1
    <3>2. CASE Idle
      BY <2>0, <3>2 DEF Idle, vars
    <3>3. ASSUME NEW r \in Pids, Run(r) PROVE Rank[pc'[p]] <= Rank[pc[p]]
      <4>1. CASE r = p
        <5>1. pc'[p] \in {"none"} \cup Starting \cup Serving \cup Stopping
          BY TypeStep DEF TypeOK
        <5>2. Rank[pc'[p]] \in Nat
          BY <5>1 DEF Rank, Starting, Serving, Stopping
        <5> QED BY <2>0, <2>1, <3>3, <4>1, <5>2
      <4>2. CASE r # p
        <5>1. pc'[p] = pc[p] \/ (pc[p] = "write" /\ pc'[p] = "unlink")
          BY <3>3, <4>2, RunSteps
        <5> QED BY <2>0, <5>1 DEF Rank
      <4> QED BY <4>1, <4>2
    <3> QED BY <3>1, <3>2, <3>3 DEF Next
  <2> QED BY <2>1, <2>2
<1> QED
  BY <1>1, LiveSignalsAlways, PTL DEF Spec, ProgramsEnd

(* What a stop is to kill, and what has a signal on its way, is a daemon.      *)
Late == Written \cup Looping \cup {"return"}

Targets ==
  /\ \A p \in Pids : pc[p] = "kill" => pid[p] \in Pids /\ pc[pid[p]] \in Late \cup {"none"}
  /\ \A q \in signalled : pc[q] \in Late

HitInv == TypeOK /\ DaemonInv /\ LiveSignals /\ Targets

(* All of it, while the calls on the pid file work.                          *)
HitInvWorking == TypeOK /\ LiveSignals /\ (Works("pid_file") => HitInv)

LEMMA LateStays ==
  ASSUME TypeOK, NEW p \in Pids, Run(p), NEW q \in Pids, pc[q] \in Late
  PROVE  pc'[q] \in Late \cup {"none"}
<1> USE DEF Late, Written, Looping
<1>1. CASE q # p
  <2>1. pc'[q] = pc[q] \/ (pc[q] = "write" /\ pc'[q] = "unlink")
    BY <1>1
       DEF Run, Start, Stop, At, Goto, IsRunningGetPid, StartAlive, WriteAlive, CreatePidFile,
           WritePidFile, UnlinkFifo, MakeFifo, GiveUp, LoadConf, OpenFifo, Poll, RemovePid, Return,
           StopAlive, StopOpen, StopWrite, StopClose, StopGetPid, Kill, Die, Exit, Forget,
           unchangedButPc, Fails, TypeOK
  <2> QED BY <2>1
<1>2. CASE q = p
  BY <1>2
     DEF Run, Start, Stop, At, Goto, IsRunningGetPid, NextAlive, StartAlive, WriteAlive,
         CreatePidFile, WritePidFile, UnlinkFifo, MakeFifo, GiveUp, LoadConf, OpenFifo, Poll,
         RemovePid, Return, StopAlive, StopOpen, StopWrite, StopClose, StopGetPid, Kill, Die, Exit,
         Forget, unchangedButPc, Fails, TypeOK
<1> QED
  BY <1>1, <1>2

LEMMA TargetsKept ==
  ASSUME HitInv, Operator = "careful", [Next]_vars, Works("pid_file")'
  PROVE  Targets'
<1> USE DEF HitInv
<1>1. TypeOK' /\ LiveSignals' /\ DaemonInv'
  BY TypeStep, LiveSignalsKept, DaemonInvStep
<1>2. CASE Idle \/ UNCHANGED vars
  BY <1>2 DEF Idle, vars, Targets
<1>3. CASE Command
  <2>1. PICK p \in Pids \ ({pid_file} \cup {pid[q] : q \in Pids}),
             first \in {"start_get_pid", "stop_get_pid"} :
          pc[p] = "none" /\ pc' = [pc EXCEPT ![p] = first]
    BY <1>3 DEF Command, Goto
  <2>2. UNCHANGED <<pid, signalled>>
    BY <1>3 DEF Command
  <2>3. pc'[p] = first /\ \A q \in Pids \ {p} : pc'[q] = pc[q]
    BY <2>1 DEF TypeOK
  <2>4. p \notin signalled /\ \A q \in Pids : pid[q] # p
    BY <2>1 DEF LiveSignals, Alive
  <2>5. signalled \subseteq Pids
    BY DEF TypeOK
  <2> QED BY <2>2, <2>3, <2>4, <2>5 DEF Targets
<1>4. ASSUME NEW p \in Pids, Run(p) PROVE Targets'
  <2>1. \A q \in Pids : pc[q] \in Late \cup {"none"} => pc'[q] \in Late \cup {"none"}
    <3> SUFFICES ASSUME NEW q \in Pids, pc[q] = "none" PROVE pc'[q] \in Late \cup {"none"}
      BY <1>4, LateStays
    <3>1. CASE q # p
      BY <1>4, <3>1, RunSteps
    <3>2. CASE q = p
      <4>1. FALSE
        BY <1>4, <3>2
           DEF Run, Start, Stop, At, IsRunningGetPid, NextAlive, StartAlive, WriteAlive,
               CreatePidFile, WritePidFile, UnlinkFifo, MakeFifo, GiveUp, LoadConf, OpenFifo, Poll,
               RemovePid, Return, StopAlive, StopOpen, StopWrite, StopClose, StopGetPid, Kill, Die,
               LiveSignals, Alive
      <4> QED BY <4>1
    <3> QED BY <3>1, <3>2
  <2>2. \A q \in Pids \ {p} : pid'[q] = pid[q] /\ (pc'[q] = "kill" => pc[q] = "kill")
    BY <1>4, RunSteps
  <2>3. pc'[p] = "kill" => pid_file \in Pids /\ pid'[p] = pid_file /\ UNCHANGED pid_file
    BY <1>4
       DEF Run, Start, Stop, At, Goto, IsRunningGetPid, NextAlive, StartAlive, WriteAlive,
           CreatePidFile, WritePidFile, UnlinkFifo, MakeFifo, GiveUp, LoadConf, OpenFifo, Poll,
           RemovePid, Return, StopAlive, StopOpen, StopWrite, StopClose, StopGetPid, Kill, Die,
           Exit, Forget, unchangedButPc, Fails, ReadPid, TypeOK
  <2>4. \A q \in Pids : pid_file' = q /\ pc'[q] # "none" => pc'[q] \in Late
    BY <1>1 DEF DaemonInv, OnlyNamed, Late
  <2>5. \A q \in Pids : pc'[q] = "kill" => pid'[q] \in Pids /\ pc'[pid'[q]] \in Late \cup {"none"}
    <3> SUFFICES ASSUME NEW q \in Pids, pc'[q] = "kill"
                 PROVE  pid'[q] \in Pids /\ pc'[pid'[q]] \in Late \cup {"none"}
      OBVIOUS
    <3>1. CASE q = p
      BY <2>3, <2>4, <3>1
    <3>2. CASE q # p
      BY <2>1, <2>2, <3>2 DEF Targets
    <3> QED BY <3>1, <3>2
  <2>6. \A q \in signalled' : pc'[q] \in Late
    <3> SUFFICES ASSUME NEW q \in signalled' PROVE pc'[q] \in Late
      OBVIOUS
    <3>1. q \in Pids /\ pc'[q] # "none"
      BY <1>1 DEF TypeOK, LiveSignals, Alive
    <3>2. q \in signalled \/ (pc[p] = "kill" /\ q = pid[p])
      BY <1>4
         DEF Run, Start, Stop, At, IsRunningGetPid, StartAlive, WriteAlive, CreatePidFile,
             WritePidFile, UnlinkFifo, MakeFifo, GiveUp, LoadConf, OpenFifo, Poll, RemovePid,
             Return, StopAlive, StopOpen, StopWrite, StopClose, StopGetPid, Kill, Die, Exit, Forget,
             unchangedButPc, Fails
    <3>3. pc[q] \in Late \cup {"none"}
      BY <3>1, <3>2 DEF Targets
    <3> QED BY <2>1, <3>1, <3>3
  <2> QED BY <2>5, <2>6 DEF Targets
<1> QED
  BY <1>2, <1>3, <1>4 DEF Next

(* What a step of any process does to a stop at work on q, and to q, while    *)
(* the calls on the pid file work.                                          *)
LEMMA StopGoesOn ==
  ASSUME HitInv, Operator = "careful", NEW r \in Pids, Run(r), Works("pid_file")',
         NEW p \in Pids, NEW q \in Pids, StopOn(p, q), Alive(q), ~Ending(q), Alive(q)'
  PROVE  StopOn(p, q)' \/ Ending(q)'
<1> USE DEF HitInv
<1>0. ~Fails("pid_file")
  BY FailShows DEF Files
<1>1. pc[p] \in Stopping /\ p \notin signalled /\ p # q
  <2>1. pc[p] \in Stopping
    BY DEF StopOn, Stopping
  <2>2. p \notin signalled
    BY <2>1 DEF Targets, Late, Written, Looping, Stopping
  <2>3. p # q
    BY <2>1 DEF StopOn, LiveSignals
  <2> QED BY <2>1, <2>2, <2>3
<1>2. q # NoPid /\ pc[q] # "none" /\ pc'[q] # "none"
  BY PidsAssumption DEF Alive
<1>3. pid_file = q => pid_file' = q \/ Ending(q)'
  <2> SUFFICES ASSUME pid_file = q PROVE pid_file' = q \/ Ending(q)'
    OBVIOUS
  <2>1. pc[q] \in Written \cup Looping
    BY <1>2 DEF DaemonInv, OnlyNamed
  <2>2. CASE RemovePid(r)
    <3>1. r = q
      BY <2>2 DEF RemovePid, At, DaemonInv, Named, Looping
    <3>2. pc'[q] = "return"
      BY <1>0, <2>2, <3>1 DEF RemovePid, TypeOK
    <3> QED BY <3>2 DEF Ending
  <2>3. CASE WritePidFile(r)
    <3>1. r # q /\ pc[r] = "write"
      BY <2>1, <2>3 DEF WritePidFile, At, Written, Looping
    <3>2. FALSE
      BY <2>1, <3>1 DEF DaemonInv, OneStart, NoneLooping, Starting, Committed, Written, Looping
    <3> QED BY <3>2
  <2>4. CASE ~RemovePid(r) /\ ~WritePidFile(r)
    BY <1>0, <2>4, PidsAssumption
       DEF Run, Start, Stop, IsRunningGetPid, StartAlive, WriteAlive, CreatePidFile, UnlinkFifo,
           MakeFifo, GiveUp, LoadConf, OpenFifo, Poll, Return, StopAlive, StopOpen, StopWrite,
           StopClose, StopGetPid, Kill, Die, unchangedButPc
  <2> QED BY <2>2, <2>3, <2>4
<1>4. CASE r # p
  <2>1. pid'[p] = pid[p] /\ pc'[p] = pc[p]
    BY <1>1, <1>4, RunSteps DEF Stopping
  <2> QED BY <1>3, <2>1 DEF StopOn
<1>5. CASE r = p
  <2> USE DEF At, Goto, TypeOK
  <2>1. CASE pc[p] = "stop_get_pid"
    <3>1. /\ pid_file = q /\ pid_file' = q
          /\ pc'[p] = "stop_alive" /\ pid'[p] = q
      BY <1>0, <1>1, <1>5, <2>1
         DEF StopOn, Run, Start, Stop, IsRunningGetPid, NextAlive, ReadPid, StartAlive, WriteAlive,
             CreatePidFile, WritePidFile, UnlinkFifo, MakeFifo, GiveUp, LoadConf, OpenFifo, Poll,
             RemovePid, Return, StopAlive, StopOpen, StopWrite, StopClose, StopGetPid, Kill, Die
    <3> QED BY <3>1 DEF StopOn
  <2>2. CASE pc[p] = "stop_alive"
    <3>1. StopAlive(p)
      BY <1>0, <1>1, <1>5, <2>2
         DEF Run, Start, Stop, IsRunningGetPid, NextAlive, StartAlive, WriteAlive,
             CreatePidFile, WritePidFile, UnlinkFifo, MakeFifo, GiveUp, LoadConf, OpenFifo, Poll,
             RemovePid, Return, StopOpen, StopWrite, StopClose, StopGetPid, Kill, Die
    <3>2. pid_file = q /\ pid[p] = q /\ Running(p)
      BY <1>2, <2>2 DEF StopOn, Running, Alive
    <3>3. pc'[p] = "stop_open" /\ pid_file' = q
      BY <3>1, <3>2 DEF StopAlive
    <3> QED BY <3>3 DEF StopOn
  <2>3. CASE pc[p] \in {"stop_open", "stop_write", "stop_close"}
    <3>1. StopOpen(p) \/ StopWrite(p) \/ StopClose(p)
      BY <1>1, <1>5, <2>3
         DEF Run, Start, Stop, IsRunningGetPid, NextAlive, StartAlive, WriteAlive,
             CreatePidFile, WritePidFile, UnlinkFifo, MakeFifo, GiveUp, LoadConf, OpenFifo, Poll,
             RemovePid, Return, StopAlive, StopGetPid, Kill, Die
    <3>2. pid_file' = q /\ pc'[p] \in {"stop_write", "stop_close", "get_pid"}
      BY <2>3, <3>1 DEF StopOpen, StopWrite, StopClose, StopOn
    <3> QED BY <3>2 DEF StopOn
  <2>4. CASE pc[p] = "get_pid"
    <3>1. StopGetPid(p)
      BY <1>0, <1>1, <1>5, <2>4
         DEF Run, Start, Stop, IsRunningGetPid, NextAlive, StartAlive, WriteAlive,
             CreatePidFile, WritePidFile, UnlinkFifo, MakeFifo, GiveUp, LoadConf, OpenFifo, Poll,
             RemovePid, Return, StopAlive, StopOpen, StopWrite, StopClose, Kill, Die
    <3>2. ReadPid = q
      BY <2>4 DEF StopOn, ReadPid
    <3>3. pc'[p] = "kill" /\ pid'[p] = q
      BY <1>0, <1>2, <3>1, <3>2 DEF StopGetPid
    <3> QED BY <3>3 DEF StopOn
  <2>5. CASE pc[p] = "kill"
    <3>1. Kill(p)
      BY <1>0, <1>1, <1>5, <2>5
         DEF Run, Start, Stop, IsRunningGetPid, NextAlive, StartAlive, WriteAlive,
             CreatePidFile, WritePidFile, UnlinkFifo, MakeFifo, GiveUp, LoadConf, OpenFifo, Poll,
             RemovePid, Return, StopAlive, StopOpen, StopWrite, StopClose, StopGetPid, Die
    <3>2. q \in signalled'
      BY <2>5, <3>1 DEF Kill, StopOn
    <3> QED BY <3>2 DEF Ending
  <2> QED BY <1>1, <2>1, <2>2, <2>3, <2>4, <2>5 DEF Stopping
<1> QED
  BY <1>4, <1>5

LEMMA EndingStays ==
  ASSUME TypeOK, LiveSignals, NEW r \in Pids, Run(r), NEW q \in Pids, Ending(q), Alive(q)'
  PROVE  Ending(q)'
<1> USE DEF Ending, Alive
<1>1. CASE q \in signalled
  BY <1>1, RunSteps
<1>2. CASE pc[q] \in {"remove_pid", "return"} /\ r # q
  BY <1>2, RunSteps
<1>3. CASE pc[q] \in {"remove_pid", "return"} /\ r = q
  <2>1. RemovePid(q) \/ Return(q) \/ Die(q)
    BY <1>3
       DEF Run, Start, Stop, At, IsRunningGetPid, NextAlive, StartAlive, WriteAlive,
           CreatePidFile, WritePidFile, UnlinkFifo, MakeFifo, GiveUp, LoadConf, OpenFifo, Poll,
           StopAlive, StopOpen, StopWrite, StopClose, StopGetPid, Kill
  <2> QED BY <2>1 DEF RemovePid, Return, Die, Exit, Goto, TypeOK
<1> QED
  BY <1>1, <1>2, <1>3

(* A stop that found a process alive under the pid in the file never misses it: *)
(* until that process is gone or on its way out, or a call on the pid file      *)
(* fails, the stop is on its way to it, whatever other stops and starts do      *)
(* between its two reads of the file and its kill (monitor.cpp: main,           *)
(* is_running), and whatever becomes of its byte; and what is on its way out    *)
(* stays so.  With ProgramsGoForward, StopEnds needs no more than fairness.     *)
THEOREM StopsHit ==
  ASSUME Operator = "careful"
  PROVE  Spec => StopHits
<1>1. Init => HitInvWorking
  BY TypeInit, DaemonInvInit DEF Init, HitInvWorking, HitInv, LiveSignals, Targets, Stopping
<1>2. HitInvWorking /\ [Next]_vars => HitInvWorking'
  BY TypeStep, DaemonInvStep, LiveSignalsKept, TargetsKept, WorkedBefore
     DEF HitInvWorking, HitInv, Files
<1>3. HitInvWorking /\ [Next]_vars =>
        [/\ \A p, q \in Pids :
              StopOn(p, q) /\ Alive(q)
                => StopOn(p, q)' \/ Ending(q)' \/ ~Alive(q)' \/ ~Works("pid_file")'
         /\ \A q \in Pids : Ending(q) => Ending(q)' \/ ~Alive(q)']_vars
  <2> SUFFICES ASSUME HitInvWorking, Next, NEW p \in Pids, NEW q \in Pids
               PROVE  /\ StopOn(p, q) /\ Alive(q)
                           => StopOn(p, q)' \/ Ending(q)' \/ ~Alive(q)' \/ ~Works("pid_file")'
                      /\ Ending(q) => Ending(q)' \/ ~Alive(q)'
    OBVIOUS
  <2>1. CASE Command
    <3>1. PICK s \in Pids, first \in {"start_get_pid", "stop_get_pid"} :
            pc[s] = "none" /\ pc' = [pc EXCEPT ![s] = first]
      BY <2>1 DEF Command, Goto
    <3>2. UNCHANGED <<pid_file, pid, signalled>>
      BY <2>1 DEF Command
    <3>3. \A t \in Pids : pc[t] # "none" => pc'[t] = pc[t]
      BY <3>1 DEF HitInvWorking, TypeOK
    <3> QED BY <3>2, <3>3 DEF StopOn, Ending
  <2>2. CASE Idle
    BY <2>2 DEF Idle, vars, StopOn, Ending
  <2>3. ASSUME NEW r \in Pids, Run(r)
        PROVE  /\ StopOn(p, q) /\ Alive(q)
                    => StopOn(p, q)' \/ Ending(q)' \/ ~Alive(q)' \/ ~Works("pid_file")'
               /\ Ending(q) => Ending(q)' \/ ~Alive(q)'
    <3>1. Ending(q) => Ending(q)' \/ ~Alive(q)'
      BY <2>3, EndingStays DEF HitInvWorking
    <3>2. ASSUME StopOn(p, q), Alive(q), Alive(q)', Works("pid_file")'
          PROVE  StopOn(p, q)' \/ Ending(q)'
      <4>1. HitInv
        BY <2>3, <3>2, WorkedBefore DEF HitInvWorking, Next, Files
      <4> QED BY <2>3, <3>1, <3>2, <4>1, StopGoesOn
    <3> QED BY <3>1, <3>2
  <2> QED BY <2>1, <2>2, <2>3 DEF Next
<1> QED
  BY <1>1, <1>2, <1>3, PTL DEF Spec, StopHits
===============================================================================
