----------------------------- MODULE DaemonThreads -----------------------------
(***************************************************************************)
(* Daemons on one host, from main to its return: the configuration, the    *)
(* pid file, the threads of Exec and their ends                            *)
(* (src/src/server/daemon_slave.cpp, config.cpp, gpu_stats, and the        *)
(* constructor, Exec and the quit timer of process_slave_wrapper.cpp).     *)
(*                                                                         *)
(* A daemon has its main loop, a thread for each http server and one for   *)
(* the load of the gpu. What the main loop does is module SlaveDaemon.     *)
(*                                                                         *)
(* The library is external: whether File::Open with FLAG_CREATE refuses a  *)
(* file that exists is left open (exclusive), a lock goes with the process  *)
(* that took it, an address can be bound once, and Stop is remembered by a *)
(* loop that has not started.                                              *)
(*                                                                         *)
(* A stream is forked and executes no other program: it has the listening  *)
(* sockets its daemon had then, and an address is taken until the last     *)
(* process that has its socket ends.                                       *)
(***************************************************************************)
EXTENDS Integers, FiniteSets

CONSTANTS
    Daemons,    \* processes
    Nobody,
    Foreign,    \* programs that have some of the ports
    Ports,
    Servers,    \* http servers: a subset of {"http", "vods", "cods"}
    Default,    \* the port of "main" and of each server without configuration
    ConfigFiles \* what the configuration file may say

ASSUME DaemonThreadsAssumption ==
    /\ IsFiniteSet(Daemons)
    /\ Servers \subseteq {"http", "vods", "cods"}
    /\ Nobody \notin Daemons /\ Foreign \notin Daemons
    /\ Ports \subseteq Nat \ {0}
    /\ Default \in [Servers \cup {"main"} -> Ports]

VARIABLES
    config_file, \* the file at CONFIG_PATH
    exclusive,   \* FLAG_CREATE refuses a file that exists
    pc,          \* where main is
    config,      \* the ports of each daemon
    path,        \* the file the name of the pid file stands for, 0 for none
    inode,       \* the file each daemon has open, 0 for none
    lock,        \* who has locked each file
    port,        \* who has each port
    inherited,   \* ports whose sockets running streams of each daemon have
    thread,      \* the thread of each server
    stopped,     \* Stop was called
    perf,        \* the thread of the gpu monitor
    stop_flag_,  \* of the gpu monitor
    timers       \* timers of the main loop

pid_vars    == <<path, inode, lock>>
server_vars == <<port, inherited, thread, stopped>>
perf_vars   == <<perf, stop_flag_>>
vars == <<config_file, exclusive, pc, config, pid_vars, server_vars, perf_vars, timers>>

Inodes == 1..Cardinality(Daemons)

Init ==
    /\ config_file \in ConfigFiles
    /\ exclusive \in BOOLEAN
    /\ pc = [d \in Daemons |-> "off"]
    /\ config = [d \in Daemons |-> Default]
    /\ path = 0
    /\ inode = [d \in Daemons |-> 0]
    /\ lock = [i \in Inodes |-> Nobody]
    /\ port \in [Ports -> {Nobody, Foreign}]
    /\ inherited = [d \in Daemons |-> {}]
    /\ thread = [d \in Daemons |-> [s \in Servers |-> "none"]]
    /\ stopped = [d \in Daemons |-> {}]
    /\ perf = [d \in Daemons |-> "none"]
    /\ stop_flag_ = [d \in Daemons |-> FALSE]
    /\ timers = [d \in Daemons |-> {}]

Goto(d, l) == pc' = [pc EXCEPT ![d] = l]

-----------------------------------------------------------------------------
(* The configuration: a field is absent, 0 if it cannot be converted, or a  *)
(* port.                                                                   *)

\* ReadConfigFile keeps the lines of known keys.
ReadConfigFile(file) == [k \in DOMAIN file \cap (Servers \cup {"main", "license"}) |-> file[k]]

\* A field that is absent or bad has its default; only the license must be
\* there, and need not be valid.
LoadConfig(args) ==
    [s \in Servers \cup {"main"} |->
        IF s \in DOMAIN args /\ args[s] \in Ports THEN args[s] ELSE Default[s]]

\* main up to the pid file.
Start(d) ==
    /\ pc[d] = "off"
    /\ LET args == ReadConfigFile(config_file) IN
       IF "license" \in DOMAIN args
       THEN config' = [config EXCEPT ![d] = LoadConfig(args)] /\ Goto(d, "loaded")
       ELSE Goto(d, "ended") /\ UNCHANGED config
    /\ UNCHANGED <<config_file, exclusive, pid_vars, server_vars, perf_vars, timers>>

-----------------------------------------------------------------------------
(* The pid file.                                                           *)

Unused == CHOOSE i \in Inodes : i # path /\ lock[i] = Nobody /\ \A d \in Daemons : inode[d] # i

\* The file is opened, and created if it is not there.
OpenPidFile(d) ==
    /\ pc[d] = "loaded"
    /\ IF exclusive /\ path # 0
       THEN Goto(d, "ended") /\ UNCHANGED <<path, inode>>
       ELSE /\ path' = IF path = 0 THEN Unused ELSE path
            /\ inode' = [inode EXCEPT ![d] = path']
            /\ Goto(d, "opened")
    /\ UNCHANGED <<config_file, exclusive, config, lock, server_vars, perf_vars, timers>>

Mutant_LockIgnored(d) ==
    /\ pc[d] = "opened"
    /\ Goto(d, "locked")
    /\ lock' = [lock EXCEPT ![inode[d]] = d]
    /\ UNCHANGED <<config_file, exclusive, config, path, inode, server_vars, perf_vars, timers>>

\* A file that somebody has locked ends the process; it is not removed.
LockPidFile(d) ==
    /\ pc[d] = "opened"
    /\ IF lock[inode[d]] = Nobody
       THEN lock' = [lock EXCEPT ![inode[d]] = d] /\ Goto(d, "locked") /\ UNCHANGED inode
       ELSE inode' = [inode EXCEPT ![d] = 0] /\ Goto(d, "ended") /\ UNCHANGED lock
    /\ UNCHANGED <<config_file, exclusive, config, path, server_vars, perf_vars, timers>>

\* After Exec: Unlock, Close, and the file of that name is removed, whoever
\* made it.
UnlockPidFile(d) ==
    /\ pc[d] = "returned"
    /\ lock' = [lock EXCEPT ![inode[d]] = Nobody]
    /\ Goto(d, "unlocked")
    /\ UNCHANGED <<config_file, exclusive, config, path, inode, server_vars, perf_vars, timers>>

ClosePidFile(d) ==
    /\ pc[d] = "unlocked"
    /\ inode' = [inode EXCEPT ![d] = 0]
    /\ Goto(d, "closed")
    /\ UNCHANGED <<config_file, exclusive, config, path, lock, server_vars, perf_vars, timers>>

RemovePidFile(d) ==
    /\ pc[d] = "closed"
    /\ path' = 0
    /\ Goto(d, "ended")
    /\ UNCHANGED <<config_file, exclusive, config, inode, lock, server_vars, perf_vars, timers>>

-----------------------------------------------------------------------------
(* Exec.                                                                   *)

\* The servers are created and their threads started. CreatePerfMonitor may
\* find no gpu.
ExecBegins(d, gpu) ==
    /\ pc[d] = "locked"
    /\ Goto(d, "binding")
    /\ thread' = [thread EXCEPT ![d] = [s \in Servers |-> "start"]]
    /\ perf' = [perf EXCEPT ![d] = IF gpu THEN "start" ELSE "none"]
    /\ UNCHANGED <<config_file, exclusive, config, pid_vars, port, inherited, stopped, stop_flag_, timers>>

\* No process has a socket bound to it.
Free(r) == port[r] = Nobody /\ \A e \in Daemons : r \notin inherited[e]

\* Bind and Listen of a server, in its thread. An error ends the thread.
ServerBinds(d, s) ==
    /\ thread[d][s] = "start"
    /\ LET r == config[d][s] IN
       IF Free(r)
       THEN port' = [port EXCEPT ![r] = d] /\ thread' = [thread EXCEPT ![d][s] = "run"]
       ELSE thread' = [thread EXCEPT ![d][s] = "ended"] /\ UNCHANGED port
    /\ UNCHANGED <<config_file, exclusive, pc, config, pid_vars, inherited, stopped, perf_vars, timers>>

\* Exec of a server returns when it was stopped.
ServerReturns(d, s) ==
    /\ thread[d][s] = "run"
    /\ s \in stopped[d]
    /\ thread' = [thread EXCEPT ![d][s] = "ended"]
    /\ UNCHANGED <<config_file, exclusive, pc, config, pid_vars, port, inherited, stopped, perf_vars, timers>>

LoopTimers == {"ping_client", "check_cods_vods", "check_old_files", "node_stats"}

\* Bind and Listen of the main server, then its loop and PreLooped. An error
\* goes to finished at once: nobody stops the other servers.
MainBinds(d) ==
    /\ pc[d] = "binding"
    /\ LET r == config[d]["main"] IN
       IF Free(r)
       THEN /\ port' = [port EXCEPT ![r] = d]
            /\ timers' = [timers EXCEPT ![d] = LoopTimers]
            /\ Goto(d, "looping")
       ELSE Goto(d, "joining") /\ UNCHANGED <<port, timers>>
    /\ UNCHANGED <<config_file, exclusive, config, pid_vars, inherited, thread, stopped, perf_vars>>

\* CreateChildStreamImpl forks; of the daemon's descriptors the stream closes only
\* the ends of the pipes it does not need.
ForkStream(d) ==
    /\ pc[d] = "looping"
    /\ inherited' = [inherited EXCEPT ![d] = @ \cup {r \in Ports : port[r] = d}]
    /\ UNCHANGED <<config_file, exclusive, pc, config, pid_vars, port, thread, stopped, perf_vars, timers>>

\* Streams end. Those that are left, if any, may be older than the servers: of the
\* listening sockets only that of the main server is in every stream.
StreamsEnd(d) ==
    /\ \E rest \in SUBSET inherited[d] :
        /\ rest # inherited[d]
        /\ rest = {} \/ config[d]["main"] \in rest
        /\ inherited' = [inherited EXCEPT ![d] = rest]
    /\ UNCHANGED <<config_file, exclusive, pc, config, pid_vars, port, thread, stopped, perf_vars, timers>>

\* SendStopDaemonRequest: another process connects to the configured address
\* and asks to stop, which starts the quit timer.
SendStopDaemonRequest(d) ==
    /\ pc[d] = "looping"
    /\ port[LoadConfig(ReadConfigFile(config_file))["main"]] = d
    /\ "quit_cleanup" \notin timers[d]
    /\ timers' = [timers EXCEPT ![d] = @ \cup {"quit_cleanup"}]
    /\ UNCHANGED <<config_file, exclusive, pc, config, pid_vars, server_vars, perf_vars>>

Mutant_HttpNotStopped(d) ==
    /\ pc[d] = "looping"
    /\ "quit_cleanup" \in timers[d]
    /\ stopped' = [stopped EXCEPT ![d] = Servers \ {"http"}]
    /\ Goto(d, "looped")
    /\ UNCHANGED <<config_file, exclusive, config, pid_vars, port, inherited, thread, perf_vars, timers>>

\* The quit timer stops the servers and the loop.
QuitTimer(d) ==
    /\ pc[d] = "looping"
    /\ "quit_cleanup" \in timers[d]
    /\ stopped' = [stopped EXCEPT ![d] = Servers]
    /\ Goto(d, "looped")
    /\ UNCHANGED <<config_file, exclusive, config, pid_vars, port, inherited, thread, perf_vars, timers>>

\* The timer is gone once it has fired; PostLooped removes the others.
PostLooped(d) ==
    /\ pc[d] = "looped"
    /\ timers' = [timers EXCEPT ![d] = @ \ (LoopTimers \cup {"quit_cleanup"})]
    /\ Goto(d, "joining")
    /\ UNCHANGED <<config_file, exclusive, config, pid_vars, server_vars, perf_vars>>

\* finished: the threads of the servers are joined.
JoinServers(d) ==
    /\ pc[d] = "joining"
    /\ \A s \in Servers : thread[d][s] = "ended"
    /\ Goto(d, "joined")
    /\ UNCHANGED <<config_file, exclusive, config, pid_vars, server_vars, perf_vars, timers>>

Mutant_FlagNotSet(d) ==
    /\ pc[d] = "joined"
    /\ perf[d] # "poll"
    /\ Goto(d, "stopped")
    /\ UNCHANGED <<stop_flag_, config_file, exclusive, config, pid_vars, server_vars, perf, timers>>

\* perf_monitor->Stop, which needs the mutex the monitor holds while it polls.
\* The notification may find nobody waiting.
StopPerf(d) ==
    /\ pc[d] = "joined"
    /\ perf[d] # "poll"
    /\ stop_flag_' = [stop_flag_ EXCEPT ![d] = perf[d] # "none"]
    /\ Goto(d, "stopped")
    /\ UNCHANGED <<config_file, exclusive, config, pid_vars, server_vars, perf, timers>>

\* The monitor's thread is joined, Exec returns, and with it the servers and
\* their sockets go; those its streams have stay.
ExecReturns(d) ==
    /\ pc[d] = "stopped"
    /\ perf[d] \in {"none", "ended"}
    /\ port' = [r \in Ports |-> IF port[r] = d THEN Nobody ELSE port[r]]
    /\ Goto(d, "returned")
    /\ UNCHANGED <<config_file, exclusive, config, pid_vars, inherited, thread, stopped, perf_vars, timers>>

-----------------------------------------------------------------------------
(* NvidiaMonitor::Exec and IntelMonitor::Exec.                             *)

\* The vendor's library is set up, or not; then the mutex is taken.
PerfBegins(d, ready) ==
    /\ perf[d] = "start"
    /\ perf' = [perf EXCEPT ![d] = IF ready /\ ~stop_flag_[d] THEN "poll" ELSE "ended"]
    /\ UNCHANGED <<config_file, exclusive, pc, config, pid_vars, server_vars, stop_flag_, timers>>

\* The load is read and stored, and the thread waits, which gives the mutex
\* away. The intel monitor ends when it cannot read.
PerfPolls(d, read) ==
    /\ perf[d] = "poll"
    /\ perf' = [perf EXCEPT ![d] = IF read THEN "wait" ELSE "ended"]
    /\ UNCHANGED <<config_file, exclusive, pc, config, pid_vars, server_vars, stop_flag_, timers>>

\* A second is over, or there was a notification.
PerfWakes(d) ==
    /\ perf[d] = "wait"
    /\ perf' = [perf EXCEPT ![d] = IF stop_flag_[d] THEN "ended" ELSE "poll"]
    /\ UNCHANGED <<config_file, exclusive, pc, config, pid_vars, server_vars, stop_flag_, timers>>

-----------------------------------------------------------------------------
\* The process is killed: the kernel frees what it had, the pid file stays, and
\* so do the streams with their sockets.
Killed(d) ==
    /\ pc[d] \notin {"off", "ended"}
    /\ Goto(d, "ended")
    /\ inode' = [inode EXCEPT ![d] = 0]
    /\ lock' = [i \in Inodes |-> IF lock[i] = d THEN Nobody ELSE lock[i]]
    /\ port' = [r \in Ports |-> IF port[r] = d THEN Nobody ELSE port[r]]
    /\ thread' = [thread EXCEPT ![d] = [s \in Servers |-> "ended"]]
    /\ perf' = [perf EXCEPT ![d] = "ended"]
    /\ timers' = [timers EXCEPT ![d] = {}]
    /\ UNCHANGED <<config_file, exclusive, config, path, inherited, stopped, stop_flag_>>

Main(d) ==
    \/ OpenPidFile(d) \/ LockPidFile(d) \/ UnlockPidFile(d) \/ ClosePidFile(d) \/ RemovePidFile(d)
    \/ (\E gpu \in BOOLEAN : ExecBegins(d, gpu)) \/ MainBinds(d) \/ QuitTimer(d) \/ PostLooped(d)
    \/ JoinServers(d) \/ StopPerf(d) \/ ExecReturns(d)

Children(d) == ForkStream(d) \/ StreamsEnd(d)

Server(d, s) == ServerBinds(d, s) \/ ServerReturns(d, s)

Perf(d) == \E ok \in BOOLEAN : PerfBegins(d, ok) \/ PerfPolls(d, ok) \/ PerfWakes(d)

Next ==
    \E d \in Daemons :
        \/ Start(d) \/ Main(d) \/ Perf(d) \/ SendStopDaemonRequest(d) \/ Children(d) \/ Killed(d)
        \/ \E s \in Servers : Server(d, s)

\* Threads run. The monitor gives its mutex away for a second between two
\* polls, so Stop gets it.
Fairness ==
    \A d \in Daemons :
        /\ WF_vars(Main(d)) /\ WF_vars(Perf(d)) /\ SF_vars(StopPerf(d))
        /\ \A s \in Servers : WF_vars(Server(d, s))

Spec == Init /\ [][Next]_vars /\ Fairness

-----------------------------------------------------------------------------
(* Properties.                                                             *)

\* Every variable keeps its type, and a daemon gets beyond main's first check
\* only with a license in the file.
TypeOK ==
    /\ config \in [Daemons -> [Servers \cup {"main"} -> Ports]]
    /\ path \in Inodes \cup {0}
    /\ inode \in [Daemons -> Inodes \cup {0}]
    /\ lock \in [Inodes -> Daemons \cup {Nobody}]
    /\ port \in [Ports -> Daemons \cup {Nobody, Foreign}]
    /\ inherited \in [Daemons -> SUBSET Ports]
    /\ thread \in [Daemons -> [Servers -> {"none", "start", "run", "ended"}]]
    /\ stopped \in [Daemons -> SUBSET Servers]
    /\ perf \in [Daemons -> {"none", "start", "poll", "wait", "ended"}]
    /\ timers \in [Daemons -> SUBSET (LoopTimers \cup {"quit_cleanup"})]
    /\ \A d \in Daemons : pc[d] \notin {"off", "ended"} => "license" \in DOMAIN config_file

Started == {d \in Daemons : pc[d] \notin {"off", "loaded", "opened", "unlocked", "closed", "ended"}}

\* There is one daemon, however starts, kills and ends interleave: if the pid
\* file is created exclusively always; if an existing file is opened, two may
\* be started, but only after one daemon removed the file another one had
\* locked, and then the name stands for the file of at most one of them.
OneDaemon ==
    \A d, e \in Started : d # e => ~exclusive /\ ~(inode[d] = path /\ inode[e] = path)

\* When Exec has returned and the servers are destroyed, no thread of the
\* process runs, no timer is left and it has no port itself, whether the start
\* failed or the service was stopped. Its streams may still have its ports.
LeavesNothing ==
    \A d \in Daemons : pc[d] \in {"returned", "unlocked", "closed", "ended"} =>
        /\ \A s \in Servers : thread[d][s] \in {"none", "ended"}
        /\ perf[d] \in {"none", "ended"}
        /\ timers[d] = {}
        /\ \A r \in Ports : port[r] # d

\* A stop request ends the process, although the notification of the gpu
\* monitor can be lost and its thread may have ended by itself.
StopEnds == \A d \in Daemons : "quit_cleanup" \in timers[d] ~> pc[d] = "ended"

\* The main server was not bound, and nobody has stopped the others.
FailedStart(d) == pc[d] = "joining" /\ stopped[d] = {}
Hangs(d)       == FailedStart(d) /\ \E s \in Servers : thread[d][s] = "run"

\* A start whose main server finds its address taken (by a foreign program, another
\* daemon, or streams a daemon has left behind) ends by itself exactly if none of
\* its own http servers got an address: the joins wait for a server that runs,
\* nothing stops it, and only a kill ends that process. With a gpu monitor, too.
FailedStartEnds ==
    /\ \A d \in Daemons : FailedStart(d) ~> pc[d] = "ended" \/ Hangs(d)
    /\ [][\A d \in Daemons : Hangs(d) => Hangs(d)' \/ Killed(d)]_vars

\* Starts, kills and ends of several daemons leave one of them at work, and
\* nothing of the others.
InstancesAreSeparate == TypeOK /\ OneDaemon /\ LeavesNothing
================================================================================
