------------------------------ MODULE SlaveDaemon ------------------------------
(***************************************************************************)
(* The daemon (src/src/server/process_slave_wrapper.cpp and its posix part)*)
(* as the parent of the stream processes: its clients, the children it     *)
(* forks, the pipes to them, and the shutdown of the service.              *)
(*                                                                         *)
(* Everything the daemon does here happens on the thread of the main libev *)
(* loop, one handler at a time. What is concurrent is the rest: clients,   *)
(* the stream processes, and the order in which the loop sees the exit of  *)
(* a process (SIGCHLD) and the end of its pipe.                            *)
(*                                                                         *)
(* A stream process is reduced to what the daemon can observe; its         *)
(* internals are module StreamController.                                  *)
(***************************************************************************)
EXTENDS Integers, Sequences, FiniteSets

CONSTANTS
    Streams,      \* stream ids
    NoStream,     \* the id of a process that was not forked yet
    Clients,      \* connections of the control panel and of local tools
    LocalClients, \* those that come from the local host
    MaxForks,     \* bound: processes forked in a behaviour
    MaxCommands,  \* bound: commands waiting in the pipe of one process
    MaxBadData    \* bound: undecodable messages from stream processes

ASSUME DaemonAssumption ==
    /\ NoStream \notin Streams
    /\ LocalClients \subseteq Clients
    /\ MaxForks \in Nat
    /\ MaxCommands \in Nat
    /\ MaxBadData \in Nat

Pids == 1..MaxForks

VARIABLES
    daemon,     \* the daemon process: "running" or "stopped"
    quit_timer, \* quit_cleanup_timer_ is set
    client,     \* state of each client connection
    forks,      \* processes forked so far; process p is the p-th
    sid,        \* stream id each process was forked for
    proc,       \* state of each stream process
    childs,     \* children registered in the loop (GetChilds)
    client_,    \* children whose Child::client_ is set
    pipes,      \* processes whose pipe client is registered in the loop
    holders,    \* processes that inherited the write end of a command pipe
    commands,   \* commands written to each process and not yet read
    bad_data,   \* undecodable messages so far
    reply       \* the last answer to a client

child_vars == <<forks, sid, proc, childs, client_, pipes, holders>>
vars == <<daemon, quit_timer, client, child_vars, commands, bad_data, reply>>

ClientStates  == {"absent", "connected", "verified", "expired"}
ProcessStates == {"none", "running", "exiting", "exited"}
CommandKinds  == {"STOP", "RESTART"}
ReplyKinds    == {"None", "ActivateSuccess", "ActivateFail", "QuerySuccess",
                  "StartStreamSuccess", "StartStreamFail",
                  "StopStreamSuccess", "ReStartStreamSuccess",
                  "ReStartStreamFail", "StopSuccess", "StopFail"}

IsVerified(c)     == client[c] \in {"verified", "expired"}
HaveFullAccess(c) == client[c] = "verified"

Alive(p)         == proc[p] \in {"running", "exiting"}
FindChildByID(s) == {p \in childs : sid[p] = s}

\* The process reads the end of its command pipe: the daemon's end is closed,
\* so is every inherited copy, and nothing is left to read.
AtEof(p) ==
    /\ p \notin pipes
    /\ holders[p] = {}
    /\ commands[p] = <<>>

Init ==
    /\ daemon = "running"
    /\ quit_timer = FALSE
    /\ client = [c \in Clients |-> "absent"]
    /\ forks = 0
    /\ sid = [p \in Pids |-> NoStream]
    /\ proc = [p \in Pids |-> "none"]
    /\ childs = {}
    /\ client_ = {}
    /\ pipes = {}
    /\ holders = [p \in Pids |-> {}]
    /\ commands = [p \in Pids |-> <<>>]
    /\ bad_data = 0
    /\ reply = "None"

-----------------------------------------------------------------------------
(* Clients.                                                                *)

Connect(c) ==
    /\ daemon = "running"
    /\ client[c] = "absent"
    /\ client' = [client EXCEPT ![c] = "connected"]
    /\ UNCHANGED <<daemon, quit_timer, child_vars, commands, bad_data, reply>>

\* HandleRequestClientActivate. A client whose answer cannot be written stays
\* as it was.
Activate(c, valid, written) ==
    /\ daemon = "running"
    /\ client[c] # "absent"
    /\ client' = IF valid /\ written THEN [client EXCEPT ![c] = "verified"]
                 ELSE client
    /\ reply' = IF valid THEN "ActivateSuccess" ELSE "ActivateFail"
    /\ UNCHANGED <<daemon, quit_timer, child_vars, commands, bad_data>>

\* The license of an activated client runs out: it stays verified but loses
\* full access.
LicenseExpires(c) ==
    /\ client[c] = "verified"
    /\ client' = [client EXCEPT ![c] = "expired"]
    /\ UNCHANGED <<daemon, quit_timer, child_vars, commands, bad_data, reply>>

\* DataReceived with a read or parse error, or a Ping that cannot be written:
\* the client is closed and deleted. Its streams go on.
ClientLost(c) ==
    /\ daemon = "running"
    /\ client[c] # "absent"
    /\ client' = [client EXCEPT ![c] = "absent"]
    /\ UNCHANGED <<daemon, quit_timer, child_vars, commands, bad_data, reply>>

\* A request that only answers.
Answer(allowed) ==
    /\ daemon = "running"
    /\ allowed
    /\ reply' = "QuerySuccess"
    /\ UNCHANGED <<daemon, quit_timer, client, child_vars, commands, bad_data>>

\* The requests about the files of a stream need full access, those about the
\* service a verified client. The http directories and links that Prepare and
\* Sync install are module OnDemand.
GetLogStream(c)      == Answer(HaveFullAccess(c))
GetPipelineStream(c) == Answer(HaveFullAccess(c))
PrepareService(c)    == Answer(IsVerified(c))
SyncService(c)       == Answer(IsVerified(c))
PingService(c)       == Answer(IsVerified(c))
GetLogService(c)     == Answer(IsVerified(c))

-----------------------------------------------------------------------------
(* Children.                                                               *)

Mutant_KeepsOwnWriteEnd(s) ==
    LET p == forks + 1 IN
    /\ forks < MaxForks
    /\ forks' = p
    /\ sid' = [sid EXCEPT ![p] = s]
    /\ proc' = [proc EXCEPT ![p] = "running"]
    /\ childs' = childs \cup {p}
    /\ client_' = client_ \cup {p}
    /\ pipes' = pipes \cup {p}
    /\ holders' = [q \in Pids |-> IF q \in pipes \cup {p}
                                  THEN holders[q] \cup {p} ELSE holders[q]]

\* CreateChildStreamImpl in the parent: fork, close the child's ends, register
\* the pipe client and the child. The new process also inherits the daemon's
\* ends of the pipes of all its older siblings.
ForkChild(s) ==
    LET p == forks + 1 IN
    /\ forks < MaxForks
    /\ forks' = p
    /\ sid' = [sid EXCEPT ![p] = s]
    /\ proc' = [proc EXCEPT ![p] = "running"]
    /\ childs' = childs \cup {p}
    /\ client_' = client_ \cup {p}
    /\ pipes' = pipes \cup {p}
    /\ holders' = [q \in Pids |-> IF q \in pipes THEN holders[q] \cup {p}
                                  ELSE holders[q]]

Mutant_IdNotChecked(s, outcome) ==
    \/ outcome = "invalid" /\ UNCHANGED child_vars
    \/ outcome = "exist" /\ FindChildByID(s) # {} /\ UNCHANGED child_vars
    \/ outcome \in {"no_pipe", "no_fork"} /\ UNCHANGED child_vars
    \/ outcome = "forked" /\ ForkChild(s)

\* CreateChildStream: what became of the request. A configuration that is not
\* valid is refused first, then an id that is in use, then a failing pipe. A
\* failing fork is logged and is not an error.
CreateChildStream(s, outcome) ==
    \/ outcome = "invalid" /\ UNCHANGED child_vars
    \/ outcome = "exist" /\ FindChildByID(s) # {} /\ UNCHANGED child_vars
    \/ /\ FindChildByID(s) = {}
       /\ \/ outcome \in {"no_pipe", "no_fork"} /\ UNCHANGED child_vars
          \/ outcome = "forked" /\ ForkChild(s)

CreateOutcomes == {"invalid", "exist", "no_pipe", "no_fork", "forked"}

\* HandleRequestClientStartStream.
StartStream(c, s, outcome) ==
    /\ daemon = "running"
    /\ HaveFullAccess(c)
    /\ CreateChildStream(s, outcome)
    /\ reply' = IF outcome \in {"no_fork", "forked"} THEN "StartStreamSuccess"
                ELSE "StartStreamFail"
    /\ UNCHANGED <<daemon, quit_timer, client, commands, bad_data>>

\* The closure an http thread posts for a stream on demand: nobody looks at
\* the result, and it runs also while the service stops.
StartOnDemand(s, outcome) ==
    /\ daemon = "running"
    /\ CreateChildStream(s, outcome)
    /\ UNCHANGED <<daemon, quit_timer, client, commands, bad_data, reply>>

\* Child::Stop and Child::Restart fail without a pipe client, and when the
\* process has closed its end.
CanWrite(p) == p \in client_ /\ Alive(p)

\* The commands after Stop was called for every child of a set.
StopAll(ps) ==
    [p \in Pids |-> IF p \in ps /\ CanWrite(p) THEN Append(commands[p], "STOP")
                    ELSE commands[p]]

PipeHasRoom == \A p \in childs : Len(commands[p]) < MaxCommands

\* HandleRequestClientStopStream.
StopStream(c, s) ==
    /\ daemon = "running"
    /\ HaveFullAccess(c)
    /\ PipeHasRoom
    /\ commands' = StopAll(FindChildByID(s))
    /\ reply' = IF \E p \in FindChildByID(s) : CanWrite(p)
                THEN "StopStreamSuccess" ELSE "StopFail"
    /\ UNCHANGED <<daemon, quit_timer, client, child_vars, bad_data>>

\* HandleRequestClientRestartStream: success whenever the child is known.
RestartStream(c, s) ==
    /\ daemon = "running"
    /\ HaveFullAccess(c)
    /\ PipeHasRoom
    /\ commands' = [p \in Pids |-> IF p \in FindChildByID(s) /\ CanWrite(p)
                                   THEN Append(commands[p], "RESTART")
                                   ELSE commands[p]]
    /\ reply' = IF FindChildByID(s) # {} THEN "ReStartStreamSuccess"
                ELSE "ReStartStreamFail"
    /\ UNCHANGED <<daemon, quit_timer, client, child_vars, bad_data>>

\* check_cods_vods_timer_: the streams on demand nobody asked for in time.
StopExpiredCods(expired) ==
    /\ daemon = "running"
    /\ PipeHasRoom
    /\ commands' = StopAll(expired)
    /\ UNCHANGED <<daemon, quit_timer, client, child_vars, bad_data, reply>>

\* A message from a stream process that cannot be decoded.
BadData(p) ==
    /\ Alive(p)
    /\ bad_data < MaxBadData
    /\ bad_data' = bad_data + 1

Mutant_PipeEndsChild(p) ==
    /\ daemon = "running"
    /\ p \in pipes
    /\ \/ proc[p] = "exited" /\ bad_data' = bad_data
       \/ BadData(p)
    /\ pipes' = pipes \ {p}
    /\ client_' = client_ \ {p}
    /\ childs' = childs \ {p}
    /\ UNCHANGED <<daemon, quit_timer, client, forks, sid, proc, holders,
                   commands, reply>>

\* DataReceived of a pipe client at the end of the file or with undecodable
\* data: the child that owns it forgets it, then it is closed and deleted.
PipeClosed(p) ==
    /\ daemon = "running"
    /\ p \in pipes
    /\ \/ proc[p] = "exited" /\ bad_data' = bad_data
       \/ BadData(p)
    /\ pipes' = pipes \ {p}
    /\ client_' = client_ \ {p}
    /\ UNCHANGED <<daemon, quit_timer, client, forks, sid, proc, childs,
                   holders, commands, reply>>

\* ChildStatusChanged: the exit of a process. The child is removed and deleted
\* and the clients are told; its pipe client stays until its own end of file.
ChildStatusChanged(p) ==
    /\ daemon = "running"
    /\ p \in childs
    /\ proc[p] = "exited"
    /\ childs' = childs \ {p}
    /\ client_' = client_ \ {p}
    /\ UNCHANGED <<daemon, quit_timer, client, forks, sid, proc, pipes,
                   holders, commands, bad_data, reply>>

-----------------------------------------------------------------------------
(* Shutdown.                                                               *)

\* HandleRequestClientStopService: from a verified client or the local host;
\* once the timer runs, only refused.
StopService(c) ==
    /\ daemon = "running"
    /\ client[c] # "absent"
    /\ IsVerified(c) \/ c \in LocalClients
    /\ IF quit_timer
       THEN /\ reply' = "StopFail"
            /\ UNCHANGED <<quit_timer, commands>>
       ELSE /\ PipeHasRoom
            /\ commands' = StopAll(childs)
            /\ quit_timer' = TRUE
            /\ reply' = "StopSuccess"
    /\ UNCHANGED <<daemon, client, child_vars, bad_data>>

\* quit_cleanup_timer_ after cleanup_seconds: all loops stop, Exec returns and
\* the process exits, which closes its ends of all pipes.
QuitCleanup ==
    /\ daemon = "running"
    /\ quit_timer
    /\ daemon' = "stopped"
    /\ client' = [c \in Clients |-> "absent"]
    /\ childs' = {}
    /\ client_' = {}
    /\ pipes' = {}
    /\ UNCHANGED <<quit_timer, forks, sid, proc, holders, commands, bad_data,
                   reply>>

-----------------------------------------------------------------------------
(* The stream processes, as seen from outside.                             *)

\* A STOP is carried out, or lost when it comes at the wrong moment; a RESTART
\* does not end the process.
ProcessReads(p, lost) ==
    /\ Alive(p)
    /\ commands[p] # <<>>
    /\ commands' = [commands EXCEPT ![p] = Tail(@)]
    /\ proc' = IF Head(commands[p]) = "STOP" /\ ~lost
               THEN [proc EXCEPT ![p] = "exiting"] ELSE proc
    /\ UNCHANGED <<daemon, quit_timer, client, forks, sid, childs, client_,
                   pipes, holders, bad_data, reply>>

\* The end of the file stops the process (StreamController!PeerCloseTerminates).
ProcessAtEof(p) ==
    /\ proc[p] = "running"
    /\ AtEof(p)
    /\ proc' = [proc EXCEPT ![p] = "exiting"]
    /\ UNCHANGED <<daemon, quit_timer, client, forks, sid, childs, client_,
                   pipes, holders, commands, bad_data, reply>>

\* A process ends: stopped, a finished vod, a failed start or a crash. What it
\* inherited is closed and what it did not read is gone.
ProcessExits(p) ==
    /\ Alive(p)
    /\ proc' = [proc EXCEPT ![p] = "exited"]
    /\ holders' = [q \in Pids |-> holders[q] \ {p}]
    /\ commands' = [commands EXCEPT ![p] = <<>>]
    /\ UNCHANGED <<daemon, quit_timer, client, forks, sid, childs, client_,
                   pipes, bad_data, reply>>

-----------------------------------------------------------------------------
\* Nothing is left to happen.
AllGone ==
    /\ daemon = "stopped"
    /\ \A p \in Pids : ~Alive(p)
    /\ UNCHANGED vars

ClientNext ==
    \E c \in Clients :
        \/ Connect(c)
        \/ \E valid, written \in BOOLEAN : Activate(c, valid, written)
        \/ LicenseExpires(c)
        \/ ClientLost(c)
        \/ GetLogStream(c) \/ GetPipelineStream(c)
        \/ PrepareService(c) \/ SyncService(c)
        \/ PingService(c) \/ GetLogService(c)
        \/ StopService(c)
        \/ \E s \in Streams :
            \/ \E outcome \in CreateOutcomes : StartStream(c, s, outcome)
            \/ StopStream(c, s)
            \/ RestartStream(c, s)

LoopNext ==
    \/ \E s \in Streams, outcome \in CreateOutcomes : StartOnDemand(s, outcome)
    \/ \E expired \in SUBSET childs : StopExpiredCods(expired)
    \/ \E p \in Pids : PipeClosed(p) \/ ChildStatusChanged(p)
    \/ QuitCleanup

ProcessNext ==
    \E p \in Pids :
        \/ \E lost \in BOOLEAN : ProcessReads(p, lost)
        \/ ProcessAtEof(p)
        \/ ProcessExits(p)

Next == ClientNext \/ LoopNext \/ ProcessNext \/ AllGone

\* The loop delivers exits, ends of files and the quit timer; a process reads
\* its pipe, notices the end of the file and finishes an exit it began. How
\* long a running stream lives is its own affair.
Fairness ==
    /\ WF_vars(QuitCleanup)
    /\ \A p \in Pids :
        /\ WF_vars(PipeClosed(p) /\ proc[p] = "exited")
        /\ WF_vars(ChildStatusChanged(p))
        /\ WF_vars(\E lost \in BOOLEAN : ProcessReads(p, lost))
        /\ WF_vars(ProcessAtEof(p))
        /\ WF_vars(ProcessExits(p) /\ proc[p] = "exiting")

Spec == Init /\ [][Next]_vars /\ Fairness

-----------------------------------------------------------------------------
(* Properties.                                                             *)

\* Every variable keeps its type.
TypeOK ==
    /\ daemon \in {"running", "stopped"}
    /\ quit_timer \in BOOLEAN
    /\ client \in [Clients -> ClientStates]
    /\ forks \in 0..MaxForks
    /\ sid \in [Pids -> Streams \cup {NoStream}]
    /\ proc \in [Pids -> ProcessStates]
    /\ childs \in SUBSET Pids
    /\ client_ \in SUBSET Pids
    /\ pipes \in SUBSET Pids
    /\ holders \in [Pids -> SUBSET Pids]
    /\ commands \in [Pids -> Seq(CommandKinds)]
    /\ bad_data \in 0..MaxBadData
    /\ reply \in ReplyKinds

\* At most one process runs for a stream id while the daemon runs, although
\* starts come from clients and from http threads and a stream that is asked
\* to stop lives on for a while.
OneProcessPerStream ==
    \A p, q \in Pids :
        daemon = "running" /\ Alive(p) /\ Alive(q) /\ sid[p] = sid[q] => p = q

\* A registered child never keeps a pipe client that was closed and deleted,
\* in whichever order the loop sees the exit and the end of the pipe.
NoDanglingClient == client_ \subseteq pipes

\* The daemon knows every process it forked until it has seen its exit; none
\* runs on that can be neither listed nor reaped.
ProcessesAreTracked ==
    daemon = "running" => \A p \in Pids : Alive(p) => p \in childs

\* Only younger processes hold a copy of a process's command pipe: the ends of
\* files cannot wait for each other in a circle.
HoldersAreYounger == \A p \in Pids : \A q \in holders[p] : q > p /\ Alive(q)

\* Once the service is told to stop, the daemon and all stream processes end,
\* those too whose STOP was lost, those started during the last seconds and
\* those whose pipe end an inherited copy keeps open.
ServiceStops == quit_timer ~> (daemon = "stopped" /\ \A p \in Pids : ~Alive(p))

\* The daemon forgets an exited process completely: child and pipe client.
ExitedIsForgotten ==
    \A p \in Pids : (proc[p] = "exited") ~> (p \notin childs \cup pipes)

\* A process whose pipe the daemon gave up cannot be stopped any more, but it
\* ends by itself when no sibling holds a copy of the pipe.
OrphanExits ==
    \A p \in Pids : (p \notin pipes /\ holders[p] = {}) ~> ~Alive(p)

\* The registry of running streams this module implements.
Registry ==
    INSTANCE StreamRegistry
    WITH live <- {<<sid[p], p>> : p \in {q \in Pids : Alive(q)}},
         last <- forks,
         serving <- (daemon = "running")

\* The daemon with its processes implements StreamRegistry: at most one process
\* per stream while it serves, and all of them gone after it stopped.
ImplementsRegistry == Registry!Spec

\* The daemon's tables agree with the processes in every order of exits, ends
\* of pipes and requests: no child points at a deleted pipe client, no live
\* process is missing, and inherited pipe ends form no circle.
ProcessesAreKnown ==
    /\ TypeOK
    /\ NoDanglingClient
    /\ ProcessesAreTracked
    /\ HoldersAreYounger

\* Whatever was lost on the way, processes end and are forgotten: after the
\* stop of the service, after their exit, and after the daemon lost their pipe.
ProcessesEnd == ServiceStops /\ ExitedIsForgotten /\ OrphanExits
=============================================================================
