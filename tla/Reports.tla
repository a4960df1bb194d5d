-------------------------------- MODULE Reports --------------------------------
(***************************************************************************)
(* What the clients of the daemon are told about the streams: a process    *)
(* writes its statistics and source changes to its pipe, the daemon reads, *)
(* decodes, encodes again and broadcasts them, and it broadcasts the quit  *)
(* status when it sees the exit of the process. The exit and the pipe are  *)
(* two event sources of the daemon's loop: nothing orders them.            *)
(*                                                                         *)
(* A process is a stream id with the number of its start. Clients decode   *)
(* what they get with the classes of module Messages.                      *)
(***************************************************************************)
EXTENDS Messages

CONSTANTS
    Streams,      \* stream ids, strings
    Clients,      \* clients of the daemon
    RssValues,    \* resident set sizes a process can have
    ExitCodes,    \* exit codes of a process
    Urls,         \* sources a stream can change to
    MaxRuns,      \* bound: processes started for one stream
    MaxReports,   \* bound: messages written by the processes
    MaxClock,     \* bound: the clock
    MaxBytes,     \* bound: bytes a channel counts
    MaxInbox      \* bound: messages a client holds

ASSUME ReportsAssumption ==
    /\ RssValues \subseteq Nat
    /\ MaxRuns \in Nat /\ MaxReports \in Nat /\ MaxClock \in Nat /\ MaxBytes \in Nat /\ MaxInbox \in Nat

Processes == Streams \X (1..MaxRuns)
Statuses  == {"NEW", "PLAYING"}

VARIABLES
    proc,       \* state of each process
    childs,     \* children registered in the loop of the daemon
    mem_,       \* the StreamStruct of each process
    pipe,       \* messages written and not yet read by the daemon
    verified,   \* clients that are activated
    inbox,      \* messages a client got, each with the process it is about
    now,        \* the clock of the host
    written,    \* messages written by the processes
    sent,       \* history: statistics handed to SendStatisticBroadcast
    untold      \* history: processes whose exit a client could not be told

reports_vars == <<proc, childs, mem_, pipe, verified, inbox, now, written, sent, untold>>

\* The StreamStruct a process starts with: make_inputs, make_outputs.
StreamStruct(id) ==
    [StatisticDefaults EXCEPT !.id = id, !.start_time = now,
        !.input_streams = <<ChannelStats(0)>>, !.output_streams = <<ChannelStats(0)>>]

InitReports ==
    /\ proc = [p \in Processes |-> "none"]
    /\ childs = {}
    /\ mem_ = [p \in Processes |-> StatisticDefaults]
    /\ pipe = [p \in Processes |-> <<>>]
    /\ verified = {}
    /\ inbox = [c \in Clients |-> <<>>]
    /\ now = 0
    /\ written = 0
    /\ sent = {}
    /\ untold = [c \in Clients |-> {}]

-----------------------------------------------------------------------------
(* The processes.                                                          *)

\* A process is started only when no child has the id.
StartProcess(s) ==
    \E n \in 1..MaxRuns :
        /\ proc[<<s, n>>] = "none"
        /\ n > 1 => proc[<<s, n - 1>>] # "none"
        /\ \A p \in childs : p[1] # s
        /\ proc' = [proc EXCEPT ![<<s, n>>] = "running"]
        /\ childs' = childs \cup {<<s, n>>}
        /\ mem_' = [mem_ EXCEPT ![<<s, n>>] = StreamStruct(s)]
        /\ UNCHANGED <<pipe, verified, inbox, now, written, sent, untold>>

\* StreamServer::WriteRequest: from the loop of the process, in order.
WriteRequest(p, requests) ==
    /\ written < MaxReports
    /\ written' = written + 1
    /\ pipe' = [pipe EXCEPT ![p] = @ \o SetToSeq(requests)]

\* StreamController::DumpStreamStatus and SendStatisticBroadcast.
DumpStreamStatus(p, stat, rss) ==
    LET statistic == [stat EXCEPT !.rss = rss, !.timestamp = now] IN
    /\ WriteRequest(p, StreamStatistic(statistic))
    /\ sent' = sent \cup {[proc |-> p, stat |-> statistic]}

\* A probe counts bytes (SetTotalBytes).
CountBytes(p) ==
    /\ proc[p] = "running"
    /\ mem_[p].input_streams[1].total_bytes < MaxBytes
    /\ mem_' = [mem_ EXCEPT ![p].input_streams[1].total_bytes = @ + 1,
                            ![p].input_streams[1].last_update_time = now]
    /\ UNCHANGED <<proc, childs, pipe, verified, inbox, now, written, sent, untold>>

\* The watchdog's timer: bps, the checkpoint, and OnTimeoutUpdated.
Checkpoint(p, rss) ==
    LET Check(st) == [st EXCEPT !.bps = st.total_bytes - st.prev_total_bytes,
                                !.prev_total_bytes = st.total_bytes]
        next == [mem_[p] EXCEPT !.input_streams = <<Check(@[1])>>,
                                !.output_streams = <<Check(@[1])>>]
    IN /\ proc[p] = "running"
       /\ mem_' = [mem_ EXCEPT ![p] = next]
       /\ DumpStreamStatus(p, next, rss)
       /\ UNCHANGED <<proc, childs, verified, inbox, now, untold>>

\* OnStatusChanged.
ChangeStatus(p, status, rss) ==
    LET next == [mem_[p] EXCEPT !.status = status,
                                !.restarts = IF status = "NEW" THEN @ + 1 ELSE @,
                                !.idle_time = IF status = "NEW" THEN @ + 1 ELSE @]
    IN /\ proc[p] = "running"
       /\ mem_[p].status # status
       /\ mem_' = [mem_ EXCEPT ![p] = next]
       /\ DumpStreamStatus(p, next, rss)
       /\ UNCHANGED <<proc, childs, verified, inbox, now, untold>>

\* OnInputChanged and SendChangeSourcesBroadcast.
InputChanged(p, url) ==
    /\ proc[p] = "running"
    /\ WriteRequest(p, StreamChangedSources(mem_[p].id, url))
    /\ UNCHANGED <<proc, childs, mem_, verified, inbox, now, sent, untold>>

\* The process ends; what it wrote stays in the pipe.
ProcessExits(p) ==
    /\ proc[p] = "running"
    /\ proc' = [proc EXCEPT ![p] = "exited"]
    /\ UNCHANGED <<childs, mem_, pipe, verified, inbox, now, written, sent, untold>>

\* The clock advances; several messages may be of one time.
ClockTicks ==
    /\ now < MaxClock
    /\ now' = now + 1
    /\ UNCHANGED <<proc, childs, mem_, pipe, verified, inbox, written, sent, untold>>

-----------------------------------------------------------------------------
(* The daemon.                                                             *)

\* BroadcastClients: to the clients that are verified. A client that cannot
\* be written to misses the message and stays.
BroadcastClients(p, requests, failing) ==
    /\ \A c \in verified : Len(inbox[c]) < MaxInbox
    /\ inbox' = [c \in Clients |->
        IF c \in verified \ failing
        THEN inbox[c] \o [i \in DOMAIN SetToSeq(requests) |->
                            [about |-> p, msg |-> SetToSeq(requests)[i]]]
        ELSE inbox[c]]

\* HandleRequestChangedSourcesStream.
HandleRequestChangedSourcesStream(req) ==
    UNION {ChangedSourcesStreamBroadcast(ch) : ch \in ChangedSources_DeSerialize(req.params)}

\* HandleRequestStatisticStream.
HandleRequestStatisticStream(req) ==
    UNION {StatisticStreamBroadcast(st) : st \in Statistic_DeSerialize(req.params, now)}

\* HandleRequestStreamsCommand: by the method; others are only logged.
HandleRequestStreamsCommand(req) ==
    CASE req.method = "changed_source_stream" -> HandleRequestChangedSourcesStream(req)
      [] req.method = "statistic_stream"      -> HandleRequestStatisticStream(req)
      [] OTHER -> {}

\* StreamDataReceived: one message of a pipe, also after the child was removed.
StreamDataReceived(p, failing) ==
    /\ pipe[p] # <<>>
    /\ pipe' = [pipe EXCEPT ![p] = Tail(@)]
    /\ BroadcastClients(p, HandleRequestStreamsCommand(Head(pipe[p])), failing)
    /\ UNCHANGED <<proc, childs, mem_, verified, now, written, sent, untold>>

Mutant_AnyProcessReaped(p, code, failing) ==
    /\ p \in childs
    /\ childs' = childs \ {p}
    /\ BroadcastClients(p, QuitStatusStreamBroadcast(p[1], code, 0), failing)
    /\ untold' = [c \in Clients |-> IF c \in verified \cap failing THEN untold[c] \cup {p} ELSE untold[c]]
    /\ UNCHANGED <<proc, mem_, pipe, verified, now, written, sent>>

\* ChildStatusChanged: the child is removed, then the clients are told.
ChildStatusChanged(p, code, failing) ==
    /\ p \in childs
    /\ proc[p] = "exited"
    /\ childs' = childs \ {p}
    /\ BroadcastClients(p, QuitStatusStreamBroadcast(p[1], code, 0), failing)
    /\ untold' = [c \in Clients |-> IF c \in verified \cap failing THEN untold[c] \cup {p} ELSE untold[c]]
    /\ UNCHANGED <<proc, mem_, pipe, verified, now, written, sent>>

\* A client is activated and starts to get the broadcasts.
Activate(c) ==
    /\ c \notin verified
    /\ verified' = verified \cup {c}
    /\ untold' = [untold EXCEPT ![c] = {p \in Processes : proc[p] = "exited" /\ p \notin childs}]
    /\ UNCHANGED <<proc, childs, mem_, pipe, inbox, now, written, sent>>

\* A client is closed and deleted.
ClientLost(c) ==
    /\ c \in verified
    /\ verified' = verified \ {c}
    /\ inbox' = [inbox EXCEPT ![c] = <<>>]
    /\ untold' = [untold EXCEPT ![c] = {}]
    /\ UNCHANGED <<proc, childs, mem_, pipe, now, written, sent>>

NextReports ==
    \/ \E s \in Streams : StartProcess(s)
    \/ \E p \in Processes :
        \/ CountBytes(p)
        \/ ProcessExits(p)
        \/ \E rss \in RssValues :
            \/ Checkpoint(p, rss)
            \/ \E st \in Statuses : ChangeStatus(p, st, rss)
        \/ \E url \in Urls : InputChanged(p, url)
        \/ \E failing \in SUBSET Clients :
            \/ StreamDataReceived(p, failing)
            \/ \E code \in ExitCodes : ChildStatusChanged(p, code, failing)
    \/ \E c \in Clients : Activate(c) \/ ClientLost(c)
    \/ ClockTicks

SpecReports == InitReports /\ [][NextReports]_reports_vars

-----------------------------------------------------------------------------
(* Properties.                                                             *)

\* Every variable keeps its type.
ReportsTypeOK ==
    /\ proc \in [Processes -> {"none", "running", "exited"}]
    /\ childs \in SUBSET Processes
    /\ \A p \in Processes : DOMAIN mem_[p] = DOMAIN StatisticDefaults
    /\ \A p \in Processes : pipe[p] \in Seq([type : {"notification"},
            method : {"statistic_stream", "changed_source_stream"},
            params : {pipe[p][i].params : i \in DOMAIN pipe[p]}])
    /\ verified \in SUBSET Clients
    /\ \A c \in Clients : Len(inbox[c]) <= MaxInbox
    /\ now \in 0..MaxClock
    /\ written \in 0..MaxReports
    /\ untold \in [Clients -> SUBSET Processes]

Messages_(c, method) == {i \in DOMAIN inbox[c] : inbox[c][i].msg.method = method}
Decoded(c, i) == CHOOSE st \in Statistic_DeSerialize(inbox[c][i].msg.params, now) : TRUE

\* A channel without what the encoding does not keep.
Kept(ch) == [f \in DOMAIN ch \ {"total_bytes", "last_update_time"} |-> ch[f]]
Same(a, b) ==
    /\ \A f \in DOMAIN a \ {"input_streams", "output_streams", "rss"} : a[f] = b[f]
    /\ a.rss = GetInt(b.rss)
    /\ \A f \in {"input_streams", "output_streams"} :
        /\ Len(a[f]) = Len(b[f])
        /\ \A i \in DOMAIN a[f] : Kept(a[f][i]) = Kept(b[f][i])

\* What a client decodes after two encodings and one decoding in between is a
\* statistic its process sent, in everything but the total of the bytes, the
\* time of the last update and a resident set beyond an int.
ReportsAreFaithful ==
    \A c \in Clients : \A i \in Messages_(c, "statistic_stream") :
        \E x \in sent : x.proc = inbox[c][i].about /\ Same(Decoded(c, i), x.stat)

\* The statistics of one process reach a client in the order of their
\* timestamps, those read after the exit of the process too.
ReportsInOrder ==
    \A c \in Clients : \A i, j \in Messages_(c, "statistic_stream") :
        i < j /\ inbox[c][i].about = inbox[c][j].about
            => Decoded(c, i).timestamp <= Decoded(c, j).timestamp

\* A client can tell the processes of a stream apart: between a message about
\* one and the first about a later one it was told the exit of the first,
\* unless it came too late for that or could not be written to. Statistics of
\* the first may still come even later.
RestartIsAnnounced ==
    \A c \in verified : \A i, j \in DOMAIN inbox[c] :
        LET p == inbox[c][i].about
            q == inbox[c][j].about
        IN i < j /\ p[1] = q[1] /\ p[2] < q[2] /\ p \notin untold[c]
           => \E k \in 1..(j - 1) : /\ inbox[c][k].about = p
                                    /\ inbox[c][k].msg.method = "quit_status_stream"

\* The exit of a process is told once, never while it runs.
QuitToldOnce ==
    \A c \in Clients : \A i, j \in Messages_(c, "quit_status_stream") :
        /\ proc[inbox[c][i].about] = "exited"
        /\ inbox[c][i].about = inbox[c][j].about => i = j

\* Clients get what the processes sent, in its order, although statistics are
\* encoded twice and some are read after the exit of their process.
StatisticsArrive == ReportsTypeOK /\ ReportsAreFaithful /\ ReportsInOrder

\* Exits are told so that a client can tell the runs of a stream apart.
ExitsAreTold == RestartIsAnnounced /\ QuitToldOnce
=============================================================================
