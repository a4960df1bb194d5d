------------------------------- MODULE Requests -------------------------------
(***************************************************************************)
(* The requests of the clients and the answers of the daemon: what         *)
(* DaemonDataReceived reads from a connection, the handler each method     *)
(* has, the answer it writes and the pings the daemon sends by itself.     *)
(* The processes behind the stream requests are module SlaveDaemon; here a *)
(* stream is registered or not, and its pipe can be written or not.        *)
(***************************************************************************)
EXTENDS Messages

CONSTANTS
    Clients,       \* connections
    LocalClients,  \* those from the local host
    Streams,       \* stream ids
    Directories_,  \* directories a client can name
    Usable,        \* those that exist or can be made
    AskedMethods,  \* bound: the methods clients use
    MaxRequests,   \* bound: requests of all clients
    MaxPings       \* bound: pings of the daemon

StreamMethods  == {"start_stream", "stop_stream", "restart_stream",
                   "get_log_stream", "get_pipeline_stream"}
ServiceMethods == {"prepare_service", "sync_service", "ping_service", "get_log_service"}
Methods        == StreamMethods \cup ServiceMethods
                    \cup {"stop_service", "activate_request", "unknown"}

ASSUME RequestsAssumption ==
    /\ LocalClients \subseteq Clients
    /\ Usable \subseteq Directories_
    /\ AskedMethods \subseteq Methods
    /\ MaxRequests \in Nat /\ MaxPings \in Nat

VARIABLES
    client,      \* state of each connection
    broken,      \* connections that cannot be written to any more
    wire,        \* messages a client wrote and the daemon has not read
    inbox,       \* messages the daemon wrote to a client
    asked,       \* history: the requests of a client, by id
    asks,        \* requests of all clients
    pings,       \* NextRequestID of the daemon for each client
    pending,     \* ids of the daemon's requests to a client without an answer
    ponged,      \* pings a client has answered
    childs,      \* streams that are registered
    writable,    \* streams whose pipe client is set and alive
    roots,       \* directories of the three http servers
    monitored,   \* folders_for_monitor_
    reported,    \* history: the last answer to prepare_service
    quit_timer   \* quit_cleanup_timer_ is set

conn_vars   == <<client, broken, asked, asks, pings, pending, ponged>>
effect_vars == <<childs, writable, roots, monitored, reported, quit_timer>>
vars == <<conn_vars, wire, inbox, effect_vars>>

StreamParams == {Json([id |-> s]) : s \in Streams} \cup {Json([x \in {} |-> ""])}

\* What a client can send as the params of a method.
ParamsOf(method) ==
    {NoParams, Garbage} \cup
    CASE method = "start_stream" -> {Json([id |-> s, config |-> "valid"]) : s \in Streams}
                                      \cup {Json([id |-> "s1", config |-> "refused"]), Json([id |-> "s1"])}
      [] method \in {"stop_stream", "restart_stream"} -> StreamParams
      [] method \in {"get_log_stream", "get_pipeline_stream"} ->
            {Json([id |-> "s1", feedback_directory |-> "d1", path |-> u]) : u \in {"http", "https"}}
                \cup {Json([id |-> "s1"])}
      [] method = "prepare_service" ->
            {Json([hls_directory |-> h, cods_directory |-> c]) : h, c \in Directories_}
                \cup {Json([vods_directory |-> v]) : v \in Directories_}
      [] method = "activate_request" -> {Json([license |-> l]) : l \in {"valid", "invalid"}}
                                           \cup {Json([x \in {} |-> ""])}
      [] method = "get_log_service" -> {Json([path |-> "http"]), Json([x \in {} |-> ""])}
      [] OTHER -> {Json([x \in {} |-> ""])}

Init ==
    /\ client = [c \in Clients |-> "absent"]
    /\ broken = {}
    /\ wire = [c \in Clients |-> <<>>]
    /\ inbox = [c \in Clients |-> <<>>]
    /\ asked = [c \in Clients |-> <<>>]
    /\ asks = 0
    /\ pings = [c \in Clients |-> 0]
    /\ pending = [c \in Clients |-> {}]
    /\ ponged = [c \in Clients |-> {}]
    /\ childs = {}
    /\ writable = {}
    /\ roots = [h \in {"http", "vods", "cods"} |-> ""]
    /\ monitored = <<>>
    /\ reported = <<>>
    /\ quit_timer = FALSE

-----------------------------------------------------------------------------
(* The clients.                                                            *)

Connect(c) ==
    /\ client[c] = "absent"
    /\ asked[c] = <<>>
    /\ client' = [client EXCEPT ![c] = "connected"]
    /\ UNCHANGED <<broken, asked, asks, pings, pending, ponged, wire, inbox, effect_vars>>

\* A request is written, with the next id of the client.
Ask(c, method, params) ==
    LET req == Request(Len(asked[c]) + 1, method, params) IN
    /\ client[c] # "absent"
    /\ asks < MaxRequests
    /\ asks' = asks + 1
    /\ asked' = [asked EXCEPT ![c] = Append(@, req)]
    /\ wire' = [wire EXCEPT ![c] = Append(@, req)]
    /\ UNCHANGED <<client, broken, pings, pending, ponged, inbox, effect_vars>>

\* A client answers a ping of the daemon.
Pong(c) ==
    /\ client[c] # "absent"
    /\ \E i \in DOMAIN inbox[c] :
        /\ inbox[c][i].type = "request"
        /\ inbox[c][i].id \notin ponged[c]
        /\ ponged' = [ponged EXCEPT ![c] = @ \cup {inbox[c][i].id}]
        /\ wire' = [wire EXCEPT ![c] = Append(@, PingResponse(inbox[c][i].id))]
    /\ UNCHANGED <<client, broken, asked, asks, pings, pending, inbox, effect_vars>>

LicenseExpires(c) ==
    /\ client[c] = "verified"
    /\ client' = [client EXCEPT ![c] = "expired"]
    /\ UNCHANGED <<broken, asked, asks, pings, pending, ponged, wire, inbox, effect_vars>>

\* The connection breaks: from now on every write to it fails.
Break(c) ==
    /\ client[c] # "absent"
    /\ broken' = broken \cup {c}
    /\ UNCHANGED <<client, asked, asks, pings, pending, ponged, wire, inbox, effect_vars>>

-----------------------------------------------------------------------------
(* The daemon.                                                             *)

IsVerified(c)     == client[c] \in {"verified", "expired"}
HaveFullAccess(c) == client[c] = "verified"

\* The first check of each handler.
Allowed(c, method) ==
    CASE method \in StreamMethods  -> HaveFullAccess(c)
      [] method \in ServiceMethods -> IsVerified(c)
      [] method = "stop_service"   -> IsVerified(c) \/ c \in LocalClients
      [] method = "unknown"        -> FALSE
      [] OTHER                     -> TRUE

\* The params each handler decodes; the empty set is an error.
Decoded(req) ==
    IF req.params.kind # "json" THEN {}
    ELSE LET json == req.params.json IN
         CASE req.method = "start_stream" -> StartInfo_DeSerialize(json)
           [] req.method \in {"stop_stream", "restart_stream"} -> {[id |-> s] : s \in StreamInfo_DeSerialize(json)}
           [] req.method \in {"get_log_stream", "get_pipeline_stream"} -> GetLogStream_DeSerialize(json)
           [] req.method = "get_log_service" -> GetLogService_DeSerialize(json)
           [] req.method = "prepare_service" -> {Prepare_DeSerialize(json)}
           [] req.method = "activate_request" -> IF Has(json, "license") THEN {json} ELSE {}
           [] OTHER -> {json}

\* Whether the answer is a success.
Succeeds(method, info) ==
    CASE method = "start_stream"   -> info.config = "valid" /\ info.id \notin childs
      [] method = "stop_stream"    -> info.id \in childs \cap writable
      [] method = "restart_stream" -> info.id \in childs
      [] method = "stop_service"   -> ~quit_timer
      [] method = "activate_request" -> info.license = "valid"
      [] OTHER -> TRUE

Mutant_CodsServesVods(info) ==
    [http |-> info["hls_directory"], vods |-> info["vods_directory"], cods |-> info["vods_directory"]]

\* The directories HandleRequestClientPrepareService gives to the servers.
ServedRoots(info) ==
    [http |-> info["hls_directory"], vods |-> info["vods_directory"], cods |-> info["cods_directory"]]

\* What else the handler changes.
Effect(method, info, ok) ==
    CASE method = "start_stream" /\ ok ->
            /\ childs' = childs \cup {info.id}
            /\ writable' = writable \cup {info.id}
            /\ UNCHANGED <<roots, monitored, reported, quit_timer>>
      [] method = "prepare_service" ->
            /\ roots' = ServedRoots(info)
            /\ monitored' = <<info["hls_directory"], info["vods_directory"],
                              info["cods_directory"], info["timeshifts_directory"]>>
            /\ reported' = DirectoryResponse(info, Usable)
            /\ UNCHANGED <<childs, writable, quit_timer>>
      [] method = "stop_service" /\ ok ->
            /\ quit_timer' = TRUE
            /\ UNCHANGED <<childs, writable, roots, monitored, reported>>
      [] OTHER -> UNCHANGED effect_vars

\* Every answer goes through WriteResponse; an error of it is only logged.
Write(c, msg) ==
    inbox' = IF c \in broken THEN inbox ELSE [inbox EXCEPT ![c] = Append(@, msg)]

Mutant_ServiceAnswerNewId(c, req, ok, result) ==
    Write(c, ServiceResponse(pings[c] + 1, req.method, ok, result))

Mutant_SyncNotAnswered(c, req, ok, result) ==
    IF req.method = "sync_service" THEN UNCHANGED inbox
    ELSE Write(c, ServiceResponse(req.id, req.method, ok, result))

\* StopSuccess, StopFail, Pong, ActivateSuccess, ActivateFail,
\* StateServiceSuccess, GetLogServiceSuccess and SyncServiceSuccess.
WriteServiceAnswer(c, req, ok, result) ==
    IF req.method = "ping_service" THEN Write(c, PingResponse(req.id))
    ELSE Write(c, ServiceResponse(req.id, req.method, ok, result))

\* GetLogStreamSuccess, StartStreamSuccess, StartStreamFail and their kind.
WriteStreamAnswer(c, req, ok) == Write(c, StreamResponse(req.id, ok))

\* HandleRequestServiceCommand: a client that may not, params that are missing
\* or cannot be decoded and an unknown method have no answer, except that of
\* an undecodable activation.
HandleRequest(c) ==
    LET req == Head(wire[c]) IN
    /\ client[c] # "absent"
    /\ wire[c] # <<>>
    /\ req.type = "request"
    /\ wire' = [wire EXCEPT ![c] = Tail(@)]
    /\ IF Allowed(c, req.method) /\ Decoded(req) # {}
       THEN \E info \in Decoded(req) :
            LET ok == Succeeds(req.method, info)
                result == IF req.method = "prepare_service" THEN DirectoryResponse(info, Usable)
                          ELSE <<"stats">>
            IN /\ Effect(req.method, info, ok)
               /\ IF req.method \in StreamMethods THEN WriteStreamAnswer(c, req, ok)
                  ELSE WriteServiceAnswer(c, req, ok, result)
               /\ client' = IF req.method = "activate_request" /\ ok /\ c \notin broken
                            THEN [client EXCEPT ![c] = "verified"] ELSE client
       ELSE /\ UNCHANGED <<client, effect_vars>>
            /\ IF req.method = "activate_request" /\ req.params.kind = "json"
               THEN WriteServiceAnswer(c, req, FALSE, <<>>) ELSE UNCHANGED inbox
    /\ UNCHANGED <<broken, asked, asks, pings, pending, ponged>>

\* HandleResponceServiceCommand: the request with the id is forgotten.
HandleResponse(c) ==
    /\ client[c] # "absent"
    /\ wire[c] # <<>>
    /\ Head(wire[c]).type = "response"
    /\ wire' = [wire EXCEPT ![c] = Tail(@)]
    /\ pending' = IF IsVerified(c) THEN [pending EXCEPT ![c] = @ \ {Head(wire[c]).id}] ELSE pending
    /\ UNCHANGED <<client, broken, asked, asks, pings, ponged, inbox, effect_vars>>

\* A client is closed and deleted.
Delete(c) ==
    /\ client' = [client EXCEPT ![c] = "absent"]
    /\ broken' = broken \ {c}
    /\ wire' = [wire EXCEPT ![c] = <<>>]
    /\ pending' = [pending EXCEPT ![c] = {}]

\* ping_client_timer_, for one verified client: the ping is written and
\* remembered, or the client is deleted.
PingClient(c) ==
    /\ IsVerified(c)
    /\ pings[c] < MaxPings
    /\ pings' = [pings EXCEPT ![c] = @ + 1]
    /\ IF c \in broken
       THEN Delete(c) /\ UNCHANGED inbox
       ELSE /\ Write(c, ServiceRequest(pings[c], "ping_client"))
            /\ pending' = [pending EXCEPT ![c] = @ \cup {pings[c]}]
            /\ UNCHANGED <<client, broken, wire>>
    /\ UNCHANGED <<asked, asks, ponged, effect_vars>>

\* DataReceived with a read or parse error.
ClientLost(c) ==
    /\ client[c] # "absent"
    /\ Delete(c)
    /\ UNCHANGED <<asked, asks, pings, ponged, inbox, effect_vars>>

\* The pipe of a stream ends before its exit is seen, and the exit.
PipeEnds(s)  == s \in writable /\ writable' = writable \ {s}
                /\ UNCHANGED <<conn_vars, wire, inbox, childs, roots, monitored, reported, quit_timer>>
ChildEnds(s) == s \in childs /\ childs' = childs \ {s} /\ writable' = writable \ {s}
                /\ UNCHANGED <<conn_vars, wire, inbox, roots, monitored, reported, quit_timer>>

Next ==
    \/ \E c \in Clients :
        \/ Connect(c) \/ Pong(c) \/ LicenseExpires(c) \/ Break(c)
        \/ \E m \in AskedMethods : \E ps \in ParamsOf(m) : Ask(c, m, ps)
        \/ HandleRequest(c) \/ HandleResponse(c) \/ PingClient(c) \/ ClientLost(c)
    \/ \E s \in Streams : PipeEnds(s) \/ ChildEnds(s)

\* The loop reads what has arrived.
Fairness == \A c \in Clients : WF_vars(HandleRequest(c)) /\ WF_vars(HandleResponse(c))

Spec == Init /\ [][Next]_vars /\ Fairness

-----------------------------------------------------------------------------
(* Properties.                                                             *)

\* Every variable keeps its type.
TypeOK ==
    /\ client \in [Clients -> {"absent", "connected", "verified", "expired"}]
    /\ broken \in SUBSET Clients
    /\ \A c \in Clients : \A i \in DOMAIN wire[c] : wire[c][i].type \in {"request", "response"}
    /\ asks \in 0..MaxRequests
    /\ pings \in [Clients -> 0..MaxPings]
    /\ pending \in [Clients -> SUBSET (0..MaxPings)]
    /\ childs \in SUBSET Streams
    /\ writable \in SUBSET childs
    /\ DOMAIN roots = {"http", "vods", "cods"}
    /\ quit_timer \in BOOLEAN

Answers(c) == {i \in DOMAIN inbox[c] : inbox[c][i].type = "response"}

\* An answer belongs to a request of this client that was not answered before,
\* and the answers come in the order of the requests, whatever pings with the
\* same ids are written in between.
AnswersMatchRequests ==
    \A c \in Clients : \A i, j \in Answers(c) :
        /\ inbox[c][i].id \in DOMAIN asked[c]
        /\ i < j => inbox[c][i].id < inbox[c][j].id

\* What the daemon still waits for is exactly the pings it wrote and has read
\* no answer to: neither are answered ones kept nor open ones forgotten.
PendingArePings ==
    \A c \in Clients :
        LET written == {inbox[c][i].id : i \in DOMAIN inbox[c] \ Answers(c)}
            unread  == {wire[c][i].id : i \in {k \in DOMAIN wire[c] : wire[c][k].type = "response"}}
        IN client[c] # "absent" => pending[c] = (written \ ponged[c]) \cup unread

\* The directories the file servers use and those whose old files are removed
\* are the ones reported to the last client that prepared the service, each
\* under its own key, also when two clients prepare in turn.
ServedAreReported ==
    LET Path(key) == (CHOOSE i \in DOMAIN reported : reported[i].key = key)
    IN reported # <<>> =>
        /\ roots.http = reported[Path("hls_directory")].path
        /\ roots.vods = reported[Path("vods_directory")].path
        /\ roots.cods = reported[Path("cods_directory")].path
        /\ ToSet(monitored) = {roots.http, roots.vods, roots.cods,
                               reported[Path("timeshifts_directory")].path}

\* At most one request to stop the service is answered with success, from
\* whichever clients they come.
OneStopSucceeds ==
    Cardinality({x \in UNION {{<<c, i>> : i \in Answers(c)} : c \in Clients} :
        /\ inbox[x[1]][x[2]].ok
        /\ asked[x[1]][inbox[x[1]][x[2]].id].method = "stop_service"}) <= 1

Answered(c, id) == \E i \in Answers(c) : inbox[c][i].id = id

\* A decodable request about the service from a verified client, and every
\* decodable activation, is answered, unless the connection fails.
RequestsAreAnswered ==
    \A c \in Clients : \A id \in 1..MaxRequests :
        (/\ id \in DOMAIN asked[c]
         /\ Decoded(asked[c][id]) # {}
         /\ \/ asked[c][id].method = "activate_request"
            \/ asked[c][id].method \in ServiceMethods \cup {"stop_service"} /\ IsVerified(c)
         /\ \E k \in DOMAIN wire[c] : wire[c][k] = asked[c][id])
        ~> (Answered(c, id) \/ c \in broken \/ client[c] = "absent")

\* Requests and answers of both sides stay matched: every answer is to an open
\* request, the daemon waits for exactly its unanswered pings, and only one stop
\* of the service succeeds.
AnswersAreMatched ==
    /\ TypeOK
    /\ AnswersMatchRequests
    /\ PendingArePings
    /\ OneStopSucceeds
=============================================================================
