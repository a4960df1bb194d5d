------------------------------- MODULE Messages -------------------------------
(***************************************************************************)
(* The messages between the stream processes, the daemon and its clients:  *)
(* what each class of src/src/stream_commands/commands_info and            *)
(* src/src/server/daemon/commands_info writes into a json object and what  *)
(* it reads back, and the notifications and answers made of them.          *)
(*                                                                         *)
(* A json object is a record; the fields of a class have the names of the  *)
(* json fields. DoDeSerialize is an operator whose value is the set of the *)
(* decoded value, empty when it answers an error.                          *)
(***************************************************************************)
EXTENDS Integers, Sequences, FiniteSets, SequencesExt

CONSTANTS
    Int32Max      \* the largest int of json_object_get_int

ASSUME Int32Assumption == Int32Max \in Nat \ {0}

\* Marks the error outcome of an optional value.
Nothing == {}

Has(json, field) == field \in DOMAIN json

\* json_object_get_int: a larger number becomes the largest int.
GetInt(n) == IF n > Int32Max THEN Int32Max ELSE n

\* The optional fields of a class: those of the object, else of the default.
Optional(json, default) ==
    [f \in DOMAIN default |-> IF Has(json, f) THEN json[f] ELSE default[f]]

-----------------------------------------------------------------------------
(* Statistics of a stream.                                                 *)

ChannelStats(id) ==
    [id |-> id, last_update_time |-> 0, prev_total_bytes |-> 0,
     total_bytes |-> 0, bps |-> 0, dbps |-> 0]

\* ChannelStatsInfo::SerializeFields: the total is read from the checkpoint.
ChannelStats_Serialize(st) == [st EXCEPT !.total_bytes = st.prev_total_bytes]

\* ChannelStatsInfo::DoDeSerialize. SetTotalBytes is called after
\* SetLastUpdateTime and sets the time again, to the reader's clock.
ChannelStats_DeSerialize(json, now) ==
    IF ~Has(json, "id") THEN Nothing
    ELSE LET read == Optional(json, ChannelStats(json.id))
         IN {[read EXCEPT !.last_update_time =
                 IF Has(json, "total_bytes") THEN now ELSE @]}

\* The decoded channels of an array, those with errors left out.
Channels_DeSerialize(array, now) ==
    FlattenSeq([i \in 1..Len(array) |-> SetToSeq(ChannelStats_DeSerialize(array[i], now))])

\* StatisticInfo::SerializeFields. A stream without an id has no statistics.
Statistic_Serialize(stat) ==
    IF stat.id = "" THEN Nothing
    ELSE {[stat EXCEPT
             !.input_streams  = [i \in DOMAIN @ |-> ChannelStats_Serialize(@[i])],
             !.output_streams = [i \in DOMAIN @ |-> ChannelStats_Serialize(@[i])]]}

StatisticDefaults ==
    [id |-> "", type |-> 0, input_streams |-> <<>>, output_streams |-> <<>>,
     loop_start_time |-> 0, rss |-> 0, cpu |-> 0, status |-> "NEW",
     restarts |-> 0, start_time |-> 0, timestamp |-> 0, idle_time |-> 0]

Mutant_InputReadTwice(json, now) ==
    IF ~Has(json, "id") \/ ~Has(json, "type") THEN Nothing
    ELSE {[Optional(json, StatisticDefaults) EXCEPT
             !.input_streams  = Channels_DeSerialize(@, now),
             !.output_streams = Channels_DeSerialize(json.input_streams, now),
             !.rss            = GetInt(@)]}

\* StatisticInfo::DoDeSerialize: id and type are needed, the rest has
\* defaults; rss is read as an int.
Statistic_DeSerialize(json, now) ==
    IF ~Has(json, "id") \/ ~Has(json, "type") THEN Nothing
    ELSE {[Optional(json, StatisticDefaults) EXCEPT
             !.input_streams  = Channels_DeSerialize(@, now),
             !.output_streams = Channels_DeSerialize(@, now),
             !.rss            = GetInt(@)]}

-----------------------------------------------------------------------------
(* Other messages about one stream.                                        *)

\* stream::StreamInfo, the base of the requests that name a stream.
StreamInfo_Serialize(id) == [id |-> id]
StreamInfo_DeSerialize(json) == IF Has(json, "id") THEN {json.id} ELSE Nothing

\* ChangedSouresInfo: the url is optional when read.
ChangedSources_Serialize(id, url) == [id |-> id, url |-> url]
ChangedSources_DeSerialize(json) ==
    IF Has(json, "id") THEN {Optional(json, [id |-> "", url |-> "none"])} ELSE Nothing

\* stream::QuitStatusInfo: everything is needed.
QuitStatus_Serialize(id, exit_status, signal) ==
    [id |-> id, signal |-> signal, exit_status |-> exit_status]
QuitStatus_DeSerialize(json) ==
    IF \A f \in {"id", "signal", "exit_status"} : Has(json, f)
    THEN {[json EXCEPT !.signal = GetInt(@), !.exit_status = GetInt(@)]}
    ELSE Nothing

\* stream::StartInfo: the config is needed.
StartInfo_DeSerialize(json) == IF Has(json, "config") THEN {json} ELSE Nothing

\* stream::GetLogInfo, of the log and the pipeline requests.
GetLogStream_DeSerialize(json) ==
    IF Has(json, "id") /\ Has(json, "feedback_directory")
    THEN {Optional(json, [id |-> "", feedback_directory |-> "", path |-> "none"])}
    ELSE Nothing

\* service::GetLogInfo.
GetLogService_DeSerialize(json) == {Optional(json, [path |-> "none"])}

-----------------------------------------------------------------------------
(* Statistics of the service.                                              *)

OnlineUsersDefaults == [daemon |-> 0, http |-> 0, vods |-> 0, cods |-> 0]

\* service::OnlineUsers.
OnlineUsers_Serialize(users) == users
OnlineUsers_DeSerialize(json) == Optional(json, OnlineUsersDefaults)

ServerInfoDefaults ==
    [cpu |-> 0, gpu |-> 0, load_average |-> "", memory_total |-> 0,
     memory_free |-> 0, hdd_total |-> 0, hdd_free |-> 0, bandwidth_in |-> 0,
     bandwidth_out |-> 0, uptime |-> 0, timestamp |-> 0,
     online_users |-> OnlineUsersDefaults]

\* service::ServerInfo.
ServerInfo_Serialize(info) == [info EXCEPT !.online_users = OnlineUsers_Serialize(@)]
ServerInfo_DeSerialize(json) ==
    [Optional(json, ServerInfoDefaults) EXCEPT !.online_users = OnlineUsers_DeSerialize(@)]

FullServiceDefaults ==
    [http_host |-> "none", vods_host |-> "none", cods_host |-> "none",
     expiration_time |-> 0, version |-> "own", os |-> "own"]

\* service::FullServiceInfo: a ServerInfo, the hosts, the license and the
\* system. A host that does not parse keeps its default.
FullService_Serialize(full, info) ==
    [f \in DOMAIN full \cup DOMAIN info |->
        IF f \in DOMAIN full THEN full[f] ELSE ServerInfo_Serialize(info)[f]]
FullService_DeSerialize(json) ==
    LET base == ServerInfo_DeSerialize(json)
        own  == Optional(json, FullServiceDefaults)
        Host(h) == IF h = "unparsable" THEN "none" ELSE h
        read == [own EXCEPT !.http_host = Host(@), !.vods_host = Host(@), !.cods_host = Host(@)]
    IN [f \in DOMAIN base \cup DOMAIN read |-> IF f \in DOMAIN read THEN read[f] ELSE base[f]]

-----------------------------------------------------------------------------
(* Directories of the service.                                             *)

DirectoryKeys ==
    <<"feedback_directory", "timeshifts_directory", "hls_directory",
      "playlists_directory", "dvb_directory", "capture_card_directory",
      "vods_in_directory", "vods_directory", "cods_directory">>

\* service::PrepareInfo: a directory that is not given is the empty string.
Prepare_Serialize(info) == [k \in ToSet(DirectoryKeys) |-> info[k]]
Prepare_DeSerialize(json) == Optional(json, [k \in ToSet(DirectoryKeys) |-> ""])

\* service::DirectoryState: the directory is made if need be.
DirectoryState(key, dir, usable) ==
    [key |-> key, path |-> dir, valid |-> dir # "" /\ dir \in usable]

\* service::Directories, in this order; the content is that of vods_in.
Directories(info, usable) ==
    [i \in DOMAIN DirectoryKeys |-> DirectoryState(DirectoryKeys[i], info[DirectoryKeys[i]], usable)]

\* MakeDirectoryStateResponce: a path with the result or an error; a valid
\* directory also has a content.
DirectoryStateResponse(state) ==
    IF state.valid THEN [key |-> state.key, path |-> state.path, result |-> "OK", content |-> "listed"]
    ELSE [key |-> state.key, path |-> state.path, error |-> "reason"]

\* MakeDirectoryResponce: one entry for each directory.
DirectoryResponse(info, usable) ==
    [i \in DOMAIN DirectoryKeys |-> DirectoryStateResponse(Directories(info, usable)[i])]

-----------------------------------------------------------------------------
(* Json rpc.                                                               *)

\* request_t::MakeNotification: a request without an id.
Notification(method, params) == [type |-> "notification", method |-> method, params |-> params]
Request(id, method, params)  == [type |-> "request", id |-> id, method |-> method, params |-> params]
Response(id, ok, result) == [type |-> "response", id |-> id, ok |-> ok, result |-> result]

\* The params of a request: none, text that is no json, or an object.
NoParams   == [kind |-> "absent"]
Garbage    == [kind |-> "garbage"]
Json(json) == [kind |-> "json", json |-> json]

\* The requests the daemon and its tools write (commands_factory.cpp).
ServiceRequest(id, method) == Request(id, method, Json([x \in {} |-> 0]))

\* The answers about the service. Activation and the state of the directories
\* have a result; an error has its text.
ServiceResponse(id, method, ok, result) ==
    Response(id, ok, IF ok /\ method \in {"activate_request", "prepare_service"}
                     THEN result ELSE <<>>)

\* The answers about a stream: success or an error.
StreamResponse(id, ok) == Response(id, ok, <<>>)

\* PingServiceResponce.
PingResponse(id) == Response(id, TRUE, <<>>)

\* What a stream process writes: StatisticStreamBroadcast and
\* ChangedSourcesStreamBroadcast of src/src/stream/commands_factory.cpp.
StreamStatistic(stat) == {Notification("statistic_stream", j) : j \in Statistic_Serialize(stat)}
StreamChangedSources(id, url) ==
    {Notification("changed_source_stream", ChangedSources_Serialize(id, url))}

\* What the daemon writes to its clients: the broadcasts of
\* src/src/server/daemon/commands.cpp.
StatisticStreamBroadcast(stat) ==
    {Notification("statistic_stream", j) : j \in Statistic_Serialize(stat)}
ChangedSourcesStreamBroadcast(ch) ==
    {Notification("changed_source_stream", ChangedSources_Serialize(ch.id, ch.url))}
StatisticServiceBroadcast(stats) == {Notification("statistic_service", stats)}
QuitStatusStreamBroadcast(id, exit_status, signal) ==
    {Notification("quit_status_stream", QuitStatus_Serialize(id, exit_status, signal))}
=============================================================================
