---------------------------- MODULE StreamConfig -----------------------------
(***************************************************************************)
(* The way of a configuration from the request of a client to the runs of  *)
(* a stream: the daemon parses, validates and completes it (a start        *)
(* request, or a line of a synchronisation that an http request starts     *)
(* later), the forked process reads it again, makes a Config of it, and    *)
(* every run of the stream gets a copy with freshly generated links.       *)
(***************************************************************************)
EXTENDS StreamOptions, FiniteSets

CONSTANTS
    Requests,   \* the JSON values clients send as a configuration
    LinkPaths,  \* config_.streamlink_path of the daemon: {""} is none
    MaxRuns     \* bound: runs of the stream that are looked at

\* A JSON value has one kind, and the integers are those of Int.
IsValue(v) == /\ v = [k \in {Kind(v)} |-> Val(v)]
              /\ Kind(v) = "int" => Val(v) \in Int

ASSUME RequestsAssumption ==
    \A r \in Requests : Kind(r) = "hash" => \A k \in DOMAIN Val(r) : IsValue(Val(r)[k])
ASSUME LinkPathsAssumption == LinkPaths # {} /\ LinkPaths \subseteq STRING
ASSUME MaxRunsAssumption == MaxRuns \in Nat

VARIABLES
    request,  \* the JSON value that was sent
    via,      \* "start": client start request, "sync": line of a synchronisation
    stage,    \* how far the configuration has come
    config,   \* the common::HashValue of it
    warned,   \* the options the log has warned of
    dinfo,    \* the StreamInfo the daemon keeps for the child
    pinfo,    \* the StreamInfo of the process
    conf,     \* config_ of the StreamController
    tinfo,    \* timeshift_info_ of the StreamController
    copy,     \* config_copy of the current run
    runs,     \* runs so far
    misread   \* has Exec read a chunk duration from a Config that has none

config_vars == <<request, via, stage, config, warned, dinfo, pinfo, conf, tinfo, copy, runs, misread>>

Nothing == [none |-> TRUE]
EmptyConfig == [k \in {} |-> Null]

-----------------------------------------------------------------------------
(* Urls.  InputUri::MakeUrl and OutputUri::MakeUrl are fastotv's: they take *)
(* a hash with a "uri".                                                     *)
MakeUrl(h) ==
    [uri |-> Val(h.uri), run |-> 0,    \* run: the run the link was generated for
     streamlink |-> "streamlink" \in DOMAIN h /\ h.streamlink = Bool(TRUE),
     http_root |-> IF "http_root" \in DOMAIN h THEN Val(h.http_root) ELSE ""]
IsUrl(v) == Kind(v) = "hash" /\ "uri" \in DOMAIN Val(v)
IsHttp(o) == o.http_root # ""    \* only http outputs have a root here

\* ConvertFromString: what is not a url is left out.
ConvertFromString(l) ==
    LET urls == SelectSeq(l, IsUrl) IN [i \in DOMAIN urls |-> MakeUrl(Val(urls[i]))]

CanRead(c, k) == Reads(c, k, "list")
read_input(c) == ConvertFromString(Val(c["input"]))
read_output(c) == ConvertFromString(Val(c["output"]))

TypeOf(c) == TypeNames[Val(c.type) + 1]
GetSid(c) == IF Reads(c, "id", "string") THEN Val(c.id) ELSE ""

-----------------------------------------------------------------------------
(* The daemon. *)

\* ValidateConfig runs over all options: FATAL refuses the configuration,
\* INVALID and an unknown option are a line in the log.
FatalIn(c) == \E k \in DOMAIN c : Validity(k, c[k]) = {"FATAL"}
Warnings(c) ==
    {W \in SUBSET {k \in DOMAIN c : Validity(k, c[k]) \cap {"INVALID", "UNKNOWN"} # {}} :
        \A k \in DOMAIN c : Validity(k, c[k]) \subseteq {"INVALID", "UNKNOWN"} => k \in W}

CreateAndCheckDir(d, bad) == d \notin bad

\* The folder of a recorder, or of each http output of another stream.
FoldersOk(c, bad) ==
    IF TypeOf(c) \in {"TIMESHIFT_RECORDER", "CATCHUP"}
    THEN Reads(c, "timeshift_dir", "string") /\ CreateAndCheckDir(Val(c["timeshift_dir"]), bad)
    ELSE /\ CanRead(c, "output")
         /\ \A i \in DOMAIN read_output(c) :
               LET o == read_output(c)[i] IN IsHttp(o) => CreateAndCheckDir(o.http_root, bad)

\* MakeStreamInfo succeeds (bad: the folders that cannot be made or used).
StreamInfoOk(c, check_folders, bad) ==
    /\ Reads(c, "id", "string")
    /\ Reads(c, "type", "int")
    /\ TypeOf(c) \notin {"PROXY", "VOD_PROXY"}
    /\ Reads(c, "feedback_directory", "string")
    /\ CreateAndCheckDir(Val(c["feedback_directory"]), bad)
    /\ CanRead(c, "input")
    /\ check_folders => FoldersOk(c, bad)

\* A plausible bug: the folders and the outputs are read for a recorder only.
Mutant_OutputsForgotten(c, check_folders) ==
    [id |-> Val(c.id), type |-> TypeOf(c), input |-> read_input(c), output |-> <<>>]

MakeStreamInfo(c, check_folders) ==
    [id |-> Val(c.id), type |-> TypeOf(c), input |-> read_input(c),
     output |-> IF ~check_folders \/ TypeOf(c) \in {"TIMESHIFT_RECORDER", "CATCHUP"}
                THEN <<>> ELSE read_output(c)]

\* The folders a configuration names, and the failures: none or one of them.
Folders(c) == {Val(c[k]) : k \in {k \in {"feedback_directory", "timeshift_dir"} : Reads(c, k, "string")}}
                 \cup {"/www"}
DirFailures(c) == {{}} \cup {{d} : d \in Folders(c)}

InitConfig ==
    /\ request \in Requests
    /\ via \in {"start", "sync"}
    /\ stage = "received"
    /\ config = EmptyConfig /\ warned = {} /\ dinfo = Nothing /\ pinfo = Nothing
    /\ conf = Nothing /\ tinfo = Nothing /\ copy = Nothing /\ runs = 0 /\ misread = FALSE

\* StartInfo and SyncInfo: MakeConfigFromJson wants an object.
MakeConfigFromJson ==
    /\ stage = "received"
    /\ IF Kind(request) = "hash"
       THEN config' = Val(MakeValueFromJson(request)) /\ stage' = (IF via = "sync" THEN "line" ELSE "requested")
       ELSE config' = config /\ stage' = "refused"
    /\ UNCHANGED <<request, via, warned, dinfo, pinfo, conf, tinfo, copy, runs, misread>>

\* AddStreamLine: a line of a synchronisation that is a vod or a cod with an
\* http output becomes a link; a vod is to keep its files.
AddStreamLine ==
    /\ stage = "line"
    /\ \E bad \in DirFailures(config) :
        LET good == /\ ~FatalIn(config)
                    /\ StreamInfoOk(config, FALSE, bad)
                    /\ TypeOf(config) \in {"VOD_ENCODE", "VOD_RELAY", "COD_ENCODE", "COD_RELAY"}
                    /\ CanRead(config, "output")
                    /\ \E i \in DOMAIN read_output(config) : IsHttp(read_output(config)[i])
        IN /\ stage' = IF good THEN "linked" ELSE "ignored"
           /\ config' = IF good /\ TypeOf(config) \in {"VOD_ENCODE", "VOD_RELAY"}
                        THEN Insert(config, "cleanup_ts", Bool(FALSE)) ELSE config
    /\ UNCHANGED <<request, via, warned, dinfo, pinfo, conf, tinfo, copy, runs, misread>>

\* An http request for the link of the vod or cod (process_slave_wrapper.cpp).
RequestLink ==
    /\ stage = "linked"
    /\ stage' = "requested"
    /\ UNCHANGED <<request, via, config, warned, dinfo, pinfo, conf, tinfo, copy, runs, misread>>

\* CreateChildStream, the child not being there, and the fork.
CreateChildStream ==
    /\ stage = "requested"
    /\ \E bad \in DirFailures(config), W \in Warnings(config), path \in LinkPaths :
        IF FatalIn(config) \/ ~StreamInfoOk(config, TRUE, bad)
        THEN /\ stage' = "refused"
             /\ UNCHANGED <<config, warned, dinfo>>
        ELSE /\ stage' = "forked"
             /\ warned' = W
             /\ dinfo' = MakeStreamInfo(config, TRUE)
             /\ config' = Insert(config, "stream_link_path", Str(path))
    /\ UNCHANGED <<request, via, pinfo, conf, tinfo, copy, runs, misread>>

-----------------------------------------------------------------------------
(* The process. *)

\* stream_exec: the information is made again, the folders checked again.
StreamExec ==
    /\ stage = "forked"
    /\ \E bad \in DirFailures(config) :
        IF /\ StreamInfoOk(config, TRUE, bad)
           /\ Val(config["feedback_directory"]) # ""
           /\ Reads(config, "stream_link_path", "string")
        THEN stage' = "exec" /\ pinfo' = MakeStreamInfo(config, TRUE)
        ELSE stage' = "exit_failure" /\ pinfo' = pinfo
    /\ UNCHANGED <<request, via, config, warned, dinfo, conf, tinfo, copy, runs, misread>>

kDefaultRestartAttempts == 10
\* The test of GetAsInteger is inverted: an integer is overwritten by the
\* default, and another value leaves an int nobody wrote.
RestartAttempts(c) ==
    IF "restart_attempts" \notin DOMAIN c \/ Kind(c["restart_attempts"]) = "int"
    THEN {kDefaultRestartAttempts} ELSE {0, kDefaultRestartAttempts + 1}

\* The class of the Config and the defaults of its fields.
ClassOf(t) ==
    CASE t = "SCREEN" -> "AudioVideoConfig"
      [] t \in {"RELAY", "TIMESHIFT_PLAYER", "TEST_LIFE", "COD_RELAY"} -> "RelayConfig"
      [] t = "VOD_RELAY" -> "VodRelayConfig"
      [] t \in {"ENCODE", "COD_ENCODE", "EVENT"} -> "EncodeConfig"
      [] t = "VOD_ENCODE" -> "VodEncodeConfig"
      [] t \in {"TIMESHIFT_RECORDER", "CATCHUP"} -> "TimeshiftConfig"
DefaultsOf(class) ==
    Joined(AudioVideoDefaults,
           CASE class = "AudioVideoConfig" -> EmptyConfig
             [] class = "RelayConfig"      -> RelayDefaults
             [] class = "VodRelayConfig"   -> Joined(RelayDefaults, VodDefaults)
             [] class = "EncodeConfig"     -> EncodeDefaults
             [] class = "VodEncodeConfig"  -> Joined(EncodeDefaults, VodDefaults)
             [] class = "TimeshiftConfig"  -> Joined(RelayDefaults, TimeshiftDefaults))

\* A recorder has outputs only if it has several inputs (is_multi_input).
NeedsOutput(c) == TypeOf(c) \in {"TIMESHIFT_RECORDER", "CATCHUP"} => Len(read_input(c)) > 1

\* make_config once the outputs are read: the Config of the stream.
MakeConfigOf(c, attempts) ==
    LET class == ClassOf(TypeOf(c)) IN
    [class |-> class, type |-> TypeOf(c), attempts |-> attempts,
     ttl |-> IF Reads(c, "auto_exit_time", "int") THEN Val(c["auto_exit_time"]) ELSE 0,
     input |-> read_input(c),
     output |-> IF NeedsOutput(c) THEN read_output(c) ELSE <<>>,
     fields |-> ReadFields(c, DefaultsOf(class)),
     args |-> IF class \in {"EncodeConfig", "VodEncodeConfig"} THEN InitVideoEncodersWithArgs(c) ELSE EmptyConfig]

kDefaultChunkLifeTime == 12 * 3600
\* The life time is read from the field of the directory.
make_timeshift_info(c) ==
    [dir |-> IF Reads(c, "timeshift_dir", "string") THEN Val(c["timeshift_dir"]) ELSE "",
     life |-> IF Reads(c, "timeshift_dir", "int") THEN Val(c["timeshift_dir"]) ELSE kDefaultChunkLifeTime,
     delay |-> IF Reads(c, "timeshift_delay", "int") THEN Val(c["timeshift_delay"]) ELSE 0]

\* A plausible bug: the check of the chunk duration is gone.
Mutant_NoDurationCheck ==
    /\ stage = "exec"
    /\ \E attempts \in RestartAttempts(config) :
        IF NeedsOutput(config) /\ ~CanRead(config, "output")
        THEN stage' = "terminated" /\ UNCHANGED <<conf, tinfo>>
        ELSE IF attempts <= 0
        THEN stage' = "aborted" /\ UNCHANGED <<conf, tinfo>>
        ELSE /\ stage' = "running"
             /\ conf' = MakeConfigOf(config, attempts)
             /\ tinfo' = tinfo
    /\ UNCHANGED <<request, via, config, warned, dinfo, pinfo, copy, runs, misread>>

\* StreamController::Init.  When make_config fails the destructor joins a
\* thread that was never started: std::terminate.  A CHECK that fails aborts.
InitController ==
    /\ stage = "exec"
    /\ \E attempts \in RestartAttempts(config) :
        LET made == MakeConfigOf(config, attempts) IN
        IF NeedsOutput(config) /\ ~CanRead(config, "output")
        THEN stage' = "terminated" /\ UNCHANGED <<conf, tinfo>>
        ELSE IF attempts <= 0
             \/ (made.class = "TimeshiftConfig" /\ Val(made.fields["timeshift_chunk_duration"]) = 0)
        THEN stage' = "aborted" /\ UNCHANGED <<conf, tinfo>>
        ELSE /\ stage' = "running"
             /\ conf' = made
             /\ tinfo' = IF made.type \in {"TIMESHIFT_RECORDER", "TIMESHIFT_PLAYER", "CATCHUP"}
                         THEN make_timeshift_info(config) ELSE tinfo
    /\ UNCHANGED <<request, via, config, warned, dinfo, pinfo, copy, runs, misread>>

\* StreamLinkGenerator::Generate: the script gives a new url, or fails.
Generate(u, path, works, run) ==
    IF u.streamlink /\ path # "" /\ works THEN [u EXCEPT !.run = run] ELSE u

\* make_config_copy: Clone is virtual in every class, and the links of the
\* copy are generated anew.
make_config_copy(cf, path, works, run) ==
    [cf EXCEPT !.input = [i \in DOMAIN cf.input |-> Generate(cf.input[i], path, works[i], run)]]

\* An iteration of Exec: a timeshift player reads the chunk duration of a
\* TimeshiftConfig, whatever config_ is; then the copy is made.
RunStream ==
    /\ stage = "running" /\ runs < MaxRuns
    /\ misread' = (conf.type = "TIMESHIFT_PLAYER" /\ conf.class # "TimeshiftConfig")
    /\ \E works \in [DOMAIN conf.input -> BOOLEAN] :
          copy' = make_config_copy(conf, Val(config["stream_link_path"]), works, runs + 1)
    /\ runs' = runs + 1
    /\ UNCHANGED <<request, via, stage, config, warned, dinfo, pinfo, conf, tinfo>>

\* A configuration that has come to its end.
Done ==
    /\ \/ stage \in {"refused", "ignored", "exit_failure", "terminated", "aborted"}
       \/ stage = "running" /\ runs = MaxRuns
    /\ UNCHANGED config_vars

NextConfig ==
    \/ MakeConfigFromJson \/ AddStreamLine \/ RequestLink \/ CreateChildStream
    \/ StreamExec \/ InitController \/ RunStream \/ Done

SpecConfig == InitConfig /\ [][NextConfig]_config_vars

-----------------------------------------------------------------------------
(* Properties. *)

IsUri(u) == DOMAIN u = {"uri", "run", "streamlink", "http_root"}

\* The variables have their types: a Config has exactly the fields of its class.
ConfigTypeOK ==
    /\ stage \in {"received", "refused", "line", "linked", "ignored", "requested", "forked", "exec",
                  "exit_failure", "terminated", "aborted", "running"}
    /\ warned \subseteq DOMAIN config
    /\ conf # Nothing => /\ conf.attempts \in 1..IntMax
                         /\ DOMAIN conf.fields = DOMAIN DefaultsOf(conf.class)
                         /\ \A i \in DOMAIN conf.input : IsUri(conf.input[i])
    /\ runs \in 0..MaxRuns /\ misread \in BOOLEAN

\* What becomes of a configuration the daemon has accepted (options.cpp,
\* stream_config.cpp and configs_factory.cpp check it in three places): the
\* process terminates only for a recorder with several inputs and no list of
\* outputs, a CHECK fails only for restart attempts that are no integer or a
\* chunk duration of zero, and no such recorder or duration gets as far as a run.
\* Any configuration may also end in a failure before it runs, when stream_exec
\* checks the folders again; that is left open here.
BadRecorder(c) == /\ TypeOf(c) \in {"TIMESHIFT_RECORDER", "CATCHUP"}
                  /\ Len(read_input(c)) > 1 /\ ~CanRead(c, "output")
ZeroDuration(c) == /\ TypeOf(c) \in {"TIMESHIFT_RECORDER", "CATCHUP"}
                   /\ "timeshift_chunk_duration" \in DOMAIN c /\ c["timeshift_chunk_duration"] = Num(0)
AttemptsNoInteger(c) == "restart_attempts" \in DOMAIN c /\ Kind(c["restart_attempts"]) # "int"
AcceptedConfigurationRuns ==
    /\ stage = "terminated" => BadRecorder(config)
    /\ stage = "aborted" => ZeroDuration(config) \/ AttemptsNoInteger(config)
    /\ stage = "running" => ~BadRecorder(config) /\ ~ZeroDuration(config)

\* The daemon and the process, which both call MakeStreamInfo, know the same
\* stream: id, type, inputs, and the outputs the stream will be made with.
DaemonAndProcessAgree ==
    /\ pinfo # Nothing => pinfo = dinfo /\ pinfo.id = GetSid(config)
    /\ conf # Nothing => conf.input = dinfo.input /\ conf.type = dinfo.type
                         /\ (conf.class # "TimeshiftConfig" => conf.output = dinfo.output)

\* The table of ValidateConfig and the table of InitVideoEncodersWithArgs are
\* kept apart.  An option of an encoder that has a validator, and that the log
\* has not warned of, is an argument of the encoder, and no argument is a value
\* the request did not hold; only x264enc.pass, vaapih264enc.tune and
\* vaapih264enc.rate-control, whose validators are inverted, get lost unseen.
NoWarningNoLoss ==
    conf # Nothing /\ conf.class \in {"EncodeConfig", "VodEncodeConfig"} =>
        /\ \A k \in (DOMAIN config \cap EncoderOptions) \ (NotValidatedArgs \cup Inverted \cup warned) :
              k \in DOMAIN conf.args /\ conf.args[k] = config[k]
        /\ DOMAIN conf.args \subseteq DOMAIN config \cap EncoderOptions

\* Every run gets links that were generated for it or the urls of the request,
\* however many runs there were before (make_config_copy works on a clone).
LinksAreFresh ==
    copy # Nothing => \A i \in DOMAIN copy.input :
        /\ copy.input[i].uri = dinfo.input[i].uri
        /\ copy.input[i].run \in {0, runs}

\* A vod that an http request starts keeps its segments whatever the
\* synchronisation asked for: the next request is served from them.
OnDemandVodKeepsFiles ==
    via = "sync" /\ conf # Nothing /\ conf.class \in {"VodRelayConfig", "VodEncodeConfig"}
        => conf.fields["cleanup_ts"] = Bool(FALSE)

\* The daemon and the process agree on a stream, whose Config is complete.
ConfigIsAgreed == ConfigTypeOK /\ DaemonAndProcessAgree

\* Nothing of a request is lost or left over on the way to a run: encoder
\* options arrive or are warned of, every run has fresh links, and a vod on
\* demand keeps the files later requests are served from.
RequestReachesRun == NoWarningNoLoss /\ LinksAreFresh /\ OnDemandVodKeepsFiles
=============================================================================
