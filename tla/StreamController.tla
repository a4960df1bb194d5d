--------------------------- MODULE StreamController ---------------------------
(***************************************************************************)
(* The process that runs one stream (src/src/stream/stream_controller.cpp  *)
(* and the life cycle part of ibase_stream.cpp).                           *)
(*                                                                         *)
(* Two threads share the controller:                                       *)
(*   - the exec thread runs StreamController::Exec: it creates a stream,   *)
(*     runs its GLib main loop, destroys it and decides whether, and       *)
(*     after which pause, to run it again;                                 *)
(*   - the loop thread runs the libev loop of StreamServer: it reads the   *)
(*     commands the daemon writes into the pipe, and the ttl timer, and    *)
(*     calls Stop or Restart.                                              *)
(* They synchronise through stop_, the condition variable stop_cond_ and   *)
(* the unprotected pointer origin_.                                        *)
(***************************************************************************)
EXTENDS Integers, Sequences

CONSTANTS
    StreamTypes,              \* kinds of stream the process may be started for
    MaxRestartAttempts,       \* Config::GetMaxRestartAttempts
    restart_after_frozen_sec, \* the pause after the last attempt, in seconds
    RunTimes,                 \* how long a run of a stream may take, in ms
    MaxFaults,                \* bound: times a stream ends or fails by itself
    MaxCommands               \* bound: commands the daemon sends

ASSUME ControllerAssumption ==
    /\ StreamTypes \subseteq {"LIVE", "VOD", "TIMESHIFT_PLAYER"}
    /\ MaxRestartAttempts \in Nat \ {0}
    /\ restart_after_frozen_sec \in Nat
    /\ MaxRestartAttempts <= restart_after_frozen_sec
    /\ RunTimes \subseteq Nat
    /\ MaxFaults \in Nat
    /\ MaxCommands \in Nat

VARIABLES
    config,           \* config_: the type and whether a time to live is set
    exec_pc,          \* where the exec thread is
    loop_pc,          \* where the loop thread is
    stop_,            \* StreamController::stop_
    notified,         \* the exec thread's wait was notified
    origin_,          \* the stream object, named by its run; 0 is nullptr
    runs,             \* stream objects created so far
    quit_target,      \* the pointer StopStream read and calls Quit on
    loop_running,     \* g_main_loop_is_running
    last_exit,        \* IBaseStream::last_exit_status_ of the current stream
    res,              \* what IBaseStream::Exec returned
    status,           \* mem_->status
    restart_attempts, \* restart_attempts_
    wait_time,        \* the pause before the next run, in seconds
    restarts,         \* mem_->restarts
    idle_time,        \* mem_->idle_time, in ms
    clock,            \* lower bound of the time since the start, in ms
    ttl_armed,        \* the ttl timer has been created and has not fired
    commands,         \* what the daemon wrote into the pipe
    peer_closed,      \* the daemon's end of the pipe is closed
    sent,             \* commands the daemon sent so far
    faults,           \* streams that ended or failed by themselves so far
    runs_at_stop      \* history: runs when Stop was first called

stream_vars == <<origin_, runs, loop_running, last_exit, res, status>>
pause_vars  == <<restart_attempts, wait_time, restarts, idle_time, clock>>
peer_vars   == <<commands, peer_closed, sent>>
stop_vars   == <<stop_, runs_at_stop>>
vars == <<config, exec_pc, loop_pc, notified, quit_target, ttl_armed, faults,
          stream_vars, pause_vars, peer_vars, stop_vars>>

NullStream == 0
CommandKinds == {"STOP", "RESTART", "OTHER", "MALFORMED"}
ExitStatus   == {"EXIT_SELF", "EXIT_INNER"}
StreamStatus == {"NEW", "INIT", "READY", "PLAYING", "FROZEN", "WAITING"}

IsVod             == config.type = "VOD"
IsTimeshiftPlayer == config.type = "TIMESHIFT_PLAYER"
LongWork          == restart_after_frozen_sec * 10 * 1000

\* The constructor, Init and the start of the process: nothing runs yet.
Init ==
    /\ config \in [type : StreamTypes, ttl : BOOLEAN]
    /\ exec_pc = "start"
    /\ loop_pc = "start"
    /\ stop_ = FALSE
    /\ runs_at_stop = 0
    /\ notified = FALSE
    /\ origin_ = NullStream
    /\ runs = 0
    /\ quit_target = NullStream
    /\ loop_running = FALSE
    /\ last_exit = "EXIT_INNER"
    /\ res = "EXIT_INNER"
    /\ status = "NEW"
    /\ restart_attempts = 0
    /\ wait_time = 0
    /\ restarts = 0
    /\ idle_time = 0
    /\ clock = 0
    /\ ttl_armed = FALSE
    /\ commands = <<>>
    /\ peer_closed = FALSE
    /\ sent = 0
    /\ faults = 0

-----------------------------------------------------------------------------
(* The exec thread: StreamController::Exec and IBaseStream::Exec.          *)

\* The barrier libev_started_: Exec goes on when PreLooped has run, which
\* creates the ttl timer first.
Started ==
    /\ exec_pc = "start"
    /\ loop_pc = "start"
    /\ exec_pc' = "while"
    /\ loop_pc' = "idle"
    /\ ttl_armed' = config.ttl
    /\ UNCHANGED <<config, notified, quit_target, faults, stream_vars,
                   pause_vars, peer_vars, stop_vars>>

Mutant_StopNotChecked ==
    /\ exec_pc = "while"
    /\ exec_pc' = IF IsTimeshiftPlayer THEN "find_chunk" ELSE "create"
    /\ UNCHANGED <<config, loop_pc, notified, quit_target, ttl_armed, faults,
                   stream_vars, pause_vars, peer_vars, stop_vars>>

\* while (!stop_)
CheckStop ==
    /\ exec_pc = "while"
    /\ exec_pc' = IF stop_ THEN "return"
                  ELSE IF IsTimeshiftPlayer THEN "find_chunk" ELSE "create"
    /\ UNCHANGED <<config, loop_pc, notified, quit_target, ttl_armed, faults,
                   stream_vars, pause_vars, peer_vars, stop_vars>>

\* A timeshift player looks for the chunk to start from; without one it
\* reports WAITING. The mutex is taken only afterwards.
FindChunkToPlay(found) ==
    /\ exec_pc = "find_chunk"
    /\ exec_pc' = IF found THEN "create" ELSE "chunk_unlocked"
    /\ status' = IF found THEN status ELSE "WAITING"
    /\ UNCHANGED <<config, loop_pc, notified, quit_target, ttl_armed, faults,
                   origin_, runs, loop_running, last_exit, res, pause_vars,
                   peer_vars, stop_vars>>

\* stop_cond_.wait_for, without a predicate: a notify before it is lost.
BeginChunkWait ==
    /\ exec_pc = "chunk_unlocked"
    /\ exec_pc' = "chunk_wait"
    /\ UNCHANGED <<config, loop_pc, notified, quit_target, ttl_armed, faults,
                   stream_vars, pause_vars, peer_vars, stop_vars>>

\* no_timeout: counted as a restart, and back to the outer loop, because no
\* chunk was found.
ChunkWaitNotified ==
    /\ exec_pc = "chunk_wait"
    /\ notified
    /\ exec_pc' = "while"
    /\ notified' = FALSE
    /\ restarts' = restarts + 1
    /\ UNCHANGED <<config, loop_pc, quit_target, ttl_armed, faults,
                   stream_vars, restart_attempts, wait_time, idle_time, clock,
                   peer_vars, stop_vars>>

\* timeout: the inner loop looks for a chunk again and does not read stop_.
\* wait_for reports a timeout also when the notify came too close to it.
ChunkWaitTimeout ==
    /\ exec_pc = "chunk_wait"
    /\ exec_pc' = "find_chunk"
    /\ notified' = FALSE
    /\ UNCHANGED <<config, loop_pc, quit_target, ttl_armed, faults,
                   stream_vars, pause_vars, peer_vars, stop_vars>>

\* StreamsFactory::CreateStream; the new object reports NEW. A type or
\* configuration without a stream class gives nullptr and ends Exec.
CreateStream(created) ==
    /\ exec_pc = "create"
    /\ IF created
       THEN /\ runs' = runs + 1
            /\ origin_' = runs + 1
            /\ last_exit' = "EXIT_INNER"
            /\ status' = "NEW"
            /\ exec_pc' = "init"
            /\ faults' = faults
       ELSE /\ faults < MaxFaults
            /\ faults' = faults + 1
            /\ exec_pc' = "return"
            /\ UNCHANGED <<runs, origin_, last_exit, status>>
    /\ UNCHANGED <<config, loop_pc, notified, quit_target, ttl_armed,
                   loop_running, res, pause_vars, peer_vars, stop_vars>>

\* IBaseStream::Exec up to Play: a pipeline that cannot be built returns
\* EXIT_INNER without a status report and without counting a restart.
InitPipeLine(built) ==
    /\ exec_pc = "init"
    /\ IF built
       THEN /\ status' = "INIT"
            /\ exec_pc' = "played"
            /\ UNCHANGED <<res, faults>>
       ELSE /\ faults < MaxFaults
            /\ faults' = faults + 1
            /\ res' = "EXIT_INNER"
            /\ exec_pc' = "destroy"
            /\ status' = status
    /\ UNCHANGED <<config, loop_pc, notified, quit_target, ttl_armed, origin_,
                   runs, loop_running, last_exit, pause_vars, peer_vars,
                   stop_vars>>

\* g_main_loop_run begins: only from here on does a quit message count.
RunMainLoop ==
    /\ exec_pc = "played"
    /\ exec_pc' = "looping"
    /\ loop_running' = TRUE
    /\ UNCHANGED <<config, loop_pc, notified, quit_target, ttl_armed, faults,
                   origin_, runs, last_exit, res, status, pause_vars,
                   peer_vars, stop_vars>>

\* HandleAsyncBusMessageReceived, GST_MESSAGE_STATE_CHANGED of the pipeline.
PipelineStateChanged(s) ==
    /\ exec_pc = "looping"
    /\ loop_running
    /\ status' = s
    /\ UNCHANGED <<config, exec_pc, loop_pc, notified, quit_target, ttl_armed,
                   faults, origin_, runs, loop_running, last_exit, res,
                   pause_vars, peer_vars, stop_vars>>

\* Quit called on the exec thread, inside the main loop: the end of the
\* stream (OnPipelineEOS: EXIT_SELF for a vod) or the watchdog (EXIT_INNER).
PipelineQuit(exit) ==
    /\ exec_pc = "looping"
    /\ loop_running
    /\ exit = "EXIT_SELF" => IsVod
    /\ faults < MaxFaults
    /\ faults' = faults + 1
    /\ loop_running' = FALSE
    /\ last_exit' = exit
    /\ UNCHANGED <<config, exec_pc, loop_pc, notified, quit_target, ttl_armed,
                   origin_, runs, res, status, pause_vars, peer_vars,
                   stop_vars>>

\* g_main_loop_run returned: report INIT, count the restart and return
\* whatever last_exit_status_ holds by now.
MainLoopEnded ==
    /\ exec_pc = "looping"
    /\ ~loop_running
    /\ exec_pc' = "destroy"
    /\ status' = "INIT"
    /\ restarts' = restarts + 1
    /\ res' = last_exit
    /\ UNCHANGED <<config, loop_pc, notified, quit_target, ttl_armed, faults,
                   origin_, runs, loop_running, last_exit, restart_attempts,
                   wait_time, idle_time, clock, peer_vars, stop_vars>>

\* destroy(&origin_): ~IBaseStream reports NEW.
DestroyStream ==
    /\ exec_pc = "destroy"
    /\ exec_pc' = "account"
    /\ origin_' = NullStream
    /\ status' = "NEW"
    /\ UNCHANGED <<config, loop_pc, notified, quit_target, ttl_armed, faults,
                   runs, loop_running, last_exit, res, pause_vars, peer_vars,
                   stop_vars>>

\* ++restart_attempts_ == GetMaxRestartAttempts() freezes the stream and
\* starts to count anew; before that the pause grows with every attempt.
PauseAfter(attempts) ==
    IF attempts = MaxRestartAttempts
    THEN restart_after_frozen_sec
    ELSE attempts * (restart_after_frozen_sec \div MaxRestartAttempts)

PauseBeforeRestart ==
    LET attempts == restart_attempts + 1 IN
    /\ exec_pc' = "pause_unlocked"
    /\ wait_time' = PauseAfter(attempts)
    /\ restart_attempts' = IF attempts = MaxRestartAttempts THEN 0 ELSE attempts
    /\ status' = IF attempts = MaxRestartAttempts THEN "FROZEN" ELSE status

Mutant_VodRunsAgain ==
    /\ exec_pc = "account"
    /\ \E diff \in RunTimes :
        /\ clock' = clock + diff
        /\ idle_time' = IF res = "EXIT_INNER" /\ diff <= LongWork
                        THEN idle_time + diff ELSE idle_time
        /\ IF res # "EXIT_INNER" \/ diff > 0
           THEN /\ exec_pc' = "while"
                /\ restart_attempts' = 0
                /\ UNCHANGED <<wait_time, status>>
           ELSE PauseBeforeRestart
    /\ UNCHANGED <<config, loop_pc, notified, quit_target, ttl_armed, faults,
                   origin_, runs, loop_running, last_exit, res, restarts,
                   peer_vars, stop_vars>>

\* After a run of diff ms: a vod ends; a failed run that was not longer than
\* LongWork counts as idle time; a run that did not fail, or took any time
\* at all, is repeated at once; only a failed run of 0 ms backs off.
RunEnded ==
    /\ exec_pc = "account"
    /\ \E diff \in RunTimes :
        /\ clock' = clock + diff
        /\ idle_time' = IF ~IsVod /\ res = "EXIT_INNER" /\ diff <= LongWork
                        THEN idle_time + diff ELSE idle_time
        /\ IF IsVod
           THEN /\ exec_pc' = "return"
                /\ UNCHANGED <<restart_attempts, wait_time, status>>
           ELSE IF res # "EXIT_INNER" \/ diff > 0
           THEN /\ exec_pc' = "while"
                /\ restart_attempts' = 0
                /\ UNCHANGED <<wait_time, status>>
           ELSE PauseBeforeRestart
    /\ UNCHANGED <<config, loop_pc, notified, quit_target, ttl_armed, faults,
                   origin_, runs, loop_running, last_exit, res, restarts,
                   peer_vars, stop_vars>>

\* stop_cond_.wait_for(lock, wait_time): again without a predicate.
BeginPause ==
    /\ exec_pc = "pause_unlocked"
    /\ exec_pc' = "pause"
    /\ UNCHANGED <<config, loop_pc, notified, quit_target, ttl_armed, faults,
                   stream_vars, pause_vars, peer_vars, stop_vars>>

Mutant_InterruptedPauseIsIdle ==
    /\ exec_pc = "pause"
    /\ notified
    /\ exec_pc' = "while"
    /\ notified' = FALSE
    /\ restart_attempts' = 0
    /\ idle_time' = idle_time + wait_time * 1000
    /\ UNCHANGED <<config, loop_pc, quit_target, ttl_armed, faults,
                   stream_vars, wait_time, restarts, clock,
                   peer_vars, stop_vars>>

PauseNotified ==
    /\ exec_pc = "pause"
    /\ notified
    /\ exec_pc' = "while"
    /\ notified' = FALSE
    /\ restart_attempts' = 0
    /\ UNCHANGED <<config, loop_pc, quit_target, ttl_armed, faults,
                   stream_vars, wait_time, restarts, idle_time, clock,
                   peer_vars, stop_vars>>

PauseTimeout ==
    /\ exec_pc = "pause"
    /\ exec_pc' = "while"
    /\ notified' = FALSE
    /\ clock' = clock + wait_time * 1000
    /\ idle_time' = idle_time + wait_time * 1000
    /\ UNCHANGED <<config, loop_pc, quit_target, ttl_armed, faults,
                   stream_vars, restart_attempts, wait_time, restarts,
                   peer_vars, stop_vars>>

\* ~StreamController: loop_->Stop() and the join of the loop thread.
StopLoop ==
    /\ exec_pc = "return"
    /\ exec_pc' = "join"
    /\ UNCHANGED <<config, loop_pc, notified, quit_target, ttl_armed, faults,
                   stream_vars, pause_vars, peer_vars, stop_vars>>

JoinLoop ==
    /\ exec_pc = "join"
    /\ loop_pc = "stopped"
    /\ exec_pc' = "exited"
    /\ UNCHANGED <<config, loop_pc, notified, quit_target, ttl_armed, faults,
                   stream_vars, pause_vars, peer_vars, stop_vars>>

-----------------------------------------------------------------------------
(* The loop thread: one handler of StreamController at a time.             *)

\* notify_all wakes the exec thread only if it is in one of its waits.
NotifyAll == notified' = (exec_pc \in {"chunk_wait", "pause"})

\* The critical section of Stop: stop_ and notify_all under stop_mutex_.
SignalStop ==
    /\ stop_' = TRUE
    /\ runs_at_stop' = IF stop_ THEN runs_at_stop ELSE runs
    /\ NotifyAll
    /\ loop_pc' = "stop_stream"

\* The critical section of Restart: notify_all only.
SignalRestart ==
    /\ NotifyAll
    /\ loop_pc' = "stop_stream"
    /\ UNCHANGED stop_vars

\* DataReceived with a command in the pipe. STOP_STREAM and RESTART_STREAM
\* are answered with success before they are carried out; a malformed
\* command stops the process; an unknown one is only logged.
ReceiveCommand ==
    /\ loop_pc = "idle"
    /\ commands # <<>>
    /\ commands' = Tail(commands)
    /\ \/ Head(commands) \in {"STOP", "MALFORMED"} /\ SignalStop
       \/ Head(commands) = "RESTART" /\ SignalRestart
       \/ Head(commands) = "OTHER" /\ UNCHANGED <<notified, loop_pc, stop_vars>>
    /\ UNCHANGED <<config, exec_pc, quit_target, ttl_armed, faults, stream_vars,
                   pause_vars, peer_closed, sent>>

Mutant_EofOnce ==
    /\ loop_pc = "idle"
    /\ commands = <<>>
    /\ peer_closed
    /\ ~stop_
    /\ SignalStop
    /\ UNCHANGED <<config, exec_pc, quit_target, ttl_armed, faults, stream_vars,
                   pause_vars, peer_vars>>

\* DataReceived at the end of the file. The client is not closed, so the
\* descriptor stays readable and the handler runs again and again.
ReceiveEof ==
    /\ loop_pc = "idle"
    /\ commands = <<>>
    /\ peer_closed
    /\ SignalStop
    /\ UNCHANGED <<config, exec_pc, quit_target, ttl_armed, faults, stream_vars,
                   pause_vars, peer_vars>>

\* TimerEmited(ttl_master_timer_): a one shot timer.
TtlExpired ==
    /\ loop_pc = "idle"
    /\ ttl_armed
    /\ ttl_armed' = FALSE
    /\ SignalStop
    /\ UNCHANGED <<config, exec_pc, quit_target, faults, stream_vars,
                   pause_vars, peer_vars>>

\* StopStream reads origin_ without a lock.
StopStream ==
    /\ loop_pc = "stop_stream"
    /\ quit_target' = origin_
    /\ loop_pc' = IF origin_ = NullStream THEN "idle" ELSE "quit"
    /\ UNCHANGED <<config, exec_pc, notified, ttl_armed, faults, stream_vars,
                   pause_vars, peer_vars, stop_vars>>

\* A use of the destroyed object is undefined: the process may crash.
Crash ==
    /\ quit_target # origin_
    /\ loop_pc \in {"quit", "set_exit_status"}
    /\ exec_pc' = "crashed"
    /\ loop_pc' = "crashed"
    /\ UNCHANGED <<config, notified, quit_target, ttl_armed, faults,
                   stream_vars, pause_vars, peer_vars, stop_vars>>

\* The call works on the object it was meant for, or, the memory of a
\* destroyed one being reused, on the current one.
ReachesStream == origin_ # NullStream

\* Quit(EXIT_SELF): the sync bus handler runs in this thread and quits the
\* main loop if it runs; otherwise the message has no effect.
QuitStream ==
    /\ loop_pc = "quit"
    /\ IF ReachesStream /\ loop_running
       THEN /\ loop_running' = FALSE
            /\ loop_pc' = "set_exit_status"
            /\ quit_target' = quit_target
       ELSE /\ loop_pc' = "idle"
            /\ loop_running' = loop_running
            /\ quit_target' = NullStream
    /\ UNCHANGED <<config, exec_pc, notified, ttl_armed, faults,
                   origin_, runs, last_exit, res, status, pause_vars,
                   peer_vars, stop_vars>>

\* On a destroyed object the call may also find nothing to act on.
QuitNothing ==
    /\ loop_pc \in {"quit", "set_exit_status"}
    /\ quit_target # origin_
    /\ quit_target' = NullStream
    /\ loop_pc' = "idle"
    /\ UNCHANGED <<config, exec_pc, notified, ttl_armed, faults,
                   stream_vars, pause_vars, peer_vars, stop_vars>>

\* last_exit_status_ is written after g_main_loop_quit has already released
\* the exec thread.
SetExitStatus ==
    /\ loop_pc = "set_exit_status"
    /\ loop_pc' = "idle"
    /\ quit_target' = NullStream
    /\ last_exit' = IF ReachesStream THEN "EXIT_SELF" ELSE last_exit
    /\ UNCHANGED <<config, exec_pc, notified, ttl_armed, faults,
                   origin_, runs, loop_running, res, status, pause_vars,
                   peer_vars, stop_vars>>

\* The loop stops between two handlers; PostLooped removes the ttl timer.
LoopStopped ==
    /\ exec_pc = "join"
    /\ loop_pc = "idle"
    /\ loop_pc' = "stopped"
    /\ ttl_armed' = FALSE
    /\ UNCHANGED <<config, exec_pc, notified, quit_target, faults, stream_vars,
                   pause_vars, peer_vars, stop_vars>>

-----------------------------------------------------------------------------
(* The daemon at the other end of the pipe.                                *)

PeerSends(kind) ==
    /\ ~peer_closed
    /\ sent < MaxCommands
    /\ sent' = sent + 1
    /\ commands' = Append(commands, kind)
    /\ UNCHANGED <<config, exec_pc, loop_pc, notified, quit_target, ttl_armed,
                   faults, stream_vars, pause_vars, peer_closed, stop_vars>>

PeerCloses ==
    /\ ~peer_closed
    /\ peer_closed' = TRUE
    /\ UNCHANGED <<config, exec_pc, loop_pc, notified, quit_target, ttl_armed,
                   faults, stream_vars, pause_vars, commands, sent, stop_vars>>

-----------------------------------------------------------------------------
Terminated == exec_pc \in {"exited", "crashed"}

\* A process that is gone takes no step.
Gone == Terminated /\ UNCHANGED vars

ExecNext ==
    \/ Started
    \/ CheckStop
    \/ \E found \in BOOLEAN : FindChunkToPlay(found)
    \/ BeginChunkWait
    \/ ChunkWaitNotified
    \/ ChunkWaitTimeout
    \/ \E created \in BOOLEAN : CreateStream(created)
    \/ \E built \in BOOLEAN : InitPipeLine(built)
    \/ RunMainLoop
    \/ MainLoopEnded
    \/ DestroyStream
    \/ RunEnded
    \/ BeginPause
    \/ PauseNotified
    \/ PauseTimeout
    \/ StopLoop
    \/ JoinLoop

PipelineNext ==
    \/ \E s \in {"INIT", "READY", "PLAYING"} : PipelineStateChanged(s)
    \/ \E exit \in ExitStatus : PipelineQuit(exit)

LoopNext ==
    \/ ReceiveCommand
    \/ ReceiveEof
    \/ TtlExpired
    \/ StopStream
    \/ QuitStream
    \/ QuitNothing
    \/ SetExitStatus
    \/ Crash
    \/ LoopStopped

PeerNext ==
    \/ \E kind \in CommandKinds : PeerSends(kind)
    \/ PeerCloses

Next == ExecNext \/ PipelineNext \/ LoopNext \/ PeerNext \/ Gone

\* The wait for a chunk lasts seconds, and the loop thread handles the end of
\* the file many times a second: among infinitely many waits some are hit.
EofReachesWait ==
    []<>(peer_closed /\ exec_pc = "chunk_wait")
        => []<>(exec_pc = "chunk_wait" /\ notified)

\* Both threads are scheduled. A stopping libev loop leaves its iteration
\* although the descriptor stays readable. Among infinitely many notified
\* waits some are woken before their timeout.
Fairness ==
    /\ WF_vars(ExecNext)
    /\ WF_vars(LoopNext)
    /\ SF_vars(LoopStopped)
    /\ SF_vars(ChunkWaitNotified)
    /\ EofReachesWait

Spec == Init /\ [][Next]_vars /\ Fairness

-----------------------------------------------------------------------------
(* Properties.                                                             *)

ExecPcs == {"start", "while", "find_chunk", "chunk_unlocked", "chunk_wait",
            "create", "init", "played", "looping", "destroy", "account",
            "pause_unlocked", "pause", "return", "join", "exited", "crashed"}
LoopPcs == {"start", "idle", "stop_stream", "quit", "set_exit_status",
            "stopped", "crashed"}

\* Every variable keeps its type.
TypeOK ==
    /\ config \in [type : StreamTypes, ttl : BOOLEAN]
    /\ exec_pc \in ExecPcs
    /\ loop_pc \in LoopPcs
    /\ stop_ \in BOOLEAN
    /\ notified \in BOOLEAN
    /\ loop_running \in BOOLEAN
    /\ ttl_armed \in BOOLEAN
    /\ peer_closed \in BOOLEAN
    /\ last_exit \in ExitStatus
    /\ res \in ExitStatus
    /\ status \in StreamStatus
    /\ commands \in Seq(CommandKinds)
    /\ origin_ \in Nat
    /\ runs \in Nat
    /\ quit_target \in Nat
    /\ runs_at_stop \in Nat
    /\ restart_attempts \in Nat
    /\ wait_time \in Nat
    /\ restarts \in Nat
    /\ idle_time \in Nat
    /\ clock \in Nat
    /\ sent \in 0..MaxCommands
    /\ faults \in 0..MaxFaults

\* Where the exec thread may be before it reads stop_ again and after it read
\* FALSE, without having created the next stream.
BeforeCreate == {"find_chunk", "chunk_unlocked", "chunk_wait", "create"}

\* Exec creates at most one more stream after Stop was called: the one it had
\* decided on before it could see stop_, wherever the two threads were.
OneRunAfterStop == stop_ => runs <= runs_at_stop + 1

\* A vod is run once, whatever restarts, failures or commands happen.
VodRunsOnce == IsVod => runs <= 1

\* The pause before a restart is never empty (Exec would spin) and never
\* longer than the pause of a frozen stream.
PauseBounded ==
    exec_pc \in {"pause_unlocked", "pause"} =>
        /\ wait_time > 0
        /\ wait_time <= restart_after_frozen_sec

\* The idle time in the statistics never exceeds the time the process exists,
\* although it is added up in two places of Exec.
IdleWithinUptime == idle_time <= clock

\* The status a stream reports is PLAYING only while its main loop runs; in
\* particular a frozen, waiting or stopped stream never claims to play.
PlayingOnlyInLoop == status = "PLAYING" => exec_pc \in {"looping", "crashed"}

\* When the daemon closes its end of the pipe, or dies, the process ends. A
\* notify or a quit message that comes at the wrong moment is lost, but the
\* end of the file is reported again until one is not.
PeerCloseTerminates == peer_closed ~> Terminated

\* A single Stop (a command or the ttl timer) is enough when it does not meet
\* the exec thread while it looks for a chunk or builds the next stream.
StopOutsideStartup ==
    (/\ loop_pc = "stop_stream"
     /\ stop_
     /\ exec_pc \in {"while", "looping", "destroy", "account",
                     "pause_unlocked", "pause", "return", "join"})
        ~> Terminated

\* Stop or Restart during the main loop of a stream ends that stream.
QuitEndsRun ==
    \A r \in 1..(MaxFaults + MaxCommands + 1) :
        (loop_pc = "stop_stream" /\ exec_pc = "looping" /\ origin_ = r)
            ~> (origin_ # r \/ Terminated)

\* What the process reports of itself and how long it pauses stay true in every
\* interleaving of the two threads: the pause before a restart is positive and
\* bounded, idle time is counted at most once, PLAYING is not left behind.
Bookkeeping ==
    /\ TypeOK
    /\ PauseBounded
    /\ IdleWithinUptime
    /\ PlayingOnlyInLoop

\* Stop meets Exec anywhere, and a vod fails or ends anyhow: Exec creates at
\* most one more stream after Stop, and only one for a vod.
RunsAreLimited == OneRunAfterStop /\ VodRunsOnce

\* A command that reaches the controller outside the start-up of a stream
\* takes effect: Stop ends the process, Stop or Restart the current run.
CommandsTakeEffect == StopOutsideStartup /\ QuitEndsRun
=============================================================================
