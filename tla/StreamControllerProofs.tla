------------------------ MODULE StreamControllerProofs ------------------------
(***************************************************************************)
(* Proofs about StreamController for every value of its constants.         *)
(***************************************************************************)
EXTENDS StreamController, TLAPS

\* Every step of either thread, the pipeline or the daemon keeps the types.
LEMMA TypeOKStep == TypeOK /\ [Next]_vars => TypeOK'
<1> SUFFICES ASSUME TypeOK, [Next]_vars PROVE TypeOK'
  OBVIOUS
<1> USE ControllerAssumption DEF TypeOK, ExecPcs, LoopPcs, ExitStatus,
        StreamStatus, CommandKinds, NullStream, stream_vars, pause_vars,
        peer_vars, stop_vars
<1>1. CASE Started
  BY <1>1 DEF Started
<1>2. CASE CheckStop
  BY <1>2 DEF CheckStop
<1>3. ASSUME NEW found \in BOOLEAN, FindChunkToPlay(found) PROVE TypeOK'
  BY <1>3 DEF FindChunkToPlay
<1>4. CASE BeginChunkWait
  BY <1>4 DEF BeginChunkWait
<1>5. CASE ChunkWaitNotified
  <2>1. notified' \in BOOLEAN
    BY <1>5, Zenon DEF ChunkWaitNotified
  <2> QED
    BY <1>5, <2>1 DEF ChunkWaitNotified
<1>6. CASE ChunkWaitTimeout
  <2>1. notified' \in BOOLEAN
    BY <1>6, Zenon DEF ChunkWaitTimeout
  <2> QED
    BY <1>6, <2>1 DEF ChunkWaitTimeout
<1>7. ASSUME NEW created \in BOOLEAN, CreateStream(created) PROVE TypeOK'
  BY <1>7 DEF CreateStream
<1>8. ASSUME NEW built \in BOOLEAN, InitPipeLine(built) PROVE TypeOK'
  BY <1>8 DEF InitPipeLine
<1>9. CASE RunMainLoop
  BY <1>9 DEF RunMainLoop
<1>10. CASE MainLoopEnded
  BY <1>10 DEF MainLoopEnded
<1>11. CASE DestroyStream
  BY <1>11 DEF DestroyStream
<1>12. CASE RunEnded
  BY <1>12 DEF RunEnded, PauseBeforeRestart, PauseAfter
<1>13. CASE BeginPause
  BY <1>13 DEF BeginPause
<1>14. CASE PauseNotified
  <2>1. notified' \in BOOLEAN
    BY <1>14, Zenon DEF PauseNotified
  <2> QED
    BY <1>14, <2>1 DEF PauseNotified
<1>15. CASE PauseTimeout
  <2>1. notified' \in BOOLEAN
    BY <1>15, Zenon DEF PauseTimeout
  <2> QED
    BY <1>15, <2>1 DEF PauseTimeout
<1>16. CASE StopLoop
  BY <1>16 DEF StopLoop
<1>17. CASE JoinLoop
  BY <1>17 DEF JoinLoop
<1>18. ASSUME NEW s \in {"INIT", "READY", "PLAYING"}, PipelineStateChanged(s)
       PROVE TypeOK'
  BY <1>18 DEF PipelineStateChanged
<1>19. ASSUME NEW exit \in ExitStatus, PipelineQuit(exit) PROVE TypeOK'
  <2>1. loop_running' \in BOOLEAN
    BY <1>19, Zenon DEF PipelineQuit
  <2> QED
    BY <1>19, <2>1 DEF PipelineQuit
<1>20. CASE ReceiveCommand
  <2>1. CASE SignalStop
    BY <1>20, <2>1 DEF ReceiveCommand, SignalStop, NotifyAll
  <2>2. CASE SignalRestart
    BY <1>20, <2>2 DEF ReceiveCommand, SignalRestart, NotifyAll
  <2>3. CASE UNCHANGED <<notified, loop_pc, stop_vars>>
    BY <1>20, <2>3 DEF ReceiveCommand
  <2> QED
    BY <1>20, <2>1, <2>2, <2>3 DEF ReceiveCommand
<1>21. CASE ReceiveEof
  BY <1>21 DEF ReceiveEof, SignalStop, NotifyAll
<1>22. CASE TtlExpired
  <2>1. ttl_armed' \in BOOLEAN
    BY <1>22, Zenon DEF TtlExpired
  <2> QED
    BY <1>22, <2>1 DEF TtlExpired, SignalStop, NotifyAll
<1>23. CASE StopStream
  BY <1>23 DEF StopStream
<1>24. CASE QuitStream
  <2>1. loop_running' \in BOOLEAN
    BY <1>24, Zenon DEF QuitStream
  <2> QED
    BY <1>24, <2>1 DEF QuitStream
<1>25. CASE QuitNothing
  BY <1>25 DEF QuitNothing
<1>26. CASE SetExitStatus
  BY <1>26 DEF SetExitStatus
<1>27. CASE Crash
  BY <1>27 DEF Crash
<1>28. CASE LoopStopped
  BY <1>28 DEF LoopStopped
<1>29. ASSUME NEW kind \in CommandKinds, PeerSends(kind) PROVE TypeOK'
  BY <1>29 DEF PeerSends
<1>30. CASE PeerCloses
  BY <1>30 DEF PeerCloses
<1>31. CASE UNCHANGED vars
  BY <1>31 DEF vars
<1> QED
  BY <1>1, <1>2, <1>3, <1>4, <1>5, <1>6, <1>7, <1>8, <1>9, <1>10, <1>11,
     <1>12, <1>13, <1>14, <1>15, <1>16, <1>17, <1>18, <1>19, <1>20, <1>21,
     <1>22, <1>23, <1>24, <1>25, <1>26, <1>27, <1>28, <1>29, <1>30, <1>31
     DEF Next, ExecNext, PipelineNext, LoopNext, PeerNext, Gone

\* Type correctness of the stream process.
THEOREM TypeCorrect == Spec => []TypeOK
<1>1. Init => TypeOK
  <2> SUFFICES ASSUME Init PROVE TypeOK
    OBVIOUS
  <2>1. /\ stop_ \in BOOLEAN
        /\ notified \in BOOLEAN
        /\ loop_running \in BOOLEAN
        /\ ttl_armed \in BOOLEAN
        /\ peer_closed \in BOOLEAN
    BY Zenon DEF Init
  <2> QED
    BY <2>1, ControllerAssumption DEF Init, TypeOK, ExecPcs, LoopPcs,
       ExitStatus, StreamStatus, NullStream
<1> QED
  BY <1>1, TypeOKStep, PTL DEF Spec

-----------------------------------------------------------------------------
(* OneRunAfterStop is not inductive: a stream is created several steps after *)
(* the exec thread read stop_. What holds in between is that none has been   *)
(* created since the call of Stop.                                           *)

StopInv ==
    stop_ => /\ runs <= runs_at_stop + 1
             /\ exec_pc \in BeforeCreate => runs <= runs_at_stop

\* Every step keeps the strengthened bound on the runs after Stop.
LEMMA StopInvStep == TypeOK /\ StopInv /\ [Next]_vars => StopInv'
<1> SUFFICES ASSUME TypeOK, StopInv, [Next]_vars PROVE StopInv'
  OBVIOUS
<1>1. runs \in Nat /\ runs_at_stop \in Nat
  BY DEF TypeOK
<1> USE <1>1 DEF StopInv, BeforeCreate, stream_vars, pause_vars, peer_vars,
        stop_vars
<1>2. CASE CheckStop
  BY <1>2 DEF CheckStop
<1>3. ASSUME NEW created \in BOOLEAN, CreateStream(created) PROVE StopInv'
  BY <1>3 DEF CreateStream
<1>4. CASE SignalStop /\ UNCHANGED <<exec_pc, runs>>
  BY <1>4 DEF SignalStop
<1>5. ASSUME UNCHANGED <<stop_vars, runs>>,
             exec_pc' \in BeforeCreate => exec_pc \in BeforeCreate
      PROVE StopInv'
  BY <1>5
<1>6. CASE ExecNext
  <2>1. CASE Started
    BY <2>1, <1>5 DEF Started
  <2>2. ASSUME NEW found \in BOOLEAN, FindChunkToPlay(found) PROVE StopInv'
    BY <2>2, <1>5 DEF FindChunkToPlay
  <2>3. CASE BeginChunkWait \/ ChunkWaitNotified \/ ChunkWaitTimeout
    BY <2>3, <1>5 DEF BeginChunkWait, ChunkWaitNotified, ChunkWaitTimeout
  <2>4. ASSUME NEW built \in BOOLEAN, InitPipeLine(built) PROVE StopInv'
    BY <2>4, <1>5 DEF InitPipeLine
  <2>5. CASE RunMainLoop \/ MainLoopEnded \/ DestroyStream
    BY <2>5, <1>5 DEF RunMainLoop, MainLoopEnded, DestroyStream
  <2>6. CASE RunEnded
    BY <2>6, <1>5 DEF RunEnded, PauseBeforeRestart
  <2>7. CASE BeginPause \/ PauseNotified
    BY <2>7, <1>5 DEF BeginPause, PauseNotified
  <2>8. CASE PauseTimeout
    BY <2>8, <1>5 DEF PauseTimeout
  <2>9. CASE StopLoop \/ JoinLoop
    BY <2>9, <1>5 DEF StopLoop, JoinLoop
  <2> QED
    BY <1>6, <1>2, <1>3, <2>1, <2>2, <2>3, <2>4, <2>5, <2>6, <2>7, <2>8, <2>9
       DEF ExecNext
<1>7. CASE PipelineNext
  BY <1>7, <1>5 DEF PipelineNext, PipelineStateChanged, PipelineQuit
<1>8. CASE LoopNext
  <2>1. CASE ReceiveCommand
    <3>1. UNCHANGED <<exec_pc, runs>>
      BY <2>1 DEF ReceiveCommand
    <3>2. SignalStop \/ UNCHANGED stop_vars
      BY <2>1 DEF ReceiveCommand, SignalRestart
    <3> QED
      BY <3>1, <3>2, <1>4, <1>5
  <2>2. CASE ReceiveEof \/ TtlExpired
    BY <2>2, <1>4 DEF ReceiveEof, TtlExpired
  <2>3. CASE StopStream \/ QuitStream \/ QuitNothing \/ SetExitStatus
    BY <2>3, <1>5 DEF StopStream, QuitStream, QuitNothing, SetExitStatus
  <2>4. CASE Crash \/ LoopStopped
    BY <2>4, <1>5 DEF Crash, LoopStopped
  <2> QED
    BY <1>8, <2>1, <2>2, <2>3, <2>4 DEF LoopNext
<1>9. CASE PeerNext
  BY <1>9, <1>5 DEF PeerNext, PeerSends, PeerCloses
<1>10. CASE UNCHANGED vars
  BY <1>10, <1>5 DEF vars
<1> QED
  BY <1>6, <1>7, <1>8, <1>9, <1>10 DEF Next, Gone

\* After Stop at most one more stream is created, for any number of failures
\* and commands and any interleaving of the two threads.
THEOREM StopLimitsRuns == Spec => []OneRunAfterStop
<1>1. Init => StopInv
  BY DEF Init, StopInv
<1>2. StopInv => OneRunAfterStop
  BY DEF StopInv, OneRunAfterStop
<1> QED
  BY <1>1, <1>2, TypeCorrect, StopInvStep, PTL DEF Spec

-----------------------------------------------------------------------------
(* The pause before a restart.                                             *)

\* The quotient in the pause is at least one and fits MaxRestartAttempts times.
LEMMA PauseUnit ==
    LET q == restart_after_frozen_sec \div MaxRestartAttempts
    IN  /\ q \in Nat
        /\ q >= 1
        /\ q * MaxRestartAttempts <= restart_after_frozen_sec
<1> DEFINE q == restart_after_frozen_sec \div MaxRestartAttempts
           r == restart_after_frozen_sec % MaxRestartAttempts
<1>1. /\ q \in Int
      /\ r \in 0..(MaxRestartAttempts - 1)
      /\ restart_after_frozen_sec = MaxRestartAttempts * q + r
  BY ControllerAssumption
<1>2. q >= 1
  <2> SUFFICES ASSUME q <= 0 PROVE FALSE
    BY <1>1
  <2>1. MaxRestartAttempts * q <= 0
    BY <1>1, ControllerAssumption
  <2> QED
    BY <1>1, <2>1, ControllerAssumption
<1> QED
  BY <1>1, <1>2, ControllerAssumption

\* After any attempt the pause is positive and at most the frozen one.
LEMMA PauseAfterBounded ==
    ASSUME NEW attempts \in 1..MaxRestartAttempts
    PROVE  /\ PauseAfter(attempts) \in Nat
           /\ PauseAfter(attempts) > 0
           /\ PauseAfter(attempts) <= restart_after_frozen_sec
<1> DEFINE q == restart_after_frozen_sec \div MaxRestartAttempts
<1>1. q \in Nat /\ q >= 1 /\ q * MaxRestartAttempts <= restart_after_frozen_sec
  BY PauseUnit
<1>2. attempts * q >= attempts /\ attempts * q <= q * MaxRestartAttempts
  <2> HIDE DEF q
  <2>1. MaxRestartAttempts - attempts \in Nat
    BY ControllerAssumption
  <2>2. attempts * (q - 1) >= 0 /\ q * (MaxRestartAttempts - attempts) >= 0
    BY <1>1, <2>1
  <2> QED
    BY <1>1, <2>2, ControllerAssumption
<1> QED
  BY <1>1, <1>2, ControllerAssumption DEF PauseAfter

\* What PauseBounded needs besides itself: the attempts counted so far leave
\* room for one more.
PauseInv ==
    /\ restart_attempts < MaxRestartAttempts
    /\ PauseBounded

\* Only RunEnded computes a pause; every other step keeps it or leaves it.
LEMMA PauseInvStep == TypeOK /\ PauseInv /\ [Next]_vars => PauseInv'
<1> SUFFICES ASSUME TypeOK, PauseInv, [Next]_vars PROVE PauseInv'
  OBVIOUS
<1>1. restart_attempts \in Nat /\ wait_time \in Nat
  BY DEF TypeOK
<1> USE ControllerAssumption, <1>1 DEF PauseInv, PauseBounded, stream_vars,
        pause_vars, peer_vars, stop_vars
<1>2. CASE RunEnded
  <2>1. restart_attempts + 1 \in 1..MaxRestartAttempts
    OBVIOUS
  <2>2. CASE PauseBeforeRestart
    BY <2>1, <2>2, PauseAfterBounded DEF PauseBeforeRestart
  <2>3. CASE exec_pc' \in {"return", "while"} /\ restart_attempts' = restart_attempts
    BY <2>3
  <2>4. CASE exec_pc' \in {"return", "while"} /\ restart_attempts' = 0
    BY <2>4
  <2> QED
    BY <1>2, <2>2, <2>3, <2>4 DEF RunEnded
<1>3. ASSUME UNCHANGED <<restart_attempts, wait_time>>,
             exec_pc' \in {"pause_unlocked", "pause"}
                => exec_pc \in {"pause_unlocked", "pause"}
      PROVE PauseInv'
  BY <1>3
<1>4. CASE ExecNext
  <2>1. CASE Started \/ CheckStop
    BY <2>1, <1>3 DEF Started, CheckStop
  <2>2. ASSUME NEW found \in BOOLEAN, FindChunkToPlay(found) PROVE PauseInv'
    BY <2>2, <1>3 DEF FindChunkToPlay
  <2>3. CASE BeginChunkWait \/ ChunkWaitNotified \/ ChunkWaitTimeout
    BY <2>3, <1>3 DEF BeginChunkWait, ChunkWaitNotified, ChunkWaitTimeout
  <2>4. ASSUME NEW created \in BOOLEAN, CreateStream(created) PROVE PauseInv'
    BY <2>4, <1>3 DEF CreateStream
  <2>5. ASSUME NEW built \in BOOLEAN, InitPipeLine(built) PROVE PauseInv'
    BY <2>5, <1>3 DEF InitPipeLine
  <2>6. CASE RunMainLoop \/ MainLoopEnded \/ DestroyStream
    BY <2>6, <1>3 DEF RunMainLoop, MainLoopEnded, DestroyStream
  <2>7. CASE BeginPause \/ PauseNotified
    BY <2>7 DEF BeginPause, PauseNotified
  <2>8. CASE PauseTimeout
    BY <2>8 DEF PauseTimeout
  <2>9. CASE StopLoop \/ JoinLoop
    BY <2>9, <1>3 DEF StopLoop, JoinLoop
  <2> QED
    BY <1>4, <1>2, <2>1, <2>2, <2>3, <2>4, <2>5, <2>6, <2>7, <2>8, <2>9
       DEF ExecNext
<1>5. CASE PipelineNext \/ PeerNext
  BY <1>5, <1>3 DEF PipelineNext, PipelineStateChanged, PipelineQuit,
     PeerNext, PeerSends, PeerCloses
<1>6. CASE LoopNext
  BY <1>6, <1>3 DEF LoopNext, ReceiveCommand, ReceiveEof, TtlExpired,
     StopStream, QuitStream, QuitNothing, SetExitStatus, Crash, LoopStopped
<1>7. CASE UNCHANGED vars
  BY <1>7, <1>3 DEF vars
<1> QED
  BY <1>4, <1>5, <1>6, <1>7 DEF Next, Gone

\* A pause is never empty and never longer than the one of a frozen stream,
\* for every number of attempts up to the frozen pause in seconds.
THEOREM PausesAreBounded == Spec => []PauseBounded
<1>1. Init => PauseInv
  BY ControllerAssumption DEF Init, PauseInv, PauseBounded
<1>2. PauseInv => PauseBounded
  BY DEF PauseInv
<1> QED
  BY <1>1, <1>2, TypeCorrect, PauseInvStep, PTL DEF Spec

-----------------------------------------------------------------------------
(* What Exec keeps from run to run.                                        *)

\* Where the exec thread can be with another run ahead of it.
RunAhead == {"start", "while", "pause_unlocked", "pause"} \cup BeforeCreate

\* A vod with a run ahead of it has not run yet; the other two parts are the
\* properties themselves.
RunInv ==
    /\ IsVod /\ exec_pc \in RunAhead => runs = 0
    /\ VodRunsOnce
    /\ IdleWithinUptime
    /\ PlayingOnlyInLoop

\* Every step keeps RunInv.
LEMMA RunInvStep == TypeOK /\ RunInv /\ [Next]_vars => RunInv'
<1> SUFFICES ASSUME TypeOK, RunInv, [Next]_vars PROVE RunInv'
  OBVIOUS
<1>1. /\ runs \in Nat
      /\ idle_time \in Nat
      /\ clock \in Nat
      /\ wait_time \in Nat
  BY DEF TypeOK
<1> USE ControllerAssumption, <1>1 DEF RunInv, VodRunsOnce, IdleWithinUptime,
        PlayingOnlyInLoop, IsVod, RunAhead, BeforeCreate, stream_vars,
        pause_vars, peer_vars, stop_vars
<1>2. ASSUME UNCHANGED <<config, runs, idle_time, clock>>,
             exec_pc' \in RunAhead => exec_pc \in RunAhead,
             status' = "PLAYING" => exec_pc' \in {"looping", "crashed"}
      PROVE RunInv'
  BY <1>2
<1>3. CASE ExecNext
  <2>1. CASE Started \/ CheckStop
    BY <2>1, <1>2 DEF Started, CheckStop
  <2>2. ASSUME NEW found \in BOOLEAN, FindChunkToPlay(found) PROVE RunInv'
    BY <2>2, <1>2 DEF FindChunkToPlay
  <2>3. CASE BeginChunkWait \/ ChunkWaitNotified \/ ChunkWaitTimeout
    BY <2>3, <1>2 DEF BeginChunkWait, ChunkWaitNotified, ChunkWaitTimeout
  <2>4. ASSUME NEW created \in BOOLEAN, CreateStream(created) PROVE RunInv'
    BY <2>4 DEF CreateStream
  <2>5. ASSUME NEW built \in BOOLEAN, InitPipeLine(built) PROVE RunInv'
    BY <2>5, <1>2 DEF InitPipeLine
  <2>6. CASE RunMainLoop \/ MainLoopEnded \/ DestroyStream
    BY <2>6, <1>2 DEF RunMainLoop, MainLoopEnded, DestroyStream
  <2>7. CASE RunEnded
    BY <2>7 DEF RunEnded, PauseBeforeRestart
  <2>8. CASE BeginPause \/ PauseNotified
    BY <2>8, <1>2 DEF BeginPause, PauseNotified
  <2>9. CASE PauseTimeout
    BY <2>9 DEF PauseTimeout
  <2>10. CASE StopLoop \/ JoinLoop
    BY <2>10, <1>2 DEF StopLoop, JoinLoop
  <2> QED
    BY <1>3, <2>1, <2>2, <2>3, <2>4, <2>5, <2>6, <2>7, <2>8, <2>9, <2>10
       DEF ExecNext
<1>4. CASE PipelineNext \/ PeerNext
  BY <1>4, <1>2 DEF PipelineNext, PipelineStateChanged, PipelineQuit,
     PeerNext, PeerSends, PeerCloses
<1>5. CASE LoopNext
  BY <1>5, <1>2 DEF LoopNext, ReceiveCommand, ReceiveEof, TtlExpired,
     StopStream, QuitStream, QuitNothing, SetExitStatus, Crash, LoopStopped
<1>6. CASE UNCHANGED vars
  BY <1>6, <1>2 DEF vars
<1> QED
  BY <1>3, <1>4, <1>5, <1>6 DEF Next, Gone

\* RunInv is an invariant of the specification.
LEMMA RunInvHolds == Spec => []RunInv
<1>1. Init => RunInv
  BY DEF Init, RunInv, VodRunsOnce, IdleWithinUptime, PlayingOnlyInLoop
<1> QED
  BY <1>1, TypeCorrect, RunInvStep, PTL DEF Spec

\* A vod is run at most once, whatever fails and whatever the daemon sends.
THEOREM VodIsNotRepeated == Spec => []VodRunsOnce
<1>1. RunInv => VodRunsOnce
  BY DEF RunInv
<1> QED
  BY <1>1, RunInvHolds, PTL

\* The reported idle time never exceeds the time the process exists.
THEOREM IdleTimeIsBounded == Spec => []IdleWithinUptime
<1>1. RunInv => IdleWithinUptime
  BY DEF RunInv
<1> QED
  BY <1>1, RunInvHolds, PTL

\* PLAYING is reported only by a stream whose main loop was started and has
\* not been cleaned up.
THEOREM PlayingIsLooping == Spec => []PlayingOnlyInLoop
<1>1. RunInv => PlayingOnlyInLoop
  BY DEF RunInv
<1> QED
  BY <1>1, RunInvHolds, PTL

\* What the process reports of itself, and its pauses, for every configuration.
THEOREM BookkeepingHolds == Spec => []Bookkeeping
BY TypeCorrect, PausesAreBounded, IdleTimeIsBounded, PlayingIsLooping, PTL
   DEF Bookkeeping

\* Neither a stop nor a vod is followed by more runs than Exec allows for.
THEOREM RunsHaveLimits == Spec => []RunsAreLimited
BY StopLimitsRuns, VodIsNotRepeated, PTL DEF RunsAreLimited
=============================================================================
