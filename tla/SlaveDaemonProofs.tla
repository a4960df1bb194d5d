--------------------------- MODULE SlaveDaemonProofs ---------------------------
(***************************************************************************)
(* Proofs about SlaveDaemon for every set of streams and clients and every *)
(* bound.                                                                  *)
(***************************************************************************)
EXTENDS SlaveDaemon, TLAPS

\* The steps that leave the daemon's children, pipes and processes alone.
Quiet == UNCHANGED <<daemon, child_vars>>

\* The requests that only answer.
Asks(c) ==
    \/ GetLogStream(c) \/ GetPipelineStream(c)
    \/ PrepareService(c) \/ SyncService(c)
    \/ PingService(c) \/ GetLogService(c)

\* They change nothing but the answer.
LEMMA AsksAnswers ==
  ASSUME NEW c \in Clients, Asks(c)
  PROVE  /\ reply' = "QuerySuccess"
         /\ UNCHANGED <<daemon, quit_timer, client, child_vars, commands, bad_data>>
BY DEF Asks, GetLogStream, GetPipelineStream, PrepareService, SyncService,
       PingService, GetLogService, Answer

\* A request creates no child, or it forks one for an id that is not in use.
LEMMA CreateCases ==
  ASSUME NEW s \in Streams, NEW outcome \in CreateOutcomes,
         CreateChildStream(s, outcome)
  PROVE  UNCHANGED child_vars \/ (FindChildByID(s) = {} /\ ForkChild(s))
BY DEF CreateChildStream

\* Every step keeps the types.
LEMMA TypeOKStep == TypeOK /\ [Next]_vars => TypeOK'
<1> SUFFICES ASSUME TypeOK, [Next]_vars PROVE TypeOK'
  OBVIOUS
<1> USE DaemonAssumption DEF TypeOK, Pids, ClientStates, ProcessStates,
        CommandKinds, ReplyKinds, child_vars
<1>1. ASSUME NEW c \in Clients, Connect(c) PROVE TypeOK'
  BY <1>1 DEF Connect
<1>2. ASSUME NEW c \in Clients, NEW valid \in BOOLEAN, NEW written \in BOOLEAN,
             Activate(c, valid, written)
      PROVE  TypeOK'
  BY <1>2 DEF Activate
<1>3. ASSUME NEW c \in Clients, LicenseExpires(c) PROVE TypeOK'
  BY <1>3 DEF LicenseExpires
<1>4. ASSUME NEW c \in Clients, ClientLost(c) PROVE TypeOK'
  BY <1>4 DEF ClientLost
<1>5. ASSUME NEW c \in Clients, Asks(c) PROVE TypeOK'
  BY <1>5, AsksAnswers
<1>6. ASSUME NEW c \in Clients, StopService(c) PROVE TypeOK'
  <2>1. quit_timer' \in BOOLEAN
    BY <1>6, Zenon DEF StopService
  <2>2. CASE quit_timer
    BY <1>6, <2>1, <2>2 DEF StopService
  <2>3. CASE ~quit_timer
    <3>1. commands' = StopAll(childs) /\ reply' = "StopSuccess"
      BY <1>6, <2>3, Zenon DEF StopService
    <3>2. commands' \in [Pids -> Seq(CommandKinds)]
      BY <3>1 DEF StopAll
    <3> QED
      BY <1>6, <2>1, <3>1, <3>2 DEF StopService
  <2> QED
    BY <2>2, <2>3
<1>7. ASSUME NEW s \in Streams, ForkChild(s)
      PROVE  /\ forks' \in 0..MaxForks
             /\ sid' \in [Pids -> Streams \cup {NoStream}]
             /\ proc' \in [Pids -> ProcessStates]
             /\ childs' \in SUBSET Pids
             /\ client_' \in SUBSET Pids
             /\ pipes' \in SUBSET Pids
             /\ holders' \in [Pids -> SUBSET Pids]
  BY <1>7 DEF ForkChild
<1>8. ASSUME NEW c \in Clients, NEW s \in Streams, NEW outcome \in CreateOutcomes,
             StartStream(c, s, outcome)
      PROVE  TypeOK'
  BY <1>7, <1>8, CreateCases DEF StartStream
<1>9. ASSUME NEW s \in Streams, NEW outcome \in CreateOutcomes,
             StartOnDemand(s, outcome)
      PROVE  TypeOK'
  BY <1>7, <1>9, CreateCases DEF StartOnDemand
<1>10. ASSUME NEW c \in Clients, NEW s \in Streams, StopStream(c, s)
       PROVE  TypeOK'
  BY <1>10 DEF StopStream, StopAll
<1>11. ASSUME NEW c \in Clients, NEW s \in Streams, RestartStream(c, s)
       PROVE  TypeOK'
  BY <1>11 DEF RestartStream
<1>12. ASSUME NEW expired \in SUBSET childs, StopExpiredCods(expired)
       PROVE  TypeOK'
  BY <1>12 DEF StopExpiredCods, StopAll
<1>13. ASSUME NEW p \in Pids, PipeClosed(p) PROVE TypeOK'
  BY <1>13 DEF PipeClosed, BadData
<1>14. ASSUME NEW p \in Pids, ChildStatusChanged(p) PROVE TypeOK'
  BY <1>14 DEF ChildStatusChanged
<1>15. CASE QuitCleanup
  BY <1>15 DEF QuitCleanup
<1>16. ASSUME NEW p \in Pids, NEW lost \in BOOLEAN, ProcessReads(p, lost)
       PROVE  TypeOK'
  BY <1>16 DEF ProcessReads
<1>17. ASSUME NEW p \in Pids, ProcessAtEof(p) PROVE TypeOK'
  BY <1>17 DEF ProcessAtEof
<1>18. ASSUME NEW p \in Pids, ProcessExits(p) PROVE TypeOK'
  BY <1>18 DEF ProcessExits
<1>19. CASE UNCHANGED vars
  BY <1>19 DEF vars
<1> QED
  BY <1>1, <1>2, <1>3, <1>4, <1>5, <1>6, <1>8, <1>9, <1>10, <1>11, <1>12,
     <1>13, <1>14, <1>15, <1>16, <1>17, <1>18, <1>19
     DEF Next, ClientNext, LoopNext, ProcessNext, AllGone, Asks

\* Type correctness of the daemon.
THEOREM TypeCorrect == Spec => []TypeOK
<1>1. Init => TypeOK
  <2> SUFFICES ASSUME Init PROVE TypeOK
    OBVIOUS
  <2>1. quit_timer \in BOOLEAN
    BY Zenon DEF Init
  <2> QED
    BY <2>1, DaemonAssumption DEF Init, TypeOK, Pids, ClientStates,
       ProcessStates, CommandKinds, ReplyKinds
<1> QED
  BY <1>1, TypeOKStep, PTL DEF Spec

-----------------------------------------------------------------------------
(* None of the safety invariants is inductive. OneProcessPerStream needs that *)
(* the daemon knows every live process and that registered children have      *)
(* different ids; HoldersAreYounger needs that a pid is always a new one.     *)

\* Nothing is known of a process that has not been forked.
PidsAreNew ==
    /\ \A p \in Pids : p > forks => proc[p] = "none" /\ holders[p] = {}
    /\ \A p \in childs \cup pipes : p <= forks

\* Registered children have different stream ids.
OneChildPerStream == \A p, q \in childs : sid[p] = sid[q] => p = q

SafeInv ==
    /\ PidsAreNew
    /\ OneChildPerStream
    /\ NoDanglingClient
    /\ ProcessesAreTracked
    /\ HoldersAreYounger

\* A step that is quiet about the children keeps the invariant.
LEMMA QuietKeepsSafe == TypeOK /\ SafeInv /\ Quiet => SafeInv'
BY DEF TypeOK, SafeInv, Quiet, child_vars, PidsAreNew, OneChildPerStream,
       NoDanglingClient, ProcessesAreTracked, HoldersAreYounger, Alive

\* So does a fork for an id that no child has.
LEMMA ForkKeepsSafe ==
  ASSUME TypeOK, SafeInv, NEW s \in Streams, FindChildByID(s) = {},
         ForkChild(s), daemon = "running", daemon' = daemon
  PROVE  SafeInv'
<1> DEFINE p == forks + 1
<1> USE DaemonAssumption
<1>1. /\ p \in Pids
      /\ forks' = p
      /\ p \notin childs \cup pipes
      /\ proc[p] = "none"
      /\ holders[p] = {}
  BY DEF TypeOK, SafeInv, PidsAreNew, ForkChild, Pids
<1>2. PidsAreNew'
  BY <1>1 DEF TypeOK, SafeInv, PidsAreNew, ForkChild, Pids
<1>3. OneChildPerStream'
  BY <1>1 DEF TypeOK, SafeInv, OneChildPerStream, ForkChild, FindChildByID
<1>4. NoDanglingClient'
  BY DEF SafeInv, NoDanglingClient, ForkChild
<1>5. ProcessesAreTracked'
  BY <1>1 DEF TypeOK, SafeInv, ProcessesAreTracked, ForkChild, Alive
<1>6. HoldersAreYounger'
  <2> SUFFICES ASSUME NEW o \in Pids, NEW q \in holders'[o]
               PROVE  q > o /\ Alive(q)'
    BY DEF HoldersAreYounger
  <2>1. CASE q \in holders[o]
    <3>1. q > o /\ Alive(q) /\ q \in Pids
      BY <2>1 DEF TypeOK, SafeInv, HoldersAreYounger
    <3> QED
      BY <1>1, <3>1 DEF TypeOK, ForkChild, Alive
  <2>2. CASE q = p /\ o \in pipes
    <3>1. o <= forks
      BY <2>2 DEF SafeInv, PidsAreNew
    <3> QED
      BY <1>1, <2>2, <3>1 DEF TypeOK, ForkChild, Alive, Pids
  <2> QED
    BY <2>1, <2>2 DEF TypeOK, ForkChild
<1> QED
  BY <1>2, <1>3, <1>4, <1>5, <1>6 DEF SafeInv

\* Every step keeps the invariant.
LEMMA SafeInvStep == TypeOK /\ SafeInv /\ [Next]_vars => SafeInv'
<1> SUFFICES ASSUME TypeOK, SafeInv, [Next]_vars PROVE SafeInv'
  OBVIOUS
<1> USE DaemonAssumption
<1>1. ASSUME NEW c \in Clients,
             \/ Connect(c) \/ LicenseExpires(c) \/ ClientLost(c) \/ StopService(c)
             \/ \E valid, written \in BOOLEAN : Activate(c, valid, written)
             \/ \E s \in Streams : StopStream(c, s) \/ RestartStream(c, s)
      PROVE  SafeInv'
  BY <1>1, QuietKeepsSafe DEF Connect, LicenseExpires, ClientLost, StopService,
     Activate, StopStream, RestartStream, Quiet
<1>2. ASSUME NEW c \in Clients, Asks(c) PROVE SafeInv'
  BY <1>2, AsksAnswers, QuietKeepsSafe DEF Quiet
<1>3. ASSUME NEW c \in Clients, NEW s \in Streams, NEW outcome \in CreateOutcomes,
             StartStream(c, s, outcome)
      PROVE  SafeInv'
  BY <1>3, CreateCases, ForkKeepsSafe, QuietKeepsSafe DEF StartStream, Quiet
<1>4. ASSUME NEW s \in Streams, NEW outcome \in CreateOutcomes,
             StartOnDemand(s, outcome)
      PROVE  SafeInv'
  BY <1>4, CreateCases, ForkKeepsSafe, QuietKeepsSafe DEF StartOnDemand, Quiet
<1>5. ASSUME NEW expired \in SUBSET childs, StopExpiredCods(expired)
      PROVE  SafeInv'
  BY <1>5, QuietKeepsSafe DEF StopExpiredCods, Quiet
<1> USE DEF TypeOK, SafeInv, PidsAreNew, OneChildPerStream, NoDanglingClient,
        ProcessesAreTracked, HoldersAreYounger, Alive, Pids
<1>6. ASSUME NEW p \in Pids, PipeClosed(p) PROVE SafeInv'
  BY <1>6 DEF PipeClosed, BadData
<1>7. ASSUME NEW p \in Pids, ChildStatusChanged(p) PROVE SafeInv'
  BY <1>7 DEF ChildStatusChanged
<1>8. CASE QuitCleanup
  BY <1>8 DEF QuitCleanup
<1>9. ASSUME NEW p \in Pids, NEW lost \in BOOLEAN, ProcessReads(p, lost)
      PROVE  SafeInv'
  BY <1>9 DEF ProcessReads
<1>10. ASSUME NEW p \in Pids, ProcessAtEof(p) PROVE SafeInv'
  BY <1>10 DEF ProcessAtEof
<1>11. ASSUME NEW p \in Pids, ProcessExits(p) PROVE SafeInv'
  BY <1>11 DEF ProcessExits
<1>12. CASE UNCHANGED vars
  BY <1>12 DEF vars, child_vars
<1> HIDE DEF TypeOK, SafeInv, PidsAreNew, OneChildPerStream, NoDanglingClient,
         ProcessesAreTracked, HoldersAreYounger, Alive, Pids
<1> QED
  BY <1>1, <1>2, <1>3, <1>4, <1>5, <1>6, <1>7, <1>8, <1>9, <1>10, <1>11, <1>12
     DEF Next, ClientNext, LoopNext, ProcessNext, AllGone, Asks

\* The types and the invariant hold in every state.
THEOREM SafeInvHolds == Spec => [](TypeOK /\ SafeInv)
<1>1. Init => SafeInv
  BY DEF Init, SafeInv, PidsAreNew, OneChildPerStream, NoDanglingClient,
         ProcessesAreTracked, HoldersAreYounger, Alive
<1> QED
  BY <1>1, TypeCorrect, TypeOKStep, SafeInvStep, PTL DEF Spec

\* No registered child keeps a deleted pipe client, in whichever order the
\* exit of the process and the end of its pipe are seen.
THEOREM ClientsDoNotDangle == Spec => []NoDanglingClient
<1>1. SafeInv => NoDanglingClient
  BY DEF SafeInv
<1> QED
  BY <1>1, SafeInvHolds, PTL

\* The daemon knows every live process it forked.
THEOREM LiveProcessesAreTracked == Spec => []ProcessesAreTracked
<1>1. SafeInv => ProcessesAreTracked
  BY DEF SafeInv
<1> QED
  BY <1>1, SafeInvHolds, PTL

\* A command pipe is inherited by younger, living processes only.
THEOREM InheritedByYounger == Spec => []HoldersAreYounger
<1>1. SafeInv => HoldersAreYounger
  BY DEF SafeInv
<1> QED
  BY <1>1, SafeInvHolds, PTL

\* Two live processes never share a stream id while the daemon runs.
THEOREM StreamsHaveOneProcess == Spec => []OneProcessPerStream
<1>1. SafeInv => OneProcessPerStream
  BY DEF SafeInv, OneChildPerStream, ProcessesAreTracked, OneProcessPerStream
<1> QED
  BY <1>1, SafeInvHolds, PTL

-----------------------------------------------------------------------------
(* The refinement of StreamRegistry, without its fairness.                  *)

Live == {<<sid[p], p>> : p \in {q \in Pids : Alive(q)}}

\* A step after which the same processes live, with the same ids, in a daemon
\* that goes on, is no step of the registry.
LEMMA SameProcessesStutter ==
  ASSUME daemon' = daemon, forks' = forks, sid' = sid,
         \A p \in Pids : Alive(p)' <=> Alive(p)
  PROVE  UNCHANGED Registry!vars
<1>1. Live' = Live
  BY DEF Live
<1> QED
  BY <1>1 DEF Registry!vars, Live

\* A fork for an id that no child has starts an instance of the registry.
LEMMA ForkStarts ==
  ASSUME TypeOK, SafeInv, NEW s \in Streams, FindChildByID(s) = {},
         ForkChild(s), daemon = "running", daemon' = daemon
  PROVE  Registry!Start(s)
<1> DEFINE p == forks + 1
<1> USE DaemonAssumption
<1>1. p \in Pids /\ proc[p] = "none"
  BY DEF TypeOK, SafeInv, PidsAreNew, ForkChild, Pids
<1>2. \A i \in Live : i[1] # s
  BY DEF Live, SafeInv, ProcessesAreTracked, FindChildByID
<1>3. \A q \in Pids : Alive(q)' <=> (q = p \/ Alive(q))
  BY <1>1 DEF TypeOK, ForkChild, Alive
<1>4. \A q \in Pids : sid'[q] = IF q = p THEN s ELSE sid[q]
  BY <1>1 DEF TypeOK, ForkChild
<1>5. ~Alive(p)
  BY <1>1 DEF Alive
<1>6. Live' = Live \cup {<<s, p>>}
  BY <1>1, <1>3, <1>4, <1>5 DEF Live
<1>7. forks' = p
  BY DEF ForkChild
<1> QED
  BY <1>2, <1>6, <1>7 DEF Registry!Start, Live

\* The exit of a process finishes its instance.
LEMMA ExitFinishes ==
  ASSUME TypeOK, NEW p \in Pids, ProcessExits(p), NEW i, i = <<sid[p], p>>
  PROVE  Registry!Finish(i)
<1>1. \A q \in Pids : Alive(q)' <=> (q # p /\ Alive(q))
  BY DEF TypeOK, ProcessExits, Alive
<1>2. Live' = Live \ {<<sid[p], p>>}
  BY <1>1 DEF Live, ProcessExits
<1>3. <<sid[p], p>> \in Live
  BY DEF Live, ProcessExits
<1> QED
  BY <1>2, <1>3 DEF Registry!Finish, Live, ProcessExits

\* Every step of the daemon and its processes is a step of the registry or
\* leaves it as it is.
LEMMA RegistryStep ==
  TypeOK /\ SafeInv /\ [Next]_vars => [Registry!Next]_(Registry!vars)
<1> SUFFICES ASSUME TypeOK, SafeInv, [Next]_vars
             PROVE  Registry!Next \/ UNCHANGED Registry!vars
  OBVIOUS
<1>1. ASSUME Quiet PROVE UNCHANGED Registry!vars
  BY <1>1, SameProcessesStutter DEF Quiet, child_vars, Alive
<1>2. ASSUME NEW c \in Clients,
             \/ Connect(c) \/ LicenseExpires(c) \/ ClientLost(c) \/ StopService(c)
             \/ \E valid, written \in BOOLEAN : Activate(c, valid, written)
             \/ \E s \in Streams : StopStream(c, s) \/ RestartStream(c, s)
      PROVE  UNCHANGED Registry!vars
  BY <1>1, <1>2 DEF Connect, LicenseExpires, ClientLost, StopService,
     Activate, StopStream, RestartStream, Quiet
<1>3. ASSUME NEW c \in Clients, Asks(c) PROVE UNCHANGED Registry!vars
  BY <1>1, <1>3, AsksAnswers DEF Quiet
<1>4. ASSUME NEW c \in Clients, NEW s \in Streams, NEW outcome \in CreateOutcomes,
             StartStream(c, s, outcome)
      PROVE  Registry!Next \/ UNCHANGED Registry!vars
  BY <1>1, <1>4, CreateCases, ForkStarts DEF StartStream, Quiet, Registry!Next
<1>5. ASSUME NEW s \in Streams, NEW outcome \in CreateOutcomes,
             StartOnDemand(s, outcome)
      PROVE  Registry!Next \/ UNCHANGED Registry!vars
  BY <1>1, <1>5, CreateCases, ForkStarts DEF StartOnDemand, Quiet, Registry!Next
<1>6. ASSUME NEW expired \in SUBSET childs, StopExpiredCods(expired)
      PROVE  UNCHANGED Registry!vars
  BY <1>1, <1>6 DEF StopExpiredCods, Quiet
<1>7. ASSUME NEW p \in Pids, PipeClosed(p) \/ ChildStatusChanged(p)
      PROVE  UNCHANGED Registry!vars
  BY <1>7, SameProcessesStutter DEF PipeClosed, ChildStatusChanged, Alive
<1>8. ASSUME QuitCleanup PROVE Registry!Next
  <2>1. Live' = Live
    BY <1>8 DEF QuitCleanup, Live, Alive
  <2>2. daemon = "running" /\ daemon' = "stopped" /\ forks' = forks
    BY <1>8 DEF QuitCleanup
  <2>3. (daemon' = "running") = FALSE
    BY <2>2
  <2>4. Registry!Shutdown
    BY <2>1, <2>2, <2>3, Zenon DEF Live, Registry!Shutdown
  <2> QED
    BY <2>4 DEF Registry!Next
<1>9. ASSUME NEW p \in Pids, NEW lost \in BOOLEAN, ProcessReads(p, lost)
      PROVE  UNCHANGED Registry!vars
  BY <1>9, SameProcessesStutter DEF TypeOK, ProcessReads, Alive
<1>10. ASSUME NEW p \in Pids, ProcessAtEof(p) PROVE UNCHANGED Registry!vars
  BY <1>10, SameProcessesStutter DEF TypeOK, ProcessAtEof, Alive
<1>11. ASSUME NEW p \in Pids, ProcessExits(p) PROVE Registry!Next
  <2>1. PICK i \in Live : i = <<sid[p], p>>
    BY <1>11 DEF ProcessExits, Live
  <2>2. Registry!Finish(i)
    BY <1>11, <2>1, ExitFinishes
  <2> QED
    BY <2>1, <2>2 DEF Registry!Next, Live
<1>12. ASSUME UNCHANGED vars PROVE UNCHANGED Registry!vars
  BY <1>1, <1>12 DEF vars, Quiet, child_vars
<1> QED
  BY <1>2, <1>3, <1>4, <1>5, <1>6, <1>7, <1>8, <1>9, <1>10, <1>11, <1>12
     DEF Next, ClientNext, LoopNext, ProcessNext, AllGone, Asks

\* The daemon with its processes implements the safety part of the registry of
\* streams: an instance starts only for a stream without one and only while
\* the daemon serves, and is never revived.
THEOREM RegistryIsImplemented == Spec => Registry!SafeSpec
<1>1. Init => Registry!Init
  BY DEF Init, Registry!Init, Alive
<1> QED
  BY <1>1, RegistryStep, SafeInvHolds, PTL DEF Spec, Registry!SafeSpec

\* The daemon's tables agree with its processes, for any number of both.
THEOREM ProcessesAreAccounted == Spec => []ProcessesAreKnown
BY TypeCorrect, ClientsDoNotDangle, LiveProcessesAreTracked,
   InheritedByYounger, PTL DEF ProcessesAreKnown
===============================================================================
