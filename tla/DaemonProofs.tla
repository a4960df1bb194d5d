------------------------------ MODULE DaemonProofs ------------------------------
(***************************************************************************)
(* Proofs about the daemon. Its threads: for any number of daemons that    *)
(* are started, stopped and killed on one host, and every configuration    *)
(* file (DaemonThreads). What it tells its clients of the streams: for any *)
(* number of streams, runs, clients and messages (Reports). What it tells  *)
(* them of the node: for any interfaces, counters and reports (NodeStats). *)
(***************************************************************************)
EXTENDS DaemonThreads, Reports, NodeStats, FiniteSetTheorems, SequenceTheorems, TLAPS

-----------------------------------------------------------------------------
(* Threads of the daemon: the inductive invariant.                         *)

\* main has locked the pid file and not given it back.
HoldingPcs == {"locked", "binding", "looping", "looped", "joining", "joined",
               "stopped", "returned"}

\* main has the pid file open, or is about to remove it.
FilePcs == {"opened", "unlocked"} \cup HoldingPcs
Pcs     == {"off", "loaded", "closed", "ended"} \cup FilePcs

\* Exec is running.
ExecPcs == {"binding", "looping", "looped", "joining", "joined", "stopped"}

\* The types, with those of the variables TypeOK does not speak of.
Types ==
    /\ TypeOK
    /\ pc \in [Daemons -> Pcs]
    /\ stop_flag_ \in [Daemons -> BOOLEAN]
    /\ exclusive \in BOOLEAN

\* A daemon has a file open exactly between OpenPidFile and ClosePidFile, and
\* has it locked exactly between LockPidFile and UnlockPidFile.
LocksAreHeld ==
    /\ \A d \in Daemons : pc[d] \in FilePcs <=> inode[d] # 0
    /\ \A d \in Daemons : pc[d] \in HoldingPcs => lock[inode[d]] = d
    /\ \A i \in Inodes : lock[i] # Nobody => inode[lock[i]] = i /\ pc[lock[i]] \in HoldingPcs

\* With exclusive creation the name stays taken while one process is between
\* opening the file and removing it, and no other gets there.
FileIsExclusive ==
    exclusive => \A d \in Daemons : pc[d] \in FilePcs \cup {"closed"} =>
                     /\ path # 0
                     /\ \A e \in Daemons : pc[e] \in FilePcs \cup {"closed"} => e = d

\* Outside Exec a process has no thread, no monitor and no port. The servers
\* are joined before the monitor, and there are timers only while the loop runs.
ThreadsAreOfExec ==
    \A d \in Daemons :
        /\ pc[d] \notin ExecPcs =>
               /\ perf[d] \in {"none", "ended"}
               /\ \A r \in Ports : port[r] # d
        /\ pc[d] \notin ExecPcs \ {"joined", "stopped"} =>
               \A s \in Servers : thread[d][s] \in {"none", "ended"}
        /\ pc[d] \notin {"looping", "looped"} => timers[d] = {}

IndInv == Types /\ LocksAreHeld /\ FileIsExclusive /\ ThreadsAreOfExec

-----------------------------------------------------------------------------
(* The pid file.                                                           *)

\* When a process without a file creates one, there is a number for it: each of
\* the others has at most one file open, and only open files are locked.
LEMMA UnusedExists ==
    ASSUME Types, LocksAreHeld, NEW d \in Daemons, inode[d] = 0, path = 0
    PROVE  /\ Unused \in Inodes
           /\ lock[Unused] = Nobody
           /\ \A e \in Daemons : inode[e] # Unused
<1> DEFINE Spare(i) == i # path /\ lock[i] = Nobody /\ \A e \in Daemons : inode[e] # i
<1>1. Cardinality(Daemons) \in Nat
  BY DaemonThreadsAssumption, FS_CardinalityType
<1>2. \E i \in Inodes : Spare(i)
  <2> SUFFICES ASSUME \A i \in Inodes : ~Spare(i) PROVE FALSE
    OBVIOUS
  <2> DEFINE Other == Daemons \ {d}
             Opener == [i \in Inodes |-> CHOOSE e \in Other : inode[e] = i]
  <2>1. \A i \in Inodes : i # 0
    BY <1>1 DEF Inodes
  <2>2. \A i \in Inodes : \E e \in Other : inode[e] = i
    <3>1. lock \in [Inodes -> Daemons \cup {Nobody}]
      BY DEF Types, TypeOK
    <3>2. \A i \in Inodes : i # path
      BY <2>1
    <3> QED
      BY <2>1, <3>1, <3>2 DEF LocksAreHeld
  <2>3. Opener \in [Inodes -> Other] /\ \A i \in Inodes : inode[Opener[i]] = i
    BY <2>2
  <2>4. IsFiniteSet(Other) /\ Cardinality(Other) = Cardinality(Daemons) - 1
    BY DaemonThreadsAssumption, FS_RemoveElement
  <2>5. IsFiniteSet(Inodes) /\ Cardinality(Inodes) = Cardinality(Daemons)
    BY <1>1, FS_Interval DEF Inodes
  <2>6. Cardinality(Other) < Cardinality(Inodes)
    BY <1>1, <2>4, <2>5
  <2>7. \E i, j \in Inodes : i # j /\ Opener[i] = Opener[j]
    <3> HIDE DEF Opener, Other
    <3> QED
      BY <2>3, <2>4, <2>5, <2>6, FS_PigeonHole
  <2> QED
    BY <2>3, <2>7
<1>3. Unused \in Inodes /\ Spare(Unused)
  BY <1>2 DEF Unused
<1> QED
  BY <1>3

-----------------------------------------------------------------------------
(* Types.                                                                  *)

\* A loaded configuration has a port for every server, whatever the file says.
LEMMA LoadedPorts ==
    ASSUME NEW args
    PROVE  LoadConfig(args) \in [Servers \cup {"main"} -> Ports]
BY DaemonThreadsAssumption DEF LoadConfig

\* Opening the pid file keeps the types: the name stands for a file afterwards.
LEMMA OpenedFile ==
    ASSUME Types, LocksAreHeld, NEW d \in Daemons, OpenPidFile(d)
    PROVE  /\ path' \in Inodes \cup {0}
           /\ inode' \in [Daemons -> Inodes \cup {0}]
           /\ pc'[d] = "opened" => path' # 0 /\ inode' = [inode EXCEPT ![d] = path']
<1>1. inode[d] = 0
  BY DEF LocksAreHeld, OpenPidFile, FilePcs, HoldingPcs
<1>2. 0 \notin Inodes
  BY DaemonThreadsAssumption, FS_CardinalityType DEF Inodes
<1>3. path = 0 => Unused \in Inodes
  BY <1>1, UnusedExists
<1>4. path' \in Inodes \cup {0} /\ (pc'[d] = "opened" => path' # 0)
  BY <1>2, <1>3 DEF OpenPidFile, Goto, Types, TypeOK
<1> QED
  BY <1>4 DEF OpenPidFile, Goto, Types, TypeOK

\* Every step keeps the types.
LEMMA TypesStep ==
    ASSUME IndInv, NEW d \in Daemons,
           \/ Start(d) \/ Main(d) \/ Perf(d) \/ SendStopDaemonRequest(d) \/ Children(d) \/ Killed(d)
           \/ \E s \in Servers : Server(d, s)
    PROVE  Types'
<1> USE DaemonThreadsAssumption DEF Goto, pid_vars, server_vars, perf_vars
<1>0. Types /\ LocksAreHeld
  BY DEF IndInv
<1>1. CASE Start(d)
  <2>1. config' \in [Daemons -> [Servers \cup {"main"} -> Ports]]
    <3>1. \/ config' = [config EXCEPT ![d] = LoadConfig(ReadConfigFile(config_file))]
          \/ config' = config
      BY <1>1 DEF Start
    <3>2. LoadConfig(ReadConfigFile(config_file)) \in [Servers \cup {"main"} -> Ports]
      BY LoadedPorts
    <3>3. config \in [Daemons -> [Servers \cup {"main"} -> Ports]]
      BY <1>0 DEF Types, TypeOK
    <3> QED
      BY <3>1, <3>2, <3>3
  <2>2. pc'[d] = "loaded" => "license" \in DOMAIN config_file
    BY <1>0, <1>1 DEF Start, ReadConfigFile, Types
  <2> QED
    BY <1>0, <1>1, <2>1, <2>2 DEF Start, Types, TypeOK, Pcs
<1>2. CASE OpenPidFile(d)
  BY <1>0, <1>2, OpenedFile DEF OpenPidFile, Types, TypeOK, Pcs, FilePcs
<1>3. CASE LockPidFile(d)
  <2>1. CASE lock[inode[d]] = Nobody
    <3>1. lock \in [Inodes -> Daemons \cup {Nobody}] /\ lock' = [lock EXCEPT ![inode[d]] = d]
      BY <1>0, <1>3, <2>1 DEF LockPidFile, Types, TypeOK
    <3>2. lock' \in [Inodes -> Daemons \cup {Nobody}]
      BY <3>1
    <3> QED
      BY <1>0, <1>3, <2>1, <3>2 DEF LockPidFile, Types, TypeOK, Pcs, FilePcs, HoldingPcs
  <2>2. CASE lock[inode[d]] # Nobody
    BY <1>0, <1>3, <2>2 DEF LockPidFile, Types, TypeOK, Pcs
  <2> QED
    BY <2>1, <2>2
<1>4. CASE UnlockPidFile(d) \/ ClosePidFile(d) \/ RemovePidFile(d)
  BY <1>0, <1>4 DEF UnlockPidFile, ClosePidFile, RemovePidFile, Types, TypeOK, Pcs,
     FilePcs, HoldingPcs
<1>5. ASSUME NEW gpu \in BOOLEAN, ExecBegins(d, gpu) PROVE Types'
  BY <1>0, <1>5 DEF ExecBegins, Types, TypeOK, Pcs, FilePcs, HoldingPcs
<1>6. CASE MainBinds(d)
  <2>1. CASE Free(config[d]["main"])
    <3>1. timers' \in [Daemons -> SUBSET (LoopTimers \cup {"quit_cleanup"})]
      <4>1. timers \in [Daemons -> SUBSET (LoopTimers \cup {"quit_cleanup"})]
        BY <1>0 DEF Types, TypeOK
      <4>2. timers' = [timers EXCEPT ![d] = LoopTimers]
        BY <1>6, <2>1 DEF MainBinds
      <4> QED
        BY <4>1, <4>2
    <3>2. port' \in [Ports -> Daemons \cup {Nobody, Foreign}]
      <4>1. port \in [Ports -> Daemons \cup {Nobody, Foreign}]
        BY <1>0 DEF Types, TypeOK
      <4>2. port' = [port EXCEPT ![config[d]["main"]] = d]
        BY <1>6, <2>1 DEF MainBinds
      <4> QED
        BY <4>1, <4>2
    <3> QED
      BY <1>0, <1>6, <2>1, <3>1, <3>2
         DEF MainBinds, Types, TypeOK, Pcs, FilePcs, HoldingPcs
  <2>2. CASE ~Free(config[d]["main"])
    BY <1>0, <1>6, <2>2 DEF MainBinds, Types, TypeOK, Pcs, FilePcs, HoldingPcs
  <2> QED
    BY <2>1, <2>2
<1>7. CASE QuitTimer(d)
  <2>1. stopped' \in [Daemons -> SUBSET Servers]
    BY <1>0, <1>7 DEF QuitTimer, Types, TypeOK
  <2> QED
    BY <1>0, <1>7, <2>1 DEF QuitTimer, Types, TypeOK, Pcs, FilePcs, HoldingPcs
<1>15. CASE JoinServers(d)
  BY <1>0, <1>15 DEF JoinServers, Types, TypeOK, Pcs, FilePcs, HoldingPcs
<1>14. CASE PostLooped(d)
  <2>1. timers' \in [Daemons -> SUBSET (LoopTimers \cup {"quit_cleanup"})]
    BY <1>0, <1>14 DEF PostLooped, Types, TypeOK
  <2> QED
    BY <1>0, <1>14, <2>1 DEF PostLooped, Types, TypeOK, Pcs, FilePcs, HoldingPcs
<1>8. CASE StopPerf(d)
  <2>1. stop_flag_' \in [Daemons -> BOOLEAN]
    BY <1>0, <1>8, Zenon DEF StopPerf, Types
  <2> QED
    BY <1>0, <1>8, <2>1 DEF StopPerf, Types, TypeOK, Pcs, FilePcs, HoldingPcs
<1>9. CASE ExecReturns(d)
  BY <1>0, <1>9 DEF ExecReturns, Types, TypeOK, Pcs, FilePcs, HoldingPcs
<1>10. CASE Perf(d)
  BY <1>0, <1>10 DEF Perf, PerfBegins, PerfPolls, PerfWakes, Types, TypeOK
<1>11. CASE SendStopDaemonRequest(d)
  BY <1>0, <1>11 DEF SendStopDaemonRequest, Types, TypeOK
<1>16. CASE Children(d)
  <2>1. inherited' \in [Daemons -> SUBSET Ports]
    <3>1. PICK R \in SUBSET Ports : inherited' = [inherited EXCEPT ![d] = R]
      <4>1. inherited[d] \subseteq Ports
        BY <1>0 DEF Types, TypeOK
      <4>2. CASE ForkStream(d)
        BY <4>1, <4>2 DEF ForkStream
      <4>3. CASE StreamsEnd(d)
        BY <4>1, <4>3 DEF StreamsEnd
      <4> QED
        BY <1>16, <4>2, <4>3 DEF Children
    <3>2. inherited \in [Daemons -> SUBSET Ports]
      BY <1>0 DEF Types, TypeOK
    <3> QED
      BY <3>1, <3>2
  <2> QED
    BY <1>0, <1>16, <2>1 DEF Children, ForkStream, StreamsEnd, Types, TypeOK
<1>12. CASE Killed(d)
  BY <1>0, <1>12 DEF Killed, Types, TypeOK, Pcs
<1>13. ASSUME NEW s \in Servers, Server(d, s) PROVE Types'
  <2>1. thread' \in [Daemons -> [Servers -> {"none", "start", "run", "ended"}]]
    <3>1. thread \in [Daemons -> [Servers -> {"none", "start", "run", "ended"}]]
      BY <1>0 DEF Types, TypeOK
    <3>2. \/ thread' = [thread EXCEPT ![d][s] = "run"]
          \/ thread' = [thread EXCEPT ![d][s] = "ended"]
      BY <1>13 DEF Server, ServerBinds, ServerReturns
    <3> QED
      BY <3>1, <3>2
  <2>2. port' \in [Ports -> Daemons \cup {Nobody, Foreign}]
    <3>1. port \in [Ports -> Daemons \cup {Nobody, Foreign}]
      BY <1>0 DEF Types, TypeOK
    <3>2. port' = [port EXCEPT ![config[d][s]] = d] \/ port' = port
      BY <1>13 DEF Server, ServerBinds, ServerReturns
    <3> QED
      BY <3>1, <3>2
  <2> QED
    BY <1>0, <1>13, <2>1, <2>2 DEF Server, ServerBinds, ServerReturns, Types, TypeOK
<1> QED
  BY <1>1, <1>2, <1>3, <1>4, <1>5, <1>6, <1>7, <1>8, <1>9, <1>10, <1>11, <1>12, <1>13,
     <1>14, <1>15, <1>16 DEF Main

-----------------------------------------------------------------------------
(* The lock of the pid file.                                               *)

\* A step of one daemon leaves another one where it was.
LEMMA OthersStay ==
    ASSUME IndInv, NEW d \in Daemons, NEW e \in Daemons, d # e,
           \/ Start(d) \/ Main(d) \/ Perf(d) \/ SendStopDaemonRequest(d) \/ Children(d) \/ Killed(d)
           \/ \E s \in Servers : Server(d, s)
    PROVE  /\ pc'[e] = pc[e] /\ inode'[e] = inode[e]
           /\ perf'[e] = perf[e] /\ thread'[e] = thread[e] /\ timers'[e] = timers[e]
<1> USE DEF Goto, pid_vars, server_vars, perf_vars, IndInv, Types, TypeOK
<1>1. CASE Start(d) \/ SendStopDaemonRequest(d) \/ Children(d) \/ Killed(d)
  BY <1>1 DEF Start, SendStopDaemonRequest, Children, ForkStream, StreamsEnd, Killed
<1>2. CASE OpenPidFile(d) \/ LockPidFile(d) \/ UnlockPidFile(d) \/ ClosePidFile(d)
             \/ RemovePidFile(d)
  BY <1>2 DEF OpenPidFile, LockPidFile, UnlockPidFile, ClosePidFile, RemovePidFile
<1>3. CASE \E gpu \in BOOLEAN : ExecBegins(d, gpu)
  BY <1>3 DEF ExecBegins
<1>4. CASE MainBinds(d) \/ QuitTimer(d) \/ PostLooped(d) \/ JoinServers(d) \/ StopPerf(d)
             \/ ExecReturns(d)
  BY <1>4 DEF MainBinds, QuitTimer, PostLooped, JoinServers, StopPerf, ExecReturns
<1>5. CASE Perf(d)
  BY <1>5 DEF Perf, PerfBegins, PerfPolls, PerfWakes
<1>6. CASE \E s \in Servers : Server(d, s)
  BY <1>6 DEF Server, ServerBinds, ServerReturns
<1> QED
  BY <1>1, <1>2, <1>3, <1>4, <1>5, <1>6 DEF Main

\* Steps that neither open, lock, unlock nor close the file nor move main across
\* those points keep the lock where it is.
LEMMA LocksUntouched ==
    ASSUME IndInv, UNCHANGED <<inode, lock>>,
           \A e \in Daemons : /\ pc'[e] \in FilePcs <=> pc[e] \in FilePcs
                              /\ pc'[e] \in HoldingPcs <=> pc[e] \in HoldingPcs
    PROVE  LocksAreHeld'
<1>1. lock \in [Inodes -> Daemons \cup {Nobody}]
  BY DEF IndInv, Types, TypeOK
<1> QED
  BY <1>1 DEF IndInv, LocksAreHeld

\* Every step keeps the lock with the process that has the file.
LEMMA LocksStep ==
    ASSUME IndInv, NEW d \in Daemons,
           \/ Start(d) \/ Main(d) \/ Perf(d) \/ SendStopDaemonRequest(d) \/ Children(d) \/ Killed(d)
           \/ \E s \in Servers : Server(d, s)
    PROVE  LocksAreHeld'
<1>0. Types /\ LocksAreHeld
  BY DEF IndInv
<1>1. 0 \notin Inodes
  BY DaemonThreadsAssumption, FS_CardinalityType DEF Inodes
<1> USE DEF Goto, pid_vars, server_vars, perf_vars
<1>2. CASE Start(d)
  BY <1>0, <1>2, LocksUntouched DEF Start, Types, FilePcs, HoldingPcs
<1>3. CASE OpenPidFile(d)
  <2>1. CASE pc'[d] = "opened"
    <3>1. path' # 0 /\ inode' = [inode EXCEPT ![d] = path'] /\ lock' = lock
      BY <1>0, <1>3, <2>1, OpenedFile DEF OpenPidFile
    <3>2. inode[d] = 0 /\ pc[d] = "loaded" /\ pc' = [pc EXCEPT ![d] = "opened"]
      BY <1>0, <1>3, <2>1 DEF OpenPidFile, LocksAreHeld, FilePcs, HoldingPcs, Types
    <3>3. \A i \in Inodes : lock[i] # Nobody => lock[i] # d
      BY <1>0, <1>1, <3>2 DEF LocksAreHeld
    <3> QED
      BY <1>0, <3>1, <3>2, <3>3 DEF LocksAreHeld, Types, TypeOK, FilePcs, HoldingPcs
  <2>2. CASE pc'[d] # "opened"
    BY <1>0, <1>3, <2>2, LocksUntouched DEF OpenPidFile, Types, FilePcs, HoldingPcs
  <2> QED
    BY <2>1, <2>2
<1>4. CASE LockPidFile(d)
  <2>1. inode[d] \in Inodes
    BY <1>0, <1>4 DEF LockPidFile, LocksAreHeld, Types, TypeOK, FilePcs
  <2>2. CASE lock[inode[d]] = Nobody
    <3>1. \A e \in Daemons : pc[e] \in HoldingPcs => inode[e] # inode[d]
      BY <1>0, <2>2, DaemonThreadsAssumption DEF LocksAreHeld
    <3>2. /\ lock' = [lock EXCEPT ![inode[d]] = d]
          /\ inode' = inode
          /\ pc[d] = "opened" /\ pc' = [pc EXCEPT ![d] = "locked"]
      BY <1>4, <2>2 DEF LockPidFile
    <3>3. \A e \in Daemons : pc'[e] \in FilePcs <=> pc[e] \in FilePcs
      BY <1>0, <3>2 DEF Types, FilePcs, HoldingPcs
    <3>4. \A e \in Daemons : pc'[e] \in HoldingPcs <=> pc[e] \in HoldingPcs \/ e = d
      BY <1>0, <3>2 DEF Types, HoldingPcs
    <3>5. \A e \in Daemons : pc[e] \in HoldingPcs => inode[e] \in Inodes
      BY <1>0 DEF LocksAreHeld, Types, TypeOK, FilePcs
    <3> QED
      BY <1>0, <2>1, <2>2, <3>1, <3>2, <3>3, <3>4, <3>5 DEF LocksAreHeld, Types, TypeOK
  <2>3. CASE lock[inode[d]] # Nobody
    <3>1. \A i \in Inodes : lock[i] # Nobody => lock[i] # d
      BY <1>0, <1>4, <2>1, <2>3 DEF LocksAreHeld, LockPidFile, Types, TypeOK, HoldingPcs
    <3>2. lock' = lock /\ inode' = [inode EXCEPT ![d] = 0]
          /\ pc[d] = "opened" /\ pc' = [pc EXCEPT ![d] = "ended"]
      BY <1>4, <2>3 DEF LockPidFile
    <3> QED
      BY <1>0, <3>1, <3>2 DEF LocksAreHeld, Types, TypeOK, FilePcs, HoldingPcs
  <2> QED
    BY <2>2, <2>3
<1>5. CASE UnlockPidFile(d)
  <2>1. inode[d] \in Inodes /\ lock[inode[d]] = d
    BY <1>0, <1>5 DEF UnlockPidFile, LocksAreHeld, Types, TypeOK, FilePcs, HoldingPcs
  <2>2. \A e \in Daemons : pc[e] \in HoldingPcs /\ e # d => inode[e] # inode[d]
    BY <1>0, <2>1 DEF LocksAreHeld
  <2>3. \A i \in Inodes : lock[i] = d => i = inode[d]
    BY <1>0, DaemonThreadsAssumption DEF LocksAreHeld
  <2>4. /\ lock' = [lock EXCEPT ![inode[d]] = Nobody]
        /\ inode' = inode
        /\ pc[d] = "returned" /\ pc' = [pc EXCEPT ![d] = "unlocked"]
    BY <1>5 DEF UnlockPidFile
  <2>5. \A e \in Daemons : pc'[e] \in FilePcs <=> pc[e] \in FilePcs
    BY <1>0, <2>4 DEF Types, FilePcs, HoldingPcs
  <2>6. \A e \in Daemons : pc'[e] \in HoldingPcs <=> pc[e] \in HoldingPcs /\ e # d
    BY <1>0, <2>4 DEF Types, HoldingPcs
  <2>7. \A e \in Daemons : pc[e] \in HoldingPcs => inode[e] \in Inodes
    BY <1>0 DEF LocksAreHeld, Types, TypeOK, FilePcs
  <2> QED
    BY <1>0, <2>1, <2>2, <2>3, <2>4, <2>5, <2>6, <2>7 DEF LocksAreHeld, Types, TypeOK
<1>6. CASE ClosePidFile(d)
  <2>1. \A i \in Inodes : lock[i] # Nobody => lock[i] # d
    BY <1>0, <1>6 DEF ClosePidFile, LocksAreHeld, HoldingPcs
  <2> QED
    BY <1>0, <1>6, <2>1 DEF ClosePidFile, LocksAreHeld, Types, TypeOK, FilePcs, HoldingPcs
<1>7. CASE RemovePidFile(d)
  BY <1>0, <1>7, LocksUntouched DEF RemovePidFile, Types, FilePcs, HoldingPcs
<1>8. CASE Killed(d)
  <2>1. \A e \in Daemons : e # d => pc'[e] = pc[e] /\ inode'[e] = inode[e]
    BY <1>8, OthersStay
  <2>2. pc'[d] = "ended" /\ inode'[d] = 0
    BY <1>0, <1>8 DEF Killed, Types, TypeOK
  <2>3. lock' = [i \in Inodes |-> IF lock[i] = d THEN Nobody ELSE lock[i]]
    BY <1>8 DEF Killed
  <2>4. \A e \in Daemons : pc[e] \in HoldingPcs => inode[e] \in Inodes
    BY <1>0 DEF LocksAreHeld, Types, TypeOK, FilePcs
  <2>5. "ended" \notin FilePcs /\ "ended" \notin HoldingPcs
    BY DEF FilePcs, HoldingPcs
  <2>6. \A e \in Daemons : pc'[e] \in FilePcs <=> inode'[e] # 0
    BY <1>0, <2>1, <2>2, <2>5 DEF LocksAreHeld
  <2>7. \A e \in Daemons : pc'[e] \in HoldingPcs => lock'[inode'[e]] = e
    BY <1>0, <2>1, <2>2, <2>3, <2>4, <2>5 DEF LocksAreHeld
  <2>8. \A i \in Inodes : lock'[i] # Nobody =>
            inode'[lock'[i]] = i /\ pc'[lock'[i]] \in HoldingPcs
    <3>1. \A i \in Inodes : lock'[i] # Nobody =>
              lock'[i] = lock[i] /\ lock[i] # d /\ lock[i] \in Daemons
      BY <1>0, <2>3 DEF Types, TypeOK
    <3> QED
      BY <1>0, <2>1, <3>1 DEF LocksAreHeld
  <2> QED
    BY <2>6, <2>7, <2>8 DEF LocksAreHeld
<1>9. CASE \/ \E gpu \in BOOLEAN : ExecBegins(d, gpu)
           \/ MainBinds(d) \/ QuitTimer(d) \/ PostLooped(d) \/ JoinServers(d)
           \/ StopPerf(d) \/ ExecReturns(d)
  <2>1. UNCHANGED <<inode, lock>>
    BY <1>9 DEF ExecBegins, MainBinds, QuitTimer, PostLooped, JoinServers, StopPerf,
       ExecReturns
  <2>2. \E l \in HoldingPcs : pc[d] \in HoldingPcs /\ Goto(d, l)
    BY <1>9 DEF ExecBegins, MainBinds, QuitTimer, PostLooped, JoinServers, StopPerf,
       ExecReturns, HoldingPcs
  <2> QED
    BY <1>0, <2>1, <2>2, LocksUntouched DEF Types, FilePcs
<1>10. CASE Perf(d) \/ SendStopDaemonRequest(d) \/ Children(d) \/ \E s \in Servers : Server(d, s)
  <2>1. UNCHANGED <<inode, lock, pc>>
    BY <1>10 DEF Perf, PerfBegins, PerfPolls, PerfWakes, SendStopDaemonRequest, Children,
       ForkStream, StreamsEnd, Server, ServerBinds, ServerReturns
  <2> QED
    BY <2>1, LocksUntouched
<1> QED
  BY <1>2, <1>3, <1>4, <1>5, <1>6, <1>7, <1>8, <1>9, <1>10 DEF Main

\* Every step keeps the pid file exclusive, if it is created exclusively.
LEMMA ExclusiveStep ==
    ASSUME IndInv, NEW d \in Daemons,
           \/ Start(d) \/ Main(d) \/ Perf(d) \/ SendStopDaemonRequest(d) \/ Children(d) \/ Killed(d)
           \/ \E s \in Servers : Server(d, s)
    PROVE  FileIsExclusive'
<1> DEFINE InFile(l) == l \in FilePcs \cup {"closed"}
<1>0. Types /\ LocksAreHeld /\ FileIsExclusive
  BY DEF IndInv
<1>1. exclusive' = exclusive
  BY DEF Start, Main, OpenPidFile, LockPidFile, UnlockPidFile, ClosePidFile,
     RemovePidFile, ExecBegins, MainBinds, QuitTimer, PostLooped, JoinServers, StopPerf,
     ExecReturns, Perf, PerfBegins, PerfPolls, PerfWakes, SendStopDaemonRequest, Children,
     ForkStream, StreamsEnd, Killed, Server, ServerBinds, ServerReturns
<1>2. \A e \in Daemons : e # d => pc'[e] = pc[e]
  BY OthersStay
<1>3. ASSUME path' = path, InFile(pc'[d]) => InFile(pc[d]) PROVE FileIsExclusive'
  <2>1. \A e \in Daemons : InFile(pc'[e]) => InFile(pc[e])
    BY <1>2, <1>3
  <2> QED
    BY <1>0, <1>1, <1>3, <2>1 DEF FileIsExclusive
<1> USE DEF Goto, pid_vars, server_vars, perf_vars
<1>4. CASE OpenPidFile(d)
  <2>1. CASE pc'[d] = "opened" /\ exclusive
    <3>1. path = 0 /\ path' # 0
      BY <1>0, <1>4, <2>1, OpenedFile DEF OpenPidFile, Types
    <3>2. \A e \in Daemons : ~InFile(pc[e])
      BY <1>0, <2>1, <3>1 DEF FileIsExclusive
    <3> QED
      BY <1>2, <3>1, <3>2 DEF FileIsExclusive
  <2>2. CASE exclusive /\ pc'[d] # "opened"
    <3>1. path' = path /\ pc'[d] = "ended"
      BY <1>0, <1>4, <2>2 DEF OpenPidFile, Types
    <3> QED
      BY <1>3, <3>1 DEF FilePcs, HoldingPcs
  <2> QED
    BY <1>1, <2>1, <2>2 DEF FileIsExclusive
<1>5. CASE RemovePidFile(d)
  <2>1. pc[d] = "closed" /\ pc'[d] = "ended"
    BY <1>0, <1>5 DEF RemovePidFile, Types
  <2>2. exclusive => \A e \in Daemons : ~InFile(pc'[e])
    BY <1>0, <1>2, <2>1 DEF FileIsExclusive, FilePcs, HoldingPcs
  <2> QED
    BY <1>1, <2>2 DEF FileIsExclusive
<1>6. CASE Start(d)
  <2>1. path' = path /\ pc'[d] \in {"loaded", "ended"}
    BY <1>0, <1>6 DEF Start, Types
  <2> QED
    BY <1>3, <2>1 DEF FilePcs, HoldingPcs
<1>7. CASE LockPidFile(d)
  <2>1. path' = path /\ pc[d] = "opened"
    BY <1>7 DEF LockPidFile
  <2> QED
    BY <1>3, <2>1 DEF FilePcs
<1>8. CASE UnlockPidFile(d) \/ ClosePidFile(d)
  <2>1. path' = path /\ pc[d] \in {"returned", "unlocked"}
    BY <1>8 DEF UnlockPidFile, ClosePidFile
  <2> QED
    BY <1>3, <2>1 DEF FilePcs, HoldingPcs
<1>9. CASE \/ \E gpu \in BOOLEAN : ExecBegins(d, gpu)
           \/ MainBinds(d) \/ QuitTimer(d) \/ PostLooped(d) \/ JoinServers(d)
           \/ StopPerf(d) \/ ExecReturns(d)
  <2>1. path' = path /\ pc[d] \in HoldingPcs
    BY <1>9 DEF ExecBegins, MainBinds, QuitTimer, PostLooped, JoinServers, StopPerf,
       ExecReturns, HoldingPcs
  <2> QED
    BY <1>3, <2>1 DEF FilePcs
<1>10. CASE Perf(d) \/ SendStopDaemonRequest(d) \/ Children(d) \/ \E s \in Servers : Server(d, s)
  <2>1. path' = path /\ pc' = pc
    BY <1>10 DEF Perf, PerfBegins, PerfPolls, PerfWakes, SendStopDaemonRequest, Children,
       ForkStream, StreamsEnd, Server, ServerBinds, ServerReturns
  <2> QED
    BY <1>3, <2>1
<1>11. CASE Killed(d)
  <2>1. path' = path /\ pc'[d] = "ended"
    BY <1>0, <1>11 DEF Killed, Types
  <2> QED
    BY <1>3, <2>1 DEF FilePcs, HoldingPcs
<1> QED
  BY <1>4, <1>5, <1>6, <1>7, <1>8, <1>9, <1>10, <1>11 DEF Main

-----------------------------------------------------------------------------
(* Threads, timers and ports.                                              *)

\* No step gives a port to another daemon than the one that takes it.
LEMMA PortsOfOthers ==
    ASSUME IndInv, NEW d \in Daemons, NEW e \in Daemons, d # e, NEW r \in Ports,
           \/ Start(d) \/ Main(d) \/ Perf(d) \/ SendStopDaemonRequest(d) \/ Children(d) \/ Killed(d)
           \/ \E s \in Servers : Server(d, s),
           port'[r] = e
    PROVE  port[r] = e
<1>1. port \in [Ports -> Daemons \cup {Nobody, Foreign}] /\ e # Nobody
  BY DaemonThreadsAssumption DEF IndInv, Types, TypeOK
<1>2. \/ port' = port
      \/ \E q : port' = [port EXCEPT ![q] = d]
      \/ port' = [q \in Ports |-> IF port[q] = d THEN Nobody ELSE port[q]]
  BY DEF Start, Main, OpenPidFile, LockPidFile, UnlockPidFile, ClosePidFile,
     RemovePidFile, ExecBegins, MainBinds, QuitTimer, PostLooped, JoinServers, StopPerf,
     ExecReturns, Perf, PerfBegins, PerfPolls, PerfWakes, SendStopDaemonRequest, Children,
     ForkStream, StreamsEnd, Killed, Server, ServerBinds, ServerReturns, server_vars
<1> QED
  BY <1>1, <1>2

\* Every step keeps threads, timers and ports inside Exec.
LEMMA ThreadsStep ==
    ASSUME IndInv, NEW d \in Daemons,
           \/ Start(d) \/ Main(d) \/ Perf(d) \/ SendStopDaemonRequest(d) \/ Children(d) \/ Killed(d)
           \/ \E s \in Servers : Server(d, s)
    PROVE  ThreadsAreOfExec'
<1> DEFINE NoExec(e)    == /\ perf[e] \in {"none", "ended"}
                           /\ \A r \in Ports : port[r] # e
           NoServers(e) == \A s \in Servers : thread[e][s] \in {"none", "ended"}
           InExec(e)    == /\ pc[e] \notin ExecPcs => NoExec(e)
                           /\ pc[e] \notin ExecPcs \ {"joined", "stopped"} => NoServers(e)
                           /\ pc[e] \notin {"looping", "looped"} => timers[e] = {}
<1>0. Types /\ ThreadsAreOfExec /\ InExec(d)
  BY DEF IndInv, ThreadsAreOfExec
<1>1. \A e \in Daemons : e # d => InExec(e)'
  BY <1>0, OthersStay, PortsOfOthers DEF ThreadsAreOfExec
<1>2. SUFFICES InExec(d)'
  BY <1>1 DEF ThreadsAreOfExec
<1> USE DEF Goto, pid_vars, server_vars, perf_vars
<1>3. CASE Start(d) \/ OpenPidFile(d) \/ LockPidFile(d)
  <2>1. UNCHANGED <<perf, port, thread, timers>> /\ pc[d] \in {"off", "loaded", "opened"}
    BY <1>3 DEF Start, OpenPidFile, LockPidFile
  <2> QED
    BY <1>0, <2>1 DEF ExecPcs
<1>4. CASE UnlockPidFile(d) \/ ClosePidFile(d) \/ RemovePidFile(d)
  <2>1. UNCHANGED <<perf, port, thread, timers>> /\ pc[d] \in {"returned", "unlocked", "closed"}
    BY <1>4 DEF UnlockPidFile, ClosePidFile, RemovePidFile
  <2> QED
    BY <1>0, <2>1 DEF ExecPcs
<1>5. CASE \E gpu \in BOOLEAN : ExecBegins(d, gpu)
  <2>1. pc[d] = "locked" /\ pc'[d] = "binding" /\ timers' = timers
    BY <1>0, <1>5 DEF ExecBegins, Types
  <2> QED
    BY <1>0, <2>1 DEF ExecPcs
<1>6. CASE MainBinds(d)
  <2>1. /\ pc[d] = "binding" /\ pc'[d] \in {"looping", "joining"}
        /\ pc'[d] = "joining" => timers' = timers
    BY <1>0, <1>6 DEF MainBinds, Types
  <2> QED
    BY <1>0, <2>1 DEF ExecPcs
<1>7. CASE QuitTimer(d)
  <2>1. pc'[d] = "looped"
    BY <1>0, <1>7 DEF QuitTimer, Types
  <2> QED
    BY <2>1 DEF ExecPcs
<1>8. CASE PostLooped(d)
  <2>1. pc'[d] = "joining"
    BY <1>0, <1>8 DEF PostLooped, Types
  <2>2. timers'[d] = {}
    <3>1. timers \in [Daemons -> SUBSET (LoopTimers \cup {"quit_cleanup"})]
      BY <1>0 DEF Types, TypeOK
    <3> QED
      BY <1>8, <3>1 DEF PostLooped
  <2> QED
    BY <2>1, <2>2 DEF ExecPcs
<1>9. CASE JoinServers(d)
  <2>1. /\ pc[d] = "joining" /\ pc'[d] = "joined" /\ timers' = timers
        /\ thread' = thread /\ NoServers(d)
    BY <1>0, <1>9 DEF JoinServers, Types
  <2> QED
    BY <1>0, <2>1 DEF ExecPcs
<1>10. CASE StopPerf(d)
  <2>1. pc[d] = "joined" /\ pc'[d] = "stopped" /\ timers' = timers /\ thread' = thread
    BY <1>0, <1>10 DEF StopPerf, Types
  <2> QED
    BY <1>0, <2>1 DEF ExecPcs
<1>11. CASE ExecReturns(d)
  <2>1. /\ pc[d] = "stopped" /\ timers' = timers /\ thread' = thread /\ perf' = perf
        /\ perf[d] \in {"none", "ended"}
    BY <1>11 DEF ExecReturns
  <2>2. \A r \in Ports : port'[r] # d
    BY <1>11, DaemonThreadsAssumption DEF ExecReturns
  <2> QED
    BY <1>0, <2>1, <2>2 DEF ExecPcs
<1>12. CASE Perf(d)
  <2>1. UNCHANGED <<pc, port, thread, timers>> /\ perf[d] \notin {"none", "ended"}
    BY <1>12 DEF Perf, PerfBegins, PerfPolls, PerfWakes
  <2> QED
    BY <1>0, <2>1
<1>13. CASE SendStopDaemonRequest(d)
  <2>1. UNCHANGED <<pc, port, thread, perf>> /\ pc[d] = "looping"
    BY <1>13 DEF SendStopDaemonRequest
  <2> QED
    BY <1>0, <2>1
<1>16. CASE Children(d)
  <2>1. UNCHANGED <<pc, port, thread, perf, timers>>
    BY <1>16 DEF Children, ForkStream, StreamsEnd
  <2> QED
    BY <1>0, <2>1
<1>14. CASE \E s \in Servers : Server(d, s)
  <2>1. PICK s \in Servers : Server(d, s)
    BY <1>14
  <2>2. UNCHANGED <<pc, perf, timers>> /\ thread[d][s] \notin {"none", "ended"}
    BY <2>1 DEF Server, ServerBinds, ServerReturns
  <2>3. pc[d] \in ExecPcs \ {"joined", "stopped"}
    BY <1>0, <2>2
  <2> QED
    BY <1>0, <2>2, <2>3
<1>15. CASE Killed(d)
  <2>1. /\ perf'[d] = "ended" /\ timers'[d] = {}
        /\ \A s \in Servers : thread'[d][s] = "ended"
    BY <1>0, <1>15 DEF Killed, Types, TypeOK
  <2>2. \A r \in Ports : port'[r] # d
    BY <1>15, DaemonThreadsAssumption DEF Killed
  <2> QED
    BY <2>1, <2>2
<1> QED
  BY <1>3, <1>4, <1>5, <1>6, <1>7, <1>8, <1>9, <1>10, <1>11, <1>12, <1>13, <1>14, <1>15, <1>16
     DEF Main

-----------------------------------------------------------------------------
(* The theorems.                                                           *)

\* The first states satisfy the inductive invariant.
LEMMA InitIndInv == Init => IndInv
<1> SUFFICES ASSUME Init PROVE IndInv
  OBVIOUS
<1>1. Types
  <2>1. port \in [Ports -> Daemons \cup {Nobody, Foreign}]
    BY DEF Init
  <2>2. stop_flag_ \in [Daemons -> BOOLEAN] /\ exclusive \in BOOLEAN
    BY Zenon DEF Init
  <2> QED
    BY <2>1, <2>2, DaemonThreadsAssumption DEF Init, Types, TypeOK, Pcs
<1>2. LocksAreHeld /\ FileIsExclusive
  BY DEF Init, LocksAreHeld, FileIsExclusive, FilePcs, HoldingPcs
<1>3. ThreadsAreOfExec
  BY DaemonThreadsAssumption DEF Init, ThreadsAreOfExec
<1> QED
  BY <1>1, <1>2, <1>3 DEF IndInv

\* Locks, files, threads, timers and ports stay with the processes that have
\* them, in every interleaving of starts, stops and kills.
THEOREM IndInvHolds == Spec => []IndInv
<1>1. IndInv /\ [Next]_vars => IndInv'
  <2> SUFFICES ASSUME IndInv, [Next]_vars PROVE IndInv'
    OBVIOUS
  <2>1. CASE Next
    <3>1. PICK d \in Daemons :
              \/ Start(d) \/ Main(d) \/ Perf(d) \/ SendStopDaemonRequest(d) \/ Children(d) \/ Killed(d)
              \/ \E s \in Servers : Server(d, s)
      BY <2>1 DEF Next
    <3>2. Types' /\ LocksAreHeld'
      BY <3>1, TypesStep, LocksStep
    <3>3. FileIsExclusive' /\ ThreadsAreOfExec'
      BY <3>1, ExclusiveStep, ThreadsStep
    <3> QED
      BY <3>2, <3>3 DEF IndInv
  <2>2. CASE UNCHANGED vars
    BY <2>2 DEF vars, pid_vars, server_vars, perf_vars, IndInv, Types, TypeOK, LocksAreHeld,
       FileIsExclusive, ThreadsAreOfExec
  <2> QED
    BY <2>1, <2>2
<1> QED
  BY <1>1, InitIndInv, PTL DEF Spec

\* Type correctness of the daemons of a host.
THEOREM TypeCorrect == Spec => []TypeOK
<1>1. IndInv => TypeOK
  BY DEF IndInv, Types
<1> QED
  BY <1>1, IndInvHolds, PTL

\* However many processes are started: with exclusive creation there is never
\* more than one daemon, without it never two on the file the name stands for.
THEOREM DaemonIsAlone == Spec => []OneDaemon
<1>1. IndInv => OneDaemon
  <2> SUFFICES ASSUME IndInv, NEW d \in Started, NEW e \in Started, d # e
               PROVE  ~exclusive /\ ~(inode[d] = path /\ inode[e] = path)
    BY DEF OneDaemon
  <2>1. d \in Daemons /\ e \in Daemons /\ pc[d] \in HoldingPcs /\ pc[e] \in HoldingPcs
    BY DEF IndInv, Types, Started, Pcs, FilePcs
  <2>2. lock[inode[d]] = d /\ lock[inode[e]] = e
    BY <2>1 DEF IndInv, LocksAreHeld
  <2>3. ~exclusive
    BY <2>1 DEF IndInv, FileIsExclusive, FilePcs
  <2> QED
    BY <2>2, <2>3
<1> QED
  BY <1>1, IndInvHolds, PTL

\* A process that has left Exec, or never entered it, has no running thread, no
\* timer and no port itself, also when its main server could not be bound; its
\* streams may have kept the ports.
THEOREM NothingIsLeft == Spec => []LeavesNothing
<1>1. IndInv => LeavesNothing
  BY DEF IndInv, ThreadsAreOfExec, LeavesNothing, ExecPcs
<1> QED
  BY <1>1, IndInvHolds, PTL

\* Daemons of one host are separate, for any number of them.
THEOREM InstancesStaySeparate == Spec => []InstancesAreSeparate
BY TypeCorrect, DaemonIsAlone, NothingIsLeft, PTL DEF InstancesAreSeparate

-----------------------------------------------------------------------------
(* Reports. The statistics keep their shape from the process to the client: *)
(* the same fields, one channel in and one out.                            *)

ChannelFields   == DOMAIN ChannelStats(0)
StatisticFields == DOMAIN StatisticDefaults
ListFields      == {"input_streams", "output_streams"}

IsChannel(ch)   == ch = [f \in ChannelFields |-> ch[f]]
OneChannel(s)   == s = <<s[1]>> /\ IsChannel(s[1])
IsStatistic(st) == /\ st = [f \in StatisticFields |-> st[f]]
                   /\ \A f \in ListFields : OneChannel(st[f])

\* j is an encoding of st, or of what was decoded from one.
Encodes(j, st) ==
    /\ IsStatistic(j) /\ IsStatistic(st)
    /\ j.id # "" /\ j.timestamp \in Nat /\ j.rss \in Nat /\ st.rss \in Nat
    /\ \A f \in StatisticFields \ (ListFields \cup {"rss"}) : j[f] = st[f]
    /\ GetInt(j.rss) = GetInt(st.rss)
    /\ \A f \in ListFields : Kept(j[f][1]) = Kept(st[f][1])

\* The processes that were started, and those whose exit the daemon has seen.
Begun == {p \in Processes : proc[p] # "none"}
Gone  == {p \in Processes : proc[p] = "exited" /\ p \notin childs}

\* A process is started when all earlier ones of its stream are gone.
InTurn(B, G) ==
    \A p \in Processes, q \in B : p[1] = q[1] /\ p[2] < q[2] => p \in G

RunsInv ==
    /\ \A p \in Processes : proc[p] = "running" => p \in childs
    /\ \A p \in childs : p \in Begun
    /\ \A p \in Processes : pipe[p] # <<>> => p \in Begun
    /\ InTurn(Begun, Gone)

MemoryInv ==
    \A p \in Processes : /\ DOMAIN mem_[p] = StatisticFields
                         /\ (p \in Begun => IsStatistic(mem_[p]))

IsSeq(s) == s \in Seq({s[i] : i \in DOMAIN s})

Statistic(m) == m.method = "statistic_stream"

\* A statistic of process p among those sent.
IsSent(m, p, S) == Statistic(m) => \E x \in S : x.proc = p /\ Encodes(m.params, x.stat)

\* What was sent has no time of the future.
SentInv(S, t) == \A x \in S : x.stat.timestamp \in Nat /\ x.stat.timestamp <= t

\* What waits in the pipe w of p.
PipeInv(p, w, S) ==
    /\ IsSeq(w)
    /\ \A i \in DOMAIN w :
        /\ w[i] \in [type : {"notification"}, method : {"statistic_stream", "changed_source_stream"},
                     params : {w[i].params}]
        /\ IsSent(w[i], p, S)
        /\ (~Statistic(w[i]) => Has(w[i].params, "id"))
    /\ \A i, j \in DOMAIN w :
        i < j /\ Statistic(w[i]) /\ Statistic(w[j])
            => w[i].params.timestamp <= w[j].params.timestamp

Quit(e) == e.msg.method = "quit_status_stream"

\* A message of a client.
NoteInv(e, B, G, S) ==
    /\ e.about \in B
    /\ (Quit(e) => e.about \in G)
    /\ IsSent(e.msg, e.about, S)

\* The messages b of a client, that of each exit once.
NotesInv(b, B, G, S) ==
    /\ IsSeq(b)
    /\ \A i \in DOMAIN b : NoteInv(b[i], B, G, S)
    /\ \A i, j \in DOMAIN b : Quit(b[i]) /\ Quit(b[j]) /\ b[i].about = b[j].about => i = j

\* The client knows of every exit but those in u, and of each one before it
\* hears of the next process of the stream.
ToldInv(b, u, G) ==
    /\ \A p \in G \ u : \E k \in DOMAIN b : b[k].about = p /\ Quit(b[k])
    /\ \A i, j \in DOMAIN b :
        i < j /\ b[i].about[1] = b[j].about[1] /\ b[i].about[2] < b[j].about[2]
              /\ b[i].about \notin u
            => \E k \in 1..(j - 1) : b[k].about = b[i].about /\ Quit(b[k])

\* The statistics of p come in the order of their time, those in the pipe last.
OrderInv(b, w, p) ==
    /\ \A i, j \in DOMAIN b :
        i < j /\ b[i].about = p /\ b[j].about = p /\ Statistic(b[i].msg) /\ Statistic(b[j].msg)
            => b[i].msg.params.timestamp <= b[j].msg.params.timestamp
    /\ \A i \in DOMAIN b, k \in DOMAIN w :
        b[i].about = p /\ Statistic(b[i].msg) /\ Statistic(w[k])
            => b[i].msg.params.timestamp <= w[k].params.timestamp

ReaderInv(b, v, u, B, G, S) ==
    /\ NotesInv(b, B, G, S)
    /\ (v => ToldInv(b, u, G))
    /\ (~v => b = <<>>)
    /\ Len(b) <= MaxInbox

ReportTypes ==
    /\ proc \in [Processes -> {"none", "running", "exited"}]
    /\ childs \in SUBSET Processes
    /\ DOMAIN mem_ = Processes /\ DOMAIN pipe = Processes
    /\ verified \in SUBSET Clients
    /\ DOMAIN inbox = Clients
    /\ now \in 0..MaxClock /\ written \in 0..MaxReports
    /\ untold \in [Clients -> SUBSET Processes]

PipesInv   == \A p \in Processes : PipeInv(p, pipe[p], sent)
ReadersInv == \A c \in Clients : ReaderInv(inbox[c], c \in verified, untold[c], Begun, Gone, sent)
OrdersInv  == \A c \in Clients, p \in Processes : OrderInv(inbox[c], pipe[p], p)

ReportsInv ==
    ReportTypes /\ RunsInv /\ MemoryInv /\ SentInv(sent, now) /\ PipesInv /\ ReadersInv /\ OrdersInv

-----------------------------------------------------------------------------
(* Encoding and decoding.                                                  *)

\* The sequence of a set of one element.
LEMMA SeqOfOne == ASSUME NEW x PROVE SetToSeq({x}) = <<x>>
<1>1. Cardinality({x}) = 1
  BY FS_Singleton
<1>2. \A f \in [1..1 -> {x}] : f = <<x>>
  OBVIOUS
<1>3. <<x>> \in [1..1 -> {x}]
  OBVIOUS
<1>4. IsInjective(<<x>>)
  BY DEF IsInjective
<1> QED
  BY <1>1, <1>2, <1>3, <1>4 DEF SetToSeq

\* The sequence of the empty set.
LEMMA SeqOfNone == SetToSeq({}) = <<>>
<1>1. Cardinality({}) = 0
  BY FS_EmptySet
<1>2. \A f \in [1..0 -> {}] : f = <<>>
  OBVIOUS
<1>3. <<>> \in [1..0 -> {}]
  OBVIOUS
<1>4. IsInjective(<<>>)
  BY DEF IsInjective
<1> QED
  BY <1>1, <1>2, <1>3, <1>4 DEF SetToSeq

\* A sequence of one sequence is flattened to that one.
LEMMA FlattenOne == ASSUME NEW s PROVE FlattenSeq(<<s>>) = s
<1> DEFINE F(f) == f = [i \in 1..Len(<<s>>) |-> IF i = 1 THEN <<s>>[i] ELSE f[i - 1] \o <<s>>[i]]
           a == [i \in 1..1 |-> s]
<1>1. Len(<<s>>) = 1
  OBVIOUS
<1>2. F(a)
  BY <1>1
<1>3. PICK g : g = CHOOSE f : F(f)
  OBVIOUS
<1>4. F(g)
  BY <1>2, <1>3
<1>5. g[1] = s
  BY <1>4, <1>1
<1> QED
  BY <1>1, <1>3, <1>5 DEF FlattenSeq

\* To concatenate one element is to append it.
LEMMA SingleAppend == ASSUME NEW w, NEW T, w \in Seq(T), NEW x PROVE w \o <<x>> = Append(w, x)
  OBVIOUS

\* Reading an int twice changes it no more than reading it once
\* (json_object_get_int of what was read by json_object_get_int).
LEMMA IntRead == ASSUME NEW r \in Nat PROVE GetInt(r) \in Nat /\ GetInt(GetInt(r)) = GetInt(r)
  BY Int32Assumption DEF GetInt

\* The fields of a statistic and of a channel.
LEMMA FieldSets ==
    /\ StatisticFields = {"id", "type", "input_streams", "output_streams", "loop_start_time",
                          "rss", "cpu", "status", "restarts", "start_time", "timestamp", "idle_time"}
    /\ ChannelFields = {"id", "last_update_time", "prev_total_bytes", "total_bytes", "bps", "dbps"}
    /\ \A x : DOMAIN ChannelStats(x) = ChannelFields
  BY DEF StatisticFields, ChannelFields, StatisticDefaults, ChannelStats

\* ChannelStatsInfo::DoDeSerialize gives the channel back, with the clock of
\* the reader as the time of its update.
LEMMA ChannelDecoded ==
    ASSUME NEW ch, IsChannel(ch), NEW t
    PROVE  LET d == [ch EXCEPT !.last_update_time = t] IN
           /\ ChannelStats_DeSerialize(ch, t) = {d}
           /\ IsChannel(d) /\ Kept(d) = Kept(ch)
<1> DEFINE d == [ch EXCEPT !.last_update_time = t]
<1>1. DOMAIN ch = ChannelFields
  BY DEF IsChannel
<1>2. Has(ch, "id") /\ Has(ch, "total_bytes")
  BY <1>1, FieldSets DEF Has
<1>3. Optional(ch, ChannelStats(ch.id)) = ch
  BY <1>1, FieldSets DEF Optional, Has, IsChannel
<1>4. ChannelStats_DeSerialize(ch, t) = {d}
  BY <1>2, <1>3 DEF ChannelStats_DeSerialize
<1>5. IsChannel(d)
  BY <1>1, FieldSets DEF IsChannel
<1>6. Kept(d) = Kept(ch)
  <2>1. DOMAIN d = DOMAIN ch /\ \A f \in DOMAIN ch \ {"total_bytes", "last_update_time"} : d[f] = ch[f]
    BY <1>1, FieldSets
  <2> QED
    BY <2>1 DEF Kept
<1> QED
  BY <1>4, <1>5, <1>6

\* ChannelStatsInfo::SerializeFields keeps everything but the total.
LEMMA ChannelEncoded ==
    ASSUME NEW ch, IsChannel(ch)
    PROVE  IsChannel(ChannelStats_Serialize(ch)) /\ Kept(ChannelStats_Serialize(ch)) = Kept(ch)
<1> DEFINE d == ChannelStats_Serialize(ch)
<1>1. DOMAIN ch = ChannelFields
  BY DEF IsChannel
<1>2. DOMAIN d = DOMAIN ch /\ \A f \in DOMAIN ch \ {"total_bytes", "last_update_time"} : d[f] = ch[f]
  BY <1>1, FieldSets DEF ChannelStats_Serialize
<1>3. IsChannel(d)
  BY <1>1, FieldSets DEF IsChannel, ChannelStats_Serialize
<1> QED
  BY <1>2, <1>3 DEF Kept

\* The array of one channel is read as one channel.
LEMMA ChannelsDecoded ==
    ASSUME NEW s, OneChannel(s), NEW t
    PROVE  LET r == Channels_DeSerialize(s, t) IN OneChannel(r) /\ Kept(r[1]) = Kept(s[1])
<1> DEFINE d == [s[1] EXCEPT !.last_update_time = t]
           D == [i \in 1..Len(s) |-> SetToSeq(ChannelStats_DeSerialize(s[i], t))]
<1>1. s = <<s[1]>> /\ IsChannel(s[1])
  BY DEF OneChannel
<1>2. ChannelStats_DeSerialize(s[1], t) = {d} /\ IsChannel(d) /\ Kept(d) = Kept(s[1])
  BY <1>1, ChannelDecoded
<1> HIDE DEF d
<1>3. Len(s) = 1
  BY <1>1
<1>4. D = <<SetToSeq(ChannelStats_DeSerialize(s[1], t))>>
  BY <1>3
<1>5. D = << <<d>> >>
  BY <1>4, <1>2, SeqOfOne
<1>6. Channels_DeSerialize(s, t) = <<d>>
  BY <1>5, FlattenOne DEF Channels_DeSerialize
<1>7. <<d>>[1] = d
  OBVIOUS
<1> QED
  BY <1>2, <1>6, <1>7 DEF OneChannel

\* The array of one channel is written as one channel.
LEMMA ChannelsEncoded ==
    ASSUME NEW s, OneChannel(s)
    PROVE  LET r == [i \in DOMAIN s |-> ChannelStats_Serialize(s[i])] IN
           OneChannel(r) /\ Kept(r[1]) = Kept(s[1])
<1> DEFINE r == [i \in DOMAIN s |-> ChannelStats_Serialize(s[i])]
           e == ChannelStats_Serialize(s[1])
<1>1. s = <<s[1]>> /\ IsChannel(s[1])
  BY DEF OneChannel
<1>2. IsChannel(e) /\ Kept(e) = Kept(s[1])
  BY <1>1, ChannelEncoded
<1>3. DOMAIN s = 1..1
  BY <1>1
<1> HIDE DEF e
<1>4. r = <<e>> /\ r[1] = e
  BY <1>3 DEF e
<1> QED
  BY <1>2, <1>4 DEF OneChannel

\* StatisticInfo::DoDeSerialize of an encoding of st succeeds, gives what is
\* still an encoding of st, and what a client may compare with st.
LEMMA StatDecoded ==
    ASSUME NEW j, NEW st, Encodes(j, st), NEW t
    PROVE  \E d : /\ Statistic_DeSerialize(j, t) = {d}
                  /\ Encodes(d, st) /\ Same(d, st)
                  /\ d.timestamp = j.timestamp
<1> DEFINE ins  == Channels_DeSerialize(j.input_streams, t)
           outs == Channels_DeSerialize(j.output_streams, t)
           d == [j EXCEPT !.input_streams = ins, !.output_streams = outs, !.rss = GetInt(j.rss)]
<1>1. DOMAIN j = StatisticFields /\ DOMAIN st = StatisticFields
  BY DEF Encodes, IsStatistic
<1>2. /\ OneChannel(j.input_streams) /\ OneChannel(j.output_streams)
      /\ OneChannel(st.input_streams) /\ OneChannel(st.output_streams)
  BY DEF Encodes, IsStatistic, ListFields
<1>3. /\ OneChannel(ins) /\ Kept(ins[1]) = Kept(j.input_streams[1])
      /\ OneChannel(outs) /\ Kept(outs[1]) = Kept(j.output_streams[1])
  BY <1>2, ChannelsDecoded
<1> HIDE DEF ins, outs
<1>4. Optional(j, StatisticDefaults) = j
  BY <1>1 DEF Optional, Has, Encodes, IsStatistic, StatisticFields
<1>5. Has(j, "id") /\ Has(j, "type")
  BY <1>1, FieldSets DEF Has
<1>6. Statistic_DeSerialize(j, t) = {d}
  BY <1>4, <1>5 DEF Statistic_DeSerialize, ins, outs
<1>7. /\ DOMAIN d = StatisticFields /\ d = [f \in StatisticFields |-> d[f]]
      /\ d.input_streams = ins /\ d.output_streams = outs /\ d.rss = GetInt(j.rss)
      /\ \A f \in StatisticFields \ (ListFields \cup {"rss"}) : d[f] = j[f]
  BY <1>1, FieldSets DEF ListFields
<1> HIDE DEF d
<1>8. IsStatistic(d)
  BY <1>3, <1>7 DEF IsStatistic, ListFields
<1>9. d.rss = GetInt(st.rss) /\ d.rss \in Nat /\ GetInt(d.rss) = GetInt(st.rss)
  BY <1>7, IntRead DEF Encodes
<1>10. \A f \in StatisticFields \ (ListFields \cup {"rss"}) : d[f] = st[f]
  BY <1>7 DEF Encodes
<1>11. \A f \in ListFields : Kept(d[f][1]) = Kept(st[f][1])
  BY <1>3, <1>7 DEF Encodes, ListFields
<1>12. d.id = j.id /\ d.timestamp = j.timestamp
  BY <1>7, FieldSets DEF ListFields
<1>13. Encodes(d, st)
  BY <1>8, <1>9, <1>10, <1>11, <1>12 DEF Encodes
<1>14. Same(d, st)
  <2>1. \A f \in DOMAIN d \ {"input_streams", "output_streams", "rss"} : d[f] = st[f]
    BY <1>7, <1>10 DEF ListFields
  <2>2. /\ d.input_streams = <<ins[1]>> /\ st.input_streams = <<st.input_streams[1]>>
        /\ d.output_streams = <<outs[1]>> /\ st.output_streams = <<st.output_streams[1]>>
    BY <1>2, <1>3, <1>7 DEF OneChannel
  <2>3. Len(d.input_streams) = 1 /\ Len(st.input_streams) = 1 /\ DOMAIN d.input_streams = 1..1
    BY <2>2
  <2>4. Len(d.output_streams) = 1 /\ Len(st.output_streams) = 1 /\ DOMAIN d.output_streams = 1..1
    BY <2>2
  <2>5. /\ Kept(d.input_streams[1]) = Kept(st.input_streams[1])
        /\ Kept(d.output_streams[1]) = Kept(st.output_streams[1])
    BY <1>11 DEF ListFields
  <2>6. \A f \in {"input_streams", "output_streams"} :
        /\ Len(d[f]) = Len(st[f])
        /\ \A i \in DOMAIN d[f] : Kept(d[f][i]) = Kept(st[f][i])
    BY <2>3, <2>4, <2>5
  <2> QED
    BY <2>1, <2>6, <1>9 DEF Same
<1> QED
  BY <1>6, <1>9, <1>12, <1>13, <1>14

\* StatisticInfo::SerializeFields of an encoding of st succeeds and gives an
\* encoding of st.
LEMMA StatEncoded ==
    ASSUME NEW d, NEW st, Encodes(d, st)
    PROVE  \E j : Statistic_Serialize(d) = {j} /\ Encodes(j, st) /\ j.timestamp = d.timestamp
<1> DEFINE ins  == [i \in DOMAIN d.input_streams |-> ChannelStats_Serialize(d.input_streams[i])]
           outs == [i \in DOMAIN d.output_streams |-> ChannelStats_Serialize(d.output_streams[i])]
           j == [d EXCEPT !.input_streams = ins, !.output_streams = outs]
<1>1. DOMAIN d = StatisticFields
  BY DEF Encodes, IsStatistic
<1>2. OneChannel(d.input_streams) /\ OneChannel(d.output_streams)
  BY DEF Encodes, IsStatistic, ListFields
<1>3. OneChannel(ins) /\ Kept(ins[1]) = Kept(d.input_streams[1])
  BY <1>2, ChannelsEncoded
<1>4. OneChannel(outs) /\ Kept(outs[1]) = Kept(d.output_streams[1])
  BY <1>2, ChannelsEncoded
<1>5. d.id # ""
  BY DEF Encodes
<1>6. Statistic_Serialize(d) = {j}
  BY <1>5 DEF Statistic_Serialize
<1> HIDE DEF ins, outs
<1>7. /\ DOMAIN j = StatisticFields /\ j = [f \in StatisticFields |-> j[f]]
      /\ j.input_streams = ins /\ j.output_streams = outs
      /\ \A f \in StatisticFields \ ListFields : j[f] = d[f]
  BY <1>1, FieldSets DEF ListFields
<1> HIDE DEF j
<1>8. IsStatistic(j)
  BY <1>3, <1>4, <1>7 DEF IsStatistic, ListFields
<1>9. j.rss = d.rss /\ j.id = d.id /\ j.timestamp = d.timestamp
  BY <1>7, FieldSets DEF ListFields
<1>10. \A f \in StatisticFields \ (ListFields \cup {"rss"}) : j[f] = st[f]
  BY <1>7 DEF Encodes
<1>11. \A f \in ListFields : Kept(j[f][1]) = Kept(st[f][1])
  BY <1>3, <1>4, <1>7 DEF Encodes, ListFields
<1>12. Encodes(j, st)
  BY <1>8, <1>9, <1>10, <1>11 DEF Encodes
<1> QED
  BY <1>6, <1>9, <1>12

\* The daemon answers a message of a pipe with one broadcast of the same kind,
\* of the same statistic and the same time (HandleRequestStreamsCommand).
LEMMA Handled ==
    ASSUME NEW req, NEW p, NEW S, IsSent(req, p, S),
           req.method \in {"statistic_stream", "changed_source_stream"},
           ~Statistic(req) => Has(req.params, "id")
    PROVE  \E r : /\ HandleRequestStreamsCommand(req) = {r}
                  /\ r.method = req.method /\ IsSent(r, p, S)
                  /\ (Statistic(req) => r.params.timestamp = req.params.timestamp)
<1>1. CASE Statistic(req)
  <2>1. PICK x \in S : x.proc = p /\ Encodes(req.params, x.stat)
    BY <1>1 DEF IsSent
  <2>2. PICK d : /\ Statistic_DeSerialize(req.params, now) = {d} /\ Encodes(d, x.stat)
                 /\ d.timestamp = req.params.timestamp
    BY <2>1, StatDecoded
  <2>3. PICK j : Statistic_Serialize(d) = {j} /\ Encodes(j, x.stat) /\ j.timestamp = d.timestamp
    BY <2>2, StatEncoded
  <2> DEFINE r == Notification("statistic_stream", j)
  <2>4. HandleRequestStatisticStream(req) = {r}
    BY <2>2, <2>3 DEF HandleRequestStatisticStream, StatisticStreamBroadcast
  <2>5. HandleRequestStreamsCommand(req) = {r}
    BY <1>1, <2>4 DEF HandleRequestStreamsCommand, Statistic
  <2>6. r.method = req.method /\ r.params = j
    BY <1>1 DEF Notification, Statistic
  <2> HIDE DEF r
  <2>7. IsSent(r, p, S)
    BY <2>1, <2>3, <2>6 DEF IsSent
  <2> QED
    BY <2>2, <2>3, <2>5, <2>6, <2>7
<1>2. CASE ~Statistic(req)
  <2> DEFINE ch == Optional(req.params, [id |-> "", url |-> "none"])
             r == Notification("changed_source_stream", ChangedSources_Serialize(ch.id, ch.url))
  <2>1. req.method = "changed_source_stream"
    BY <1>2 DEF Statistic
  <2>2. ChangedSources_DeSerialize(req.params) = {ch}
    BY <1>2 DEF ChangedSources_DeSerialize
  <2> HIDE DEF ch
  <2>3. HandleRequestChangedSourcesStream(req) = {r}
    BY <2>2 DEF HandleRequestChangedSourcesStream, ChangedSourcesStreamBroadcast
  <2>4. HandleRequestStreamsCommand(req) = {r}
    BY <2>1, <2>3 DEF HandleRequestStreamsCommand
  <2>5. r.method = req.method
    BY <2>1 DEF Notification
  <2> HIDE DEF r
  <2>6. IsSent(r, p, S)
    BY <1>2, <2>5 DEF IsSent, Statistic
  <2> QED
    BY <1>2, <2>4, <2>5, <2>6
<1> QED
  BY <1>1, <1>2

-----------------------------------------------------------------------------
(* Pipes and the messages of a client.                                     *)

\* What appending an element to a sequence gives.
LEMMA AppendFacts ==
    ASSUME NEW w, IsSeq(w), NEW x
    PROVE  LET w2 == Append(w, x) IN
           /\ IsSeq(w2) /\ Len(w) \in Nat /\ DOMAIN w = 1..Len(w) /\ Len(w2) = Len(w) + 1
           /\ DOMAIN w2 = 1..(Len(w) + 1) /\ \A i \in DOMAIN w : w2[i] = w[i]
           /\ w2[Len(w) + 1] = x /\ w \o <<x>> = w2
<1> DEFINE T == {w[i] : i \in DOMAIN w}
           w2 == Append(w, x)
           U == T \cup {x}
<1>1. w \in Seq(T)
  BY DEF IsSeq
<1> HIDE DEF T
<1>2. /\ Len(w) \in Nat /\ DOMAIN w = 1..Len(w) /\ Len(w2) = Len(w) + 1
      /\ DOMAIN w2 = 1..(Len(w) + 1) /\ (\A i \in DOMAIN w : w2[i] = w[i])
      /\ w2[Len(w) + 1] = x
  BY <1>1
<1>3. w \o <<x>> = w2
  BY <1>1, SingleAppend
<1> HIDE DEF w2
<1>4. w2 \in Seq({w2[i] : i \in DOMAIN w2})
  <2>1. w2 \in Seq(U)
    BY <1>1 DEF w2
  <2>2. w2 \in [1..(Len(w) + 1) -> {w2[i] : i \in DOMAIN w2}]
    BY <2>1, <1>2
  <2> QED
    BY <2>2, <1>2
<1>5. IsSeq(w2)
  BY <1>4 DEF IsSeq
<1> QED
  BY <1>2, <1>3, <1>5 DEF w2

\* What is left of a sequence without its first element.
LEMMA TailFacts ==
    ASSUME NEW w, IsSeq(w), w # <<>>
    PROVE  LET w2 == Tail(w) IN
           /\ IsSeq(w2) /\ Len(w) \in Nat /\ DOMAIN w = 1..Len(w) /\ Len(w) > 0
           /\ Head(w) = w[1] /\ DOMAIN w2 = 1..(Len(w) - 1)
           /\ \A i \in DOMAIN w2 : w2[i] = w[i + 1]
<1> DEFINE T == {w[i] : i \in DOMAIN w}
           w2 == Tail(w)
<1>1. w \in Seq(T)
  BY DEF IsSeq
<1> HIDE DEF T
<1>2. /\ Len(w) \in Nat /\ DOMAIN w = 1..Len(w) /\ Len(w) > 0
      /\ Head(w) = w[1] /\ DOMAIN w2 = 1..(Len(w) - 1) /\ Len(w) - 1 \in Nat
      /\ \A i \in DOMAIN w2 : w2[i] = w[i + 1]
  BY <1>1
<1>3. w2 \in Seq(T)
  BY <1>1
<1> HIDE DEF w2
<1>4. w2 \in Seq({w2[i] : i \in DOMAIN w2})
  <2>1. w2 \in [1..(Len(w) - 1) -> {w2[i] : i \in DOMAIN w2}]
    BY <1>2, <1>3
  <2> QED
    BY <2>1, <1>2
<1> QED
  BY <1>2, <1>4 DEF IsSeq, w2
\* A statistic that was sent has no time of the future.
LEMMA SentBefore ==
    ASSUME NEW m, NEW p, NEW S, NEW t, IsSent(m, p, S), SentInv(S, t), Statistic(m)
    PROVE  m.params.timestamp \in Nat /\ m.params.timestamp <= t
<1>1. PICK x \in S : Encodes(m.params, x.stat)
  BY DEF IsSent
<1>2. m.params.timestamp = x.stat.timestamp
  BY <1>1, FieldSets DEF Encodes, ListFields
<1> QED
  BY <1>1, <1>2 DEF SentInv

\* More statistics are sent: what was sent stays sent.
LEMMA SentGrows ==
    ASSUME NEW m, NEW p, NEW S, NEW S2, S \subseteq S2, IsSent(m, p, S)
    PROVE  IsSent(m, p, S2)
  BY DEF IsSent

\* More statistics are sent: a pipe stays as it should be.
LEMMA PipeGrows ==
    ASSUME NEW p, NEW w, NEW S, NEW S2, S \subseteq S2, PipeInv(p, w, S)
    PROVE  PipeInv(p, w, S2)
  BY SentGrows DEF PipeInv

\* A message of now is written behind those of the past.
LEMMA PipeWritten ==
    ASSUME NEW p, NEW w, NEW S, NEW S2, NEW m, NEW t, PipeInv(p, w, S), SentInv(S, t),
           S \subseteq S2, IsSent(m, p, S2),
           m \in [type : {"notification"}, method : {"statistic_stream", "changed_source_stream"},
                  params : {m.params}],
           Statistic(m) => m.params.timestamp = t,
           ~Statistic(m) => Has(m.params, "id")
    PROVE  PipeInv(p, Append(w, m), S2)
<1> DEFINE w2 == Append(w, m)
           n == Len(w) + 1
           Good(x) == /\ x \in [type : {"notification"},
                                method : {"statistic_stream", "changed_source_stream"},
                                params : {x.params}]
                      /\ IsSent(x, p, S2)
                      /\ (~Statistic(x) => Has(x.params, "id"))
<1>1. IsSeq(w)
  BY DEF PipeInv
<1>2. /\ IsSeq(w2) /\ Len(w) \in Nat /\ DOMAIN w = 1..Len(w)
      /\ DOMAIN w2 = 1..n /\ (\A i \in DOMAIN w : w2[i] = w[i]) /\ w2[n] = m
  BY <1>1, AppendFacts
<1> HIDE DEF w2
<1>3. \A i \in DOMAIN w : Good(w[i])
  BY SentGrows DEF PipeInv
<1>4. Good(m)
  OBVIOUS
<1> HIDE DEF Good
<1>5. \A i \in DOMAIN w2 : i = n \/ i \in DOMAIN w
  BY <1>2
<1>6. \A i \in DOMAIN w2 : Good(w2[i])
  BY <1>2, <1>3, <1>4, <1>5
<1>7. ASSUME NEW i \in DOMAIN w2, NEW j \in DOMAIN w2, i < j, Statistic(w2[i]), Statistic(w2[j])
      PROVE  w2[i].params.timestamp <= w2[j].params.timestamp
  <2>1. i \in DOMAIN w /\ w2[i] = w[i]
    BY <1>2, <1>7
  <2>2. CASE j \in DOMAIN w
    BY <2>1, <2>2, <1>2, <1>7 DEF PipeInv
  <2>3. CASE j = n
    <3>1. w2[j] = m /\ m.params.timestamp = t
      BY <1>2, <1>7, <2>3
    <3>2. IsSent(w[i], p, S)
      BY <2>1 DEF PipeInv
    <3> QED
      BY <3>1, <3>2, <2>1, <1>7, SentBefore
  <2> QED
    BY <2>2, <2>3, <1>5
<1> QED
  BY <1>2, <1>6, <1>7 DEF PipeInv, Good, w2

\* The first message is taken from a pipe.
LEMMA PipeRead ==
    ASSUME NEW p, NEW w, NEW S, PipeInv(p, w, S), w # <<>>
    PROVE  PipeInv(p, Tail(w), S)
<1> DEFINE w2 == Tail(w)
<1>1. IsSeq(w)
  BY DEF PipeInv
<1>2. /\ IsSeq(w2) /\ Len(w) \in Nat /\ DOMAIN w = 1..Len(w) /\ DOMAIN w2 = 1..(Len(w) - 1)
      /\ \A i \in DOMAIN w2 : w2[i] = w[i + 1]
  BY <1>1, TailFacts
<1> HIDE DEF w2
<1>3. \A i \in DOMAIN w2 : i + 1 \in DOMAIN w /\ i \in Nat
  BY <1>2
<1> QED
  BY <1>2, <1>3 DEF PipeInv, w2

\* A message to a client stays right when more is started, gone and sent.
LEMMA NoteGrows ==
    ASSUME NEW e, NEW B, NEW G, NEW S, NEW B2, NEW G2, NEW S2,
           B \subseteq B2, G \subseteq G2, S \subseteq S2, NoteInv(e, B, G, S)
    PROVE  NoteInv(e, B2, G2, S2)
  BY SentGrows DEF NoteInv

\* The messages of a client stay right when more is started, gone and sent.
LEMMA NotesGrow ==
    ASSUME NEW b, NEW B, NEW G, NEW S, NEW B2, NEW G2, NEW S2,
           B \subseteq B2, G \subseteq G2, S \subseteq S2, NotesInv(b, B, G, S)
    PROVE  NotesInv(b, B2, G2, S2)
  BY NoteGrows DEF NotesInv

\* A message is added for a client: that of an exit only when the process was
\* not gone before.
LEMMA NoteAdded ==
    ASSUME NEW b, NEW B, NEW G, NEW S, NEW G2, NEW e, NotesInv(b, B, G, S),
           e.about \in B, IsSent(e.msg, e.about, S),
           Quit(e) => e.about \notin G /\ G2 = G \cup {e.about},
           ~Quit(e) => G2 = G
    PROVE  NotesInv(Append(b, e), B, G2, S)
<1> DEFINE b2 == Append(b, e)
           n == Len(b) + 1
<1>1. IsSeq(b)
  BY DEF NotesInv
<1>2. /\ IsSeq(b2) /\ Len(b) \in Nat /\ DOMAIN b = 1..Len(b)
      /\ DOMAIN b2 = 1..n /\ (\A i \in DOMAIN b : b2[i] = b[i]) /\ b2[n] = e
  BY <1>1, AppendFacts
<1> HIDE DEF b2
<1>3. \A i \in DOMAIN b2 : i = n \/ i \in DOMAIN b
  BY <1>2
<1>4. G \subseteq G2
  OBVIOUS
<1>5. \A i \in DOMAIN b : NoteInv(b[i], B, G, S) /\ NoteInv(b[i], B, G2, S)
  BY <1>4, NoteGrows DEF NotesInv
<1>6. NoteInv(e, B, G2, S)
  BY DEF NoteInv
<1>7. \A i \in DOMAIN b2 : NoteInv(b2[i], B, G2, S)
  BY <1>2, <1>3, <1>5, <1>6
<1>8. ASSUME NEW i \in DOMAIN b, Quit(b[i]), Quit(e), b[i].about = e.about PROVE FALSE
  BY <1>5, <1>8 DEF NoteInv
<1>9. ASSUME NEW i \in DOMAIN b2, NEW j \in DOMAIN b2, Quit(b2[i]), Quit(b2[j]),
             b2[i].about = b2[j].about
      PROVE  i = j
  <2>1. CASE i \in DOMAIN b /\ j \in DOMAIN b
    BY <2>1, <1>2, <1>9 DEF NotesInv
  <2>2. CASE i \in DOMAIN b /\ j = n
    BY <2>2, <1>2, <1>8, <1>9
  <2>3. CASE i = n /\ j \in DOMAIN b
    BY <2>3, <1>2, <1>8, <1>9
  <2> QED
    BY <2>1, <2>2, <2>3, <1>3
<1> QED
  BY <1>2, <1>7, <1>9 DEF NotesInv, b2

\* A message is added for a client: when it is about a process whose earlier
\* ones are gone, their exits are already among the messages.
LEMMA ExitTold ==
    ASSUME NEW b, NEW u, NEW B, NEW G, NEW S, NEW G2, NEW e, NotesInv(b, B, G, S), ToldInv(b, u, G),
           InTurn(B, G), B \subseteq Processes, e.about \in B,
           Quit(e) => G2 = G \cup {e.about},
           ~Quit(e) => G2 = G
    PROVE  ToldInv(Append(b, e), u, G2)
<1> DEFINE b2 == Append(b, e)
           n == Len(b) + 1
<1>1. IsSeq(b)
  BY DEF NotesInv
<1>2. /\ Len(b) \in Nat /\ DOMAIN b = 1..Len(b)
      /\ DOMAIN b2 = 1..n /\ (\A i \in DOMAIN b : b2[i] = b[i]) /\ b2[n] = e
  BY <1>1, AppendFacts
<1> HIDE DEF b2
<1>3. \A i \in DOMAIN b2 : i = n \/ i \in DOMAIN b
  BY <1>2
<1>4. \A i \in DOMAIN b : b[i].about \in Processes
  BY DEF NotesInv, NoteInv
<1>5. n \in DOMAIN b2 /\ \A i \in DOMAIN b : i \in DOMAIN b2
  BY <1>2
<1>6. ASSUME NEW p \in G2 \ u
      PROVE  \E k \in DOMAIN b2 : b2[k].about = p /\ Quit(b2[k])
  <2>1. CASE p \in G
    <3>1. PICK k \in DOMAIN b : b[k].about = p /\ Quit(b[k])
      BY <2>1, <1>6 DEF ToldInv
    <3> QED
      BY <3>1, <1>2, <1>5
  <2>2. CASE p \notin G
    <3>1. Quit(e) /\ p = e.about
      BY <2>2, <1>6
    <3> QED
      BY <3>1, <1>2, <1>5
  <2> QED
    BY <2>1, <2>2
<1>7. ASSUME NEW i \in DOMAIN b2, NEW j \in DOMAIN b2, i < j, b2[i].about[1] = b2[j].about[1],
             b2[i].about[2] < b2[j].about[2], b2[i].about \notin u
      PROVE  \E k \in 1..(j - 1) : b2[k].about = b2[i].about /\ Quit(b2[k])
  <2>1. i \in DOMAIN b /\ b2[i] = b[i]
    BY <1>2, <1>7
  <2>2. CASE j \in DOMAIN b
    <3>1. b2[j] = b[j] /\ j \in 1..Len(b)
      BY <2>2, <1>2
    <3>2. PICK k \in 1..(j - 1) : b[k].about = b[i].about /\ Quit(b[k])
      BY <1>7, <2>1, <2>2, <3>1 DEF ToldInv
    <3>3. k \in DOMAIN b
      BY <3>1, <1>2
    <3> QED
      BY <3>2, <3>3, <2>1, <1>2
  <2>3. CASE j = n
    <3>1. b2[j] = e
      BY <2>3, <1>2
    <3>2. b[i].about \in G
      BY <1>4, <1>7, <2>1, <3>1 DEF InTurn
    <3>3. PICK k \in DOMAIN b : b[k].about = b[i].about /\ Quit(b[k])
      BY <3>2, <2>1, <1>7 DEF ToldInv
    <3>4. k \in 1..(j - 1)
      BY <2>3, <1>2
    <3> QED
      BY <3>3, <3>4, <2>1, <1>2
  <2> QED
    BY <2>2, <2>3, <1>3
<1> QED
  BY <1>6, <1>7 DEF ToldInv, b2

\* A client that cannot be written to misses the exit of p.
LEMMA ExitMissed ==
    ASSUME NEW b, NEW u, NEW G, NEW p, ToldInv(b, u, G)
    PROVE  ToldInv(b, u \cup {p}, G \cup {p})
  BY DEF ToldInv
\* A message that is no statistic of q leaves the order of those of q.
LEMMA OrderOfOthers ==
    ASSUME NEW b, NEW w, NEW q, NEW e, IsSeq(b), OrderInv(b, w, q), e.about # q \/ ~Statistic(e.msg)
    PROVE  OrderInv(Append(b, e), w, q)
<1> DEFINE b2 == Append(b, e)
           n == Len(b) + 1
<1>1. /\ Len(b) \in Nat /\ DOMAIN b = 1..Len(b)
      /\ DOMAIN b2 = 1..n /\ (\A i \in DOMAIN b : b2[i] = b[i]) /\ b2[n] = e
  BY AppendFacts
<1> HIDE DEF b2
<1>2. ASSUME NEW i \in DOMAIN b2, b2[i].about = q, Statistic(b2[i].msg)
      PROVE  i \in DOMAIN b /\ b2[i] = b[i]
  BY <1>1, <1>2
<1> QED
  BY <1>2 DEF OrderInv, b2

\* The first statistic of the pipe becomes the last of the client.
LEMMA OrderOfRead ==
    ASSUME NEW b, NEW w, NEW p, NEW e, NEW S, IsSeq(b), PipeInv(p, w, S), w # <<>>,
           OrderInv(b, w, p), e.about = p, Statistic(e.msg) => Statistic(w[1]),
           Statistic(w[1]) => e.msg.params.timestamp = w[1].params.timestamp
    PROVE  OrderInv(Append(b, e), Tail(w), p)
<1> DEFINE b2 == Append(b, e)
           w2 == Tail(w)
           n == Len(b) + 1
<1>1. /\ Len(b) \in Nat /\ DOMAIN b = 1..Len(b)
      /\ DOMAIN b2 = 1..n /\ (\A i \in DOMAIN b : b2[i] = b[i]) /\ b2[n] = e
  BY AppendFacts
<1>2. IsSeq(w)
  BY DEF PipeInv
<1>3. /\ Len(w) \in Nat /\ DOMAIN w = 1..Len(w) /\ Len(w) > 0 /\ DOMAIN w2 = 1..(Len(w) - 1)
      /\ \A i \in DOMAIN w2 : w2[i] = w[i + 1]
  BY <1>2, TailFacts
<1> HIDE DEF b2, w2
<1>4. \A i \in DOMAIN b2 : i = n \/ i \in DOMAIN b
  BY <1>1
<1>5. \A k \in DOMAIN w2 : k + 1 \in DOMAIN w /\ w2[k] = w[k + 1] /\ 1 < k + 1
  BY <1>3
<1>6. 1 \in DOMAIN w
  BY <1>3
<1>7. ASSUME NEW i \in DOMAIN b2, NEW j \in DOMAIN b2, i < j, b2[i].about = p, b2[j].about = p,
             Statistic(b2[i].msg), Statistic(b2[j].msg)
      PROVE  b2[i].msg.params.timestamp <= b2[j].msg.params.timestamp
  <2>1. i \in DOMAIN b /\ b2[i] = b[i]
    BY <1>1, <1>7
  <2>2. CASE j \in DOMAIN b
    BY <2>1, <2>2, <1>1, <1>7 DEF OrderInv
  <2>3. CASE j = n
    <3>1. b2[j] = e /\ Statistic(w[1]) /\ e.msg.params.timestamp = w[1].params.timestamp
      BY <2>3, <1>1, <1>7
    <3>2. b[i].msg.params.timestamp <= w[1].params.timestamp
      BY <3>1, <2>1, <1>6, <1>7 DEF OrderInv
    <3> QED
      BY <3>1, <3>2, <2>1
  <2> QED
    BY <2>2, <2>3, <1>4
<1>8. ASSUME NEW i \in DOMAIN b2, NEW k \in DOMAIN w2, b2[i].about = p,
             Statistic(b2[i].msg), Statistic(w2[k])
      PROVE  b2[i].msg.params.timestamp <= w2[k].params.timestamp
  <2>1. k + 1 \in DOMAIN w /\ w2[k] = w[k + 1] /\ 1 < k + 1
    BY <1>5
  <2>2. CASE i \in DOMAIN b
    BY <2>1, <2>2, <1>1, <1>8 DEF OrderInv
  <2>3. CASE i = n
    <3>1. b2[i] = e /\ Statistic(w[1]) /\ e.msg.params.timestamp = w[1].params.timestamp
      BY <2>3, <1>1, <1>8
    <3>2. w[1].params.timestamp <= w[k + 1].params.timestamp
      BY <3>1, <2>1, <1>6, <1>8 DEF PipeInv
    <3> QED
      BY <3>1, <3>2, <2>1
  <2> QED
    BY <2>2, <2>3, <1>4
<1> QED
  BY <1>7, <1>8 DEF OrderInv, b2, w2

\* A client misses the first message of the pipe.
LEMMA OrderOfSkipped ==
    ASSUME NEW b, NEW w, NEW p, IsSeq(w), w # <<>>, OrderInv(b, w, p)
    PROVE  OrderInv(b, Tail(w), p)
<1> DEFINE w2 == Tail(w)
<1>1. /\ Len(w) \in Nat /\ DOMAIN w = 1..Len(w) /\ Len(w) > 0 /\ DOMAIN w2 = 1..(Len(w) - 1)
      /\ \A i \in DOMAIN w2 : w2[i] = w[i + 1]
  BY TailFacts
<1> HIDE DEF w2
<1>2. \A k \in DOMAIN w2 : k + 1 \in DOMAIN w /\ w2[k] = w[k + 1]
  BY <1>1
<1> QED
  BY <1>2 DEF OrderInv, w2

\* A statistic of now is later than those the client has.
LEMMA OrderOfWritten ==
    ASSUME NEW b, NEW w, NEW p, NEW m, NEW B, NEW G, NEW S, NEW t, IsSeq(w), NotesInv(b, B, G, S),
           SentInv(S, t), OrderInv(b, w, p), Statistic(m) => m.params.timestamp = t
    PROVE  OrderInv(b, Append(w, m), p)
<1> DEFINE w2 == Append(w, m)
           n == Len(w) + 1
<1>1. /\ Len(w) \in Nat /\ DOMAIN w = 1..Len(w)
      /\ DOMAIN w2 = 1..n /\ (\A i \in DOMAIN w : w2[i] = w[i]) /\ w2[n] = m
  BY AppendFacts
<1> HIDE DEF w2
<1>2. \A i \in DOMAIN w2 : i = n \/ i \in DOMAIN w
  BY <1>1
<1>3. ASSUME NEW i \in DOMAIN b, NEW k \in DOMAIN w2, b[i].about = p,
             Statistic(b[i].msg), Statistic(w2[k])
      PROVE  b[i].msg.params.timestamp <= w2[k].params.timestamp
  <2>1. CASE k \in DOMAIN w
    BY <2>1, <1>1, <1>3 DEF OrderInv
  <2>2. CASE k = n
    <3>1. w2[k].params.timestamp = t
      BY <2>2, <1>1, <1>3
    <3>2. IsSent(b[i].msg, b[i].about, S)
      BY DEF NotesInv, NoteInv
    <3> QED
      BY <3>1, <3>2, <1>3, SentBefore
  <2> QED
    BY <2>1, <2>2, <1>2
<1> QED
  BY <1>3 DEF OrderInv, w2

\* When a process is started the earlier ones of its stream are gone: one of
\* them ran at a time and the last one is no child any more.
LEMMA StartedLast ==
    ASSUME ReportTypes, RunsInv, NEW s \in Streams, NEW n \in 1..MaxRuns,
           n > 1 => proc[<<s, n - 1>>] # "none", \A p \in childs : p[1] # s
    PROVE  InTurn(Begun \cup {<<s, n>>}, Gone)
<1> SUFFICES ASSUME NEW p \in Processes, p[1] = s, p[2] < n PROVE p \in Gone
  BY DEF RunsInv, InTurn
<1> DEFINE l == <<s, n - 1>>
<1>1. PICK m \in 1..MaxRuns : p = <<s, m>>
  BY DEF Processes
<1>2. n \in Nat /\ m \in Nat /\ m < n /\ MaxRuns \in Nat
  BY <1>1, ReportsAssumption
<1>3. l \in Processes /\ l[1] = s /\ l[2] = n - 1
  BY <1>2 DEF Processes
<1>4. l \in Begun
  BY <1>2, <1>3 DEF Begun
<1>5. l \in Gone
  <2>1. l \notin childs
    BY <1>3
  <2>2. proc[l] # "running" /\ proc[l] # "none"
    BY <2>1, <1>3, <1>4 DEF RunsInv, Begun
  <2>3. proc[l] \in {"none", "running", "exited"}
    BY <1>3 DEF ReportTypes
  <2> QED
    BY <2>1, <2>2, <2>3, <1>3 DEF Gone
<1>6. CASE m = n - 1
  BY <1>1, <1>5, <1>6
<1>7. CASE m < n - 1
  <2>1. p[2] < l[2] /\ p[1] = l[1]
    BY <1>1, <1>3, <1>7
  <2>2. InTurn(Begun, Gone)
    BY DEF RunsInv
  <2> HIDE DEF l
  <2> QED
    BY <2>1, <2>2, <1>4 DEF InTurn
<1> QED
  BY <1>2, <1>6, <1>7
-----------------------------------------------------------------------------
(* The steps of the processes.                                             *)

\* StreamStruct has the fields of a statistic and one channel each way.
LEMMA StructShape == ASSUME NEW s PROVE IsStatistic(StreamStruct(s))
<1> DEFINE st == StreamStruct(s)
           ch == ChannelStats(0)
<1>1. IsChannel(ch) /\ <<ch>>[1] = ch
  BY FieldSets DEF IsChannel, ChannelStats
<1>2. OneChannel(<<ch>>)
  BY <1>1 DEF OneChannel
<1>3. st.input_streams = <<ch>> /\ st.output_streams = <<ch>>
  BY DEF StreamStruct, StatisticDefaults
<1>4. st = [f \in StatisticFields |-> st[f]]
  BY FieldSets DEF StreamStruct, StatisticDefaults
<1> HIDE DEF st
<1> QED
  BY <1>2, <1>3, <1>4 DEF IsStatistic, ListFields, st

\* A statistic with other channels.
LEMMA ListsChanged ==
    ASSUME NEW st, NEW st2, NEW x, NEW y, IsStatistic(st), IsChannel(x), IsChannel(y),
           st2 = [st EXCEPT !.input_streams = <<x>>, !.output_streams = <<y>>]
    PROVE  IsStatistic(st2)
<1>1. DOMAIN st = StatisticFields
  BY DEF IsStatistic
<1>2. /\ st2 = [f \in StatisticFields |-> st2[f]]
      /\ st2.input_streams = <<x>> /\ st2.output_streams = <<y>>
  BY <1>1, FieldSets
<1>3. OneChannel(<<x>>) /\ OneChannel(<<y>>)
  <2>1. <<x>>[1] = x /\ <<y>>[1] = y
    OBVIOUS
  <2> QED
    BY <2>1 DEF OneChannel
<1> QED
  BY <1>2, <1>3 DEF IsStatistic, ListFields

\* A statistic with another value of a field that is no channel.
LEMMA FieldChanged ==
    ASSUME NEW st, IsStatistic(st), NEW g \in StatisticFields \ ListFields, NEW v
    PROVE  LET st2 == [st EXCEPT ![g] = v] IN
           /\ IsStatistic(st2) /\ st2[g] = v
           /\ \A f \in StatisticFields \ {g} : st2[f] = st[f]
<1> DEFINE st2 == [st EXCEPT ![g] = v]
<1>1. DOMAIN st = StatisticFields
  BY DEF IsStatistic
<1>2. /\ st2 = [f \in StatisticFields |-> st2[f]] /\ st2[g] = v
      /\ \A f \in StatisticFields \ {g} : st2[f] = st[f]
  BY <1>1
<1>3. \A f \in ListFields : f \in StatisticFields \ {g}
  BY FieldSets DEF ListFields
<1> HIDE DEF st2
<1>4. \A f \in ListFields : st2[f] = st[f]
  BY <1>2, <1>3
<1> QED
  BY <1>2, <1>4 DEF IsStatistic, st2

\* The statistic that DumpStreamStatus sends.
LEMMA Dumped ==
    ASSUME NEW st, IsStatistic(st), NEW r \in Nat, NEW t \in Nat
    PROVE  LET d == [st EXCEPT !.rss = r, !.timestamp = t] IN
           /\ IsStatistic(d) /\ d.timestamp = t
           /\ d.id # "" => Encodes(d, d)
<1> DEFINE e == [st EXCEPT !.rss = r]
           d == [e EXCEPT !.timestamp = t]
<1>1. {"rss", "timestamp"} \subseteq StatisticFields \ ListFields
  BY FieldSets DEF ListFields
<1>2. IsStatistic(e) /\ e.rss = r
  BY <1>1, FieldChanged
<1> HIDE DEF e
<1>3. IsStatistic(d) /\ d.timestamp = t /\ d.rss = r
  BY <1>1, <1>2, FieldChanged
<1>4. d = [st EXCEPT !.rss = r, !.timestamp = t]
  BY DEF e
<1> HIDE DEF d
<1>5. d.id # "" => Encodes(d, d)
  BY <1>3 DEF Encodes
<1> QED
  BY <1>3, <1>4, <1>5

\* Steps of a process that leave its state: the pipes, the memory and the
\* clock change.
LEMMA PipeStep ==
    ASSUME ReportsInv, UNCHANGED <<proc, childs, verified, inbox, untold>>,
           sent \subseteq sent', SentInv(sent', now'), now' \in 0..MaxClock, written' \in 0..MaxReports,
           DOMAIN mem_' = Processes, MemoryInv', DOMAIN pipe' = Processes,
           \A q \in Processes : PipeInv(q, pipe'[q], sent') /\ (pipe'[q] # <<>> => q \in Begun),
           \A c \in Clients, q \in Processes : OrderInv(inbox[c], pipe'[q], q)
    PROVE  ReportsInv'
<1>1. Begun' = Begun /\ Gone' = Gone
  BY DEF Begun, Gone
<1>2. ReportTypes'
  BY DEF ReportsInv, ReportTypes
<1>3. RunsInv'
  BY <1>1 DEF ReportsInv, RunsInv
<1>4. PipesInv'
  BY DEF PipesInv
<1>5. OrdersInv'
  BY DEF OrdersInv
<1>6. ReadersInv'
  <2> SUFFICES ASSUME NEW c \in Clients
               PROVE  ReaderInv(inbox[c], c \in verified, untold[c], Begun, Gone, sent')
    BY <1>1 DEF ReadersInv
  <2>1. ReaderInv(inbox[c], c \in verified, untold[c], Begun, Gone, sent)
    BY DEF ReportsInv, ReadersInv
  <2>2. NotesInv(inbox[c], Begun, Gone, sent')
    BY <2>1, NotesGrow DEF ReaderInv
  <2> QED
    BY <2>1, <2>2 DEF ReaderInv
<1> QED
  BY <1>2, <1>3, <1>4, <1>5, <1>6 DEF ReportsInv

\* StreamServer::WriteRequest of nothing or of one message.
LEMMA WriteStep ==
    ASSUME ReportsInv, UNCHANGED <<proc, childs, verified, inbox, now, untold>>,
           NEW p \in Processes, proc[p] = "running", NEW requests, WriteRequest(p, requests),
           sent \subseteq sent', SentInv(sent', now'), DOMAIN mem_' = Processes, MemoryInv',
           requests = {} \/ \E m :
              /\ requests = {m} /\ IsSent(m, p, sent')
              /\ m \in [type : {"notification"},
                        method : {"statistic_stream", "changed_source_stream"}, params : {m.params}]
              /\ (Statistic(m) => m.params.timestamp = now)
              /\ (~Statistic(m) => Has(m.params, "id"))
    PROVE  ReportsInv'
<1>1. /\ DOMAIN pipe = Processes /\ now \in 0..MaxClock /\ written \in 0..MaxReports
      /\ written' = written + 1 /\ written < MaxReports
      /\ pipe' = [pipe EXCEPT ![p] = pipe[p] \o SetToSeq(requests)]
  BY DEF ReportsInv, ReportTypes, WriteRequest
<1>2. now' \in 0..MaxClock /\ written' \in 0..MaxReports /\ DOMAIN pipe' = Processes
  BY <1>1, ReportsAssumption
<1>3. \A q \in Processes : q # p => pipe'[q] = pipe[q]
  BY <1>1
<1>4. pipe'[p] = pipe[p] \o SetToSeq(requests)
  BY <1>1
<1>5. \A q \in Processes : PipeInv(q, pipe[q], sent) /\ IsSeq(pipe[q])
  BY DEF ReportsInv, PipesInv, PipeInv
<1>6. p \in Begun
  BY DEF Begun
<1>7. \A c \in Clients, q \in Processes : OrderInv(inbox[c], pipe[q], q)
  BY DEF ReportsInv, OrdersInv
<1>8. \A c \in Clients : NotesInv(inbox[c], Begun, Gone, sent)
  BY DEF ReportsInv, ReadersInv, ReaderInv
<1>9. \A q \in Processes : pipe'[q] # <<>> => q \in Begun
  BY <1>3, <1>6 DEF ReportsInv, RunsInv
<1>10. \A q \in Processes : PipeInv(q, pipe[q], sent')
  BY <1>5, PipeGrows
<1>11. /\ PipeInv(p, pipe'[p], sent')
       /\ \A c \in Clients : OrderInv(inbox[c], pipe'[p], p)
  <2>1. CASE requests = {}
    <3>1. pipe'[p] = pipe[p]
      <4>1. pipe[p] \in Seq({pipe[p][i] : i \in DOMAIN pipe[p]})
        BY <1>5 DEF IsSeq
      <4> QED
        BY <4>1, <1>4, <2>1, SeqOfNone
    <3> QED
      BY <3>1, <1>7, <1>10
  <2>2. CASE requests # {}
    <3>1. PICK m :
              /\ requests = {m} /\ IsSent(m, p, sent')
              /\ m \in [type : {"notification"},
                        method : {"statistic_stream", "changed_source_stream"}, params : {m.params}]
              /\ (Statistic(m) => m.params.timestamp = now)
              /\ (~Statistic(m) => Has(m.params, "id"))
      BY <2>2
    <3>2. pipe'[p] = Append(pipe[p], m)
      <4>1. pipe'[p] = pipe[p] \o <<m>>
        BY <3>1, <1>4, SeqOfOne
      <4>2. pipe[p] \o <<m>> = Append(pipe[p], m)
        BY <1>5, AppendFacts
      <4> QED
        BY <4>1, <4>2
    <3>3. SentInv(sent, now)
      BY DEF ReportsInv
    <3>4. PipeInv(p, Append(pipe[p], m), sent')
      BY <3>1, <3>3, <1>5, PipeWritten
    <3>5. \A c \in Clients : OrderInv(inbox[c], Append(pipe[p], m), p)
      BY <3>1, <3>3, <1>5, <1>7, <1>8, OrderOfWritten
    <3> QED
      BY <3>2, <3>4, <3>5
  <2> QED
    BY <2>1, <2>2
<1>12. \A q \in Processes : PipeInv(q, pipe'[q], sent') /\ (pipe'[q] # <<>> => q \in Begun)
  BY <1>3, <1>9, <1>10, <1>11
<1>13. \A c \in Clients, q \in Processes : OrderInv(inbox[c], pipe'[q], q)
  BY <1>3, <1>7, <1>11
<1> QED
  BY <1>2, <1>12, <1>13, PipeStep

\* The memory of one process changes.
LEMMA MemoryStep ==
    ASSUME ReportsInv, NEW p \in Processes, NEW st, IsStatistic(st), proc' = proc,
           mem_' = [mem_ EXCEPT ![p] = st]
    PROVE  DOMAIN mem_' = Processes /\ MemoryInv'
<1>1. DOMAIN st = StatisticFields
  BY DEF IsStatistic
<1>2. DOMAIN mem_ = Processes
  BY DEF ReportsInv, ReportTypes
<1>3. DOMAIN mem_' = Processes /\ \A q \in Processes : mem_'[q] = IF q = p THEN st ELSE mem_[q]
  BY <1>2
<1>4. Begun' = Begun
  BY DEF Begun
<1> QED
  BY <1>1, <1>3, <1>4 DEF ReportsInv, MemoryInv

\* DumpStreamStatus after a change of the memory.
LEMMA DumpStep ==
    ASSUME ReportsInv, NEW p \in Processes, NEW st, IsStatistic(st), NEW rss \in RssValues,
           proc[p] = "running", mem_' = [mem_ EXCEPT ![p] = st], DumpStreamStatus(p, st, rss),
           UNCHANGED <<proc, childs, verified, inbox, now, untold>>
    PROVE  ReportsInv'
<1> DEFINE d == [st EXCEPT !.rss = rss, !.timestamp = now]
           x == [proc |-> p, stat |-> d]
<1>1. now \in Nat /\ rss \in Nat
  BY ReportsAssumption DEF ReportsInv, ReportTypes
<1>2. IsStatistic(d) /\ d.timestamp = now /\ (d.id # "" => Encodes(d, d))
  BY <1>1, Dumped
<1>3. WriteRequest(p, StreamStatistic(d)) /\ sent' = sent \cup {x}
  BY DEF DumpStreamStatus
<1>4. x.proc = p /\ x.stat = d
  OBVIOUS
<1> HIDE DEF d, x
<1>6. SentInv(sent, now)
  BY DEF ReportsInv
<1>7. SentInv(sent', now')
  <2> SUFFICES ASSUME NEW y \in sent' PROVE y.stat.timestamp \in Nat /\ y.stat.timestamp <= now
    BY DEF SentInv
  <2>1. CASE y \in sent
    BY <2>1, <1>1, <1>6 DEF SentInv
  <2>2. CASE y = x
    <3>1. y.stat.timestamp = now
      BY <2>2, <1>2, <1>4
    <3> QED
      BY <3>1, <1>1
  <2> QED
    BY <2>1, <2>2, <1>3
<1>8. DOMAIN mem_' = Processes /\ MemoryInv'
  BY MemoryStep
<1>9. \/ StreamStatistic(d) = {}
      \/ \E m : /\ StreamStatistic(d) = {m} /\ IsSent(m, p, sent')
                /\ m \in [type : {"notification"},
                          method : {"statistic_stream", "changed_source_stream"}, params : {m.params}]
                /\ (Statistic(m) => m.params.timestamp = now)
                /\ (~Statistic(m) => Has(m.params, "id"))
  <2>1. CASE d.id = ""
    BY <2>1 DEF StreamStatistic, Statistic_Serialize, Nothing
  <2>2. CASE d.id # ""
    <3>1. PICK j : Statistic_Serialize(d) = {j} /\ Encodes(j, d) /\ j.timestamp = now
      BY <2>2, <1>2, StatEncoded
    <3> DEFINE m == Notification("statistic_stream", j)
    <3>2. StreamStatistic(d) = {m}
      BY <3>1 DEF StreamStatistic
    <3>3. /\ m.method = "statistic_stream" /\ m.params = j
          /\ m \in [type : {"notification"},
                    method : {"statistic_stream", "changed_source_stream"}, params : {m.params}]
      BY DEF Notification
    <3> HIDE DEF m
    <3>4. IsSent(m, p, sent')
      BY <3>1, <3>3, <1>3, <1>4 DEF IsSent
    <3> QED
      BY <3>1, <3>2, <3>3, <3>4 DEF Statistic
  <2> QED
    BY <2>1, <2>2
<1>10. sent \subseteq sent'
  BY <1>3
<1> QED
  BY <1>3, <1>7, <1>8, <1>9, <1>10, WriteStep
\* StartProcess keeps the invariant.
LEMMA StartProcessStep ==
    ASSUME ReportsInv, NEW s \in Streams, StartProcess(s)
    PROVE  ReportsInv'
<1>1. PICK n \in 1..MaxRuns :
        /\ proc[<<s, n>>] = "none"
        /\ (n > 1 => proc[<<s, n - 1>>] # "none")
        /\ \A p \in childs : p[1] # s
        /\ proc' = [proc EXCEPT ![<<s, n>>] = "running"]
        /\ childs' = childs \cup {<<s, n>>}
        /\ mem_' = [mem_ EXCEPT ![<<s, n>>] = StreamStruct(s)]
        /\ UNCHANGED <<pipe, verified, inbox, now, written, sent, untold>>
  BY DEF StartProcess
<1>2. PICK p : p = <<s, n>>
  OBVIOUS
<1>3. p \in Processes /\ proc[p] = "none"
  BY <1>1, <1>2 DEF Processes
<1>4. /\ proc \in [Processes -> {"none", "running", "exited"}] /\ childs \in SUBSET Processes
      /\ DOMAIN mem_ = Processes
  BY DEF ReportsInv, ReportTypes
<1>5. proc' = [proc EXCEPT ![p] = "running"] /\ childs' = childs \cup {p}
      /\ mem_' = [mem_ EXCEPT ![p] = StreamStruct(s)]
  BY <1>1, <1>2
<1>6. /\ proc' \in [Processes -> {"none", "running", "exited"}] /\ proc'[p] = "running"
      /\ \A q \in Processes : q # p => proc'[q] = proc[q]
  BY <1>3, <1>4, <1>5
<1>7. Begun' = Begun \cup {p}
  BY <1>3, <1>6 DEF Begun
<1>8. Gone' = Gone
  BY <1>3, <1>5, <1>6 DEF Gone
<1>9. ReportTypes'
  BY <1>1, <1>3, <1>4, <1>5, <1>6 DEF ReportsInv, ReportTypes
<1>10. InTurn(Begun \cup {p}, Gone)
  BY <1>1, <1>2, StartedLast DEF ReportsInv
<1>11. RunsInv'
  <2>1. \A q \in Processes : proc'[q] = "running" => q \in childs'
    BY <1>5, <1>6 DEF ReportsInv, RunsInv
  <2>2. \A q \in childs' : q \in Begun'
    BY <1>5, <1>7 DEF ReportsInv, RunsInv
  <2>3. \A q \in Processes : pipe'[q] # <<>> => q \in Begun'
    BY <1>1, <1>7 DEF ReportsInv, RunsInv
  <2> QED
    BY <2>1, <2>2, <2>3, <1>7, <1>8, <1>10 DEF RunsInv
<1>12. MemoryInv'
  <2>1. \A q \in Processes : mem_'[q] = IF q = p THEN StreamStruct(s) ELSE mem_[q]
    BY <1>4, <1>5
  <2>2. IsStatistic(StreamStruct(s)) /\ DOMAIN StreamStruct(s) = StatisticFields
    BY StructShape DEF IsStatistic
  <2>3. MemoryInv
    BY DEF ReportsInv
  <2> QED
    BY <2>1, <2>2, <2>3, <1>7 DEF MemoryInv
<1>13. ReadersInv'
  <2> SUFFICES ASSUME NEW c \in Clients
               PROVE  ReaderInv(inbox[c], c \in verified, untold[c], Begun \cup {p}, Gone, sent)
    BY <1>1, <1>7, <1>8 DEF ReadersInv
  <2>1. ReaderInv(inbox[c], c \in verified, untold[c], Begun, Gone, sent)
    BY DEF ReportsInv, ReadersInv
  <2>2. NotesInv(inbox[c], Begun \cup {p}, Gone, sent)
    BY <2>1, NotesGrow DEF ReaderInv
  <2> QED
    BY <2>1, <2>2 DEF ReaderInv
<1>14. PipesInv' /\ OrdersInv' /\ SentInv(sent, now)'
  BY <1>1 DEF ReportsInv, PipesInv, OrdersInv
<1> QED
  BY <1>9, <1>11, <1>12, <1>13, <1>14 DEF ReportsInv

\* CountBytes keeps the invariant.
LEMMA CountBytesStep ==
    ASSUME ReportsInv, NEW p \in Processes, CountBytes(p)
    PROVE  ReportsInv'
<1> DEFINE m == mem_[p]
           ch == m.input_streams[1]
           ch2 == [ch EXCEPT !.total_bytes = ch.total_bytes + 1, !.last_update_time = now]
           m2 == [m EXCEPT !.input_streams = <<ch2>>, !.output_streams = <<m.output_streams[1]>>]
<1>1. IsStatistic(m)
  BY DEF ReportsInv, MemoryInv, CountBytes, Begun
<1>2. /\ m.input_streams = <<ch>> /\ IsChannel(ch)
      /\ m.output_streams = <<m.output_streams[1]>> /\ IsChannel(m.output_streams[1])
  BY <1>1 DEF IsStatistic, ListFields, OneChannel
<1>3. DOMAIN ch = ChannelFields
  BY <1>2 DEF IsChannel
<1>4. IsChannel(ch2)
  BY <1>3, FieldSets DEF IsChannel
<1>5. IsStatistic(m2)
  <2> HIDE DEF ch2, m
  <2> QED
    BY <1>1, <1>2, <1>4, ListsChanged
<1>6. DOMAIN mem_ = Processes /\ DOMAIN m = StatisticFields
  BY <1>1 DEF ReportsInv, ReportTypes, IsStatistic
<1>7. mem_' = [mem_ EXCEPT ![p] = m2]
  <2>1. mem_' = [mem_ EXCEPT ![p].input_streams[1].total_bytes = @ + 1,
                            ![p].input_streams[1].last_update_time = now]
    BY DEF CountBytes
  <2>2. mem_' = [mem_ EXCEPT ![p] = [m EXCEPT !.input_streams = [m.input_streams EXCEPT ![1] = ch2]]]
    <3> DEFINE ch1 == [ch EXCEPT !.total_bytes = ch.total_bytes + 1]
               m1 == [m EXCEPT !.input_streams = [m.input_streams EXCEPT ![1] = ch1]]
               f1 == [mem_ EXCEPT ![p] = m1]
    <3>1. f1 = [mem_ EXCEPT ![p].input_streams[1].total_bytes = @ + 1]
      OBVIOUS
    <3>2. mem_' = [f1 EXCEPT ![p].input_streams[1].last_update_time = now]
      BY <2>1, <3>1
    <3>3. f1[p] = m1 /\ DOMAIN f1 = Processes
      BY <1>6
    <3>4. m1.input_streams = [m.input_streams EXCEPT ![1] = ch1] /\ DOMAIN m1 = StatisticFields
      BY <1>6, FieldSets
    <3>5. m1.input_streams[1] = ch1
      BY <3>4, <1>2
    <3>6. ch2 = [ch1 EXCEPT !.last_update_time = now]
      OBVIOUS
    <3> HIDE DEF ch1, ch2
    <3>7. [m1.input_streams EXCEPT ![1] = ch2] = [m.input_streams EXCEPT ![1] = ch2]
      BY <3>4, <1>2
    <3> HIDE DEF f1
    <3>8. mem_' = [f1 EXCEPT ![p] = [m1 EXCEPT !.input_streams = [m1.input_streams EXCEPT ![1] = ch2]]]
      BY <3>2, <3>3, <3>5, <3>6
    <3>9. [m1 EXCEPT !.input_streams = [m.input_streams EXCEPT ![1] = ch2]]
          = [m EXCEPT !.input_streams = [m.input_streams EXCEPT ![1] = ch2]]
      OBVIOUS
    <3> HIDE DEF m1
    <3> QED
      BY <3>7, <3>8, <3>9 DEF f1
  <2>3. [m.input_streams EXCEPT ![1] = ch2] = <<ch2>>
    BY <1>2
  <2>4. [m EXCEPT !.input_streams = <<ch2>>] = m2
    BY <1>2, <1>6, FieldSets
  <2> QED
    BY <2>2, <2>3, <2>4
<1> HIDE DEF m2
<1>8. UNCHANGED <<proc, childs, pipe, verified, inbox, now, written, sent, untold>>
  BY DEF CountBytes
<1>9. DOMAIN mem_' = Processes /\ MemoryInv'
  BY <1>5, <1>7, <1>8, MemoryStep
<1>10. \A q \in Processes : PipeInv(q, pipe[q], sent) /\ (pipe[q] # <<>> => q \in Begun)
  BY DEF ReportsInv, PipesInv, RunsInv
<1>11. \A c \in Clients, q \in Processes : OrderInv(inbox[c], pipe[q], q)
  BY DEF ReportsInv, OrdersInv
<1>12. SentInv(sent, now) /\ now \in 0..MaxClock /\ written \in 0..MaxReports /\ DOMAIN pipe = Processes
  BY DEF ReportsInv, ReportTypes
<1> QED
  BY <1>8, <1>9, <1>10, <1>11, <1>12, PipeStep

\* Checkpoint keeps the invariant.
LEMMA CheckpointStep ==
    ASSUME ReportsInv, NEW p \in Processes, NEW rss \in RssValues, Checkpoint(p, rss)
    PROVE  ReportsInv'
<1> DEFINE Check(st) == [st EXCEPT !.bps = st.total_bytes - st.prev_total_bytes,
                                   !.prev_total_bytes = st.total_bytes]
           m == mem_[p]
           x == Check(m.input_streams[1])
           y == Check(m.output_streams[1])
           next == [m EXCEPT !.input_streams = <<x>>, !.output_streams = <<y>>]
<1>1. proc[p] = "running" /\ IsStatistic(m)
  BY DEF ReportsInv, MemoryInv, Checkpoint, Begun
<1>2. \A ch : IsChannel(ch) => IsChannel(Check(ch))
  BY FieldSets DEF IsChannel
<1>3. IsChannel(x) /\ IsChannel(y)
  BY <1>1, <1>2 DEF IsStatistic, ListFields, OneChannel
<1>4. IsStatistic(next)
  <2> HIDE DEF x, y
  <2> QED
    BY <1>1, <1>3, ListsChanged
<1>5. DOMAIN m = StatisticFields
  BY <1>1 DEF IsStatistic
<1>6. /\ mem_' = [mem_ EXCEPT ![p] = next] /\ DumpStreamStatus(p, next, rss)
      /\ UNCHANGED <<proc, childs, verified, inbox, now, untold>>
  BY <1>5, FieldSets DEF Checkpoint
<1> HIDE DEF next
<1> QED
  BY <1>1, <1>4, <1>6, DumpStep

\* ChangeStatus keeps the invariant.
LEMMA ChangeStatusStep ==
    ASSUME ReportsInv, NEW p \in Processes, NEW status, NEW rss \in RssValues,
           ChangeStatus(p, status, rss)
    PROVE  ReportsInv'
<1> DEFINE m == mem_[p]
           n1 == [m EXCEPT !.status = status]
           n2 == [n1 EXCEPT !.restarts = IF status = "NEW" THEN m.restarts + 1 ELSE m.restarts]
           next == [n2 EXCEPT !.idle_time = IF status = "NEW" THEN m.idle_time + 1 ELSE m.idle_time]
<1>1. proc[p] = "running" /\ IsStatistic(m)
  BY DEF ReportsInv, MemoryInv, ChangeStatus, Begun
<1>2. {"status", "restarts", "idle_time"} \subseteq StatisticFields \ ListFields
  BY FieldSets DEF ListFields
<1>3. IsStatistic(n1)
  BY <1>1, <1>2, FieldChanged
<1>4. IsStatistic(n2)
  <2> HIDE DEF n1
  <2> QED
    BY <1>2, <1>3, FieldChanged
<1>5. IsStatistic(next)
  <2> HIDE DEF n2
  <2> QED
    BY <1>2, <1>4, FieldChanged
<1>6. DOMAIN m = StatisticFields
  BY <1>1 DEF IsStatistic
<1>7. next = [m EXCEPT !.status = status,
                       !.restarts = IF status = "NEW" THEN @ + 1 ELSE @,
                       !.idle_time = IF status = "NEW" THEN @ + 1 ELSE @]
  BY <1>6, FieldSets
<1> HIDE DEF next
<1>8. /\ mem_' = [mem_ EXCEPT ![p] = next] /\ DumpStreamStatus(p, next, rss)
      /\ UNCHANGED <<proc, childs, verified, inbox, now, untold>>
  BY <1>7 DEF ChangeStatus
<1> QED
  BY <1>1, <1>5, <1>8, DumpStep

\* InputChanged keeps the invariant.
LEMMA InputChangedStep ==
    ASSUME ReportsInv, NEW p \in Processes, NEW url, InputChanged(p, url)
    PROVE  ReportsInv'
<1> DEFINE j == ChangedSources_Serialize(mem_[p].id, url)
           m == Notification("changed_source_stream", j)
<1>1. /\ proc[p] = "running" /\ WriteRequest(p, {m})
      /\ UNCHANGED <<proc, childs, mem_, verified, inbox, now, sent, untold>>
  BY DEF InputChanged, StreamChangedSources
<1>2. /\ m.method = "changed_source_stream" /\ m.params = j
      /\ m \in [type : {"notification"}, method : {"statistic_stream", "changed_source_stream"},
                params : {m.params}]
  BY DEF Notification
<1>3. Has(j, "id")
  BY DEF Has, ChangedSources_Serialize
<1> HIDE DEF m, j
<1>4. ~Statistic(m) /\ IsSent(m, p, sent')
  BY <1>2 DEF Statistic, IsSent
<1>6. SentInv(sent', now')
  BY <1>1 DEF ReportsInv, SentInv
<1>7. Begun' = Begun
  BY <1>1 DEF Begun
<1>8. DOMAIN mem_' = Processes /\ MemoryInv'
  BY <1>1, <1>7 DEF ReportsInv, ReportTypes, MemoryInv
<1> QED
  BY <1>1, <1>2, <1>3, <1>4, <1>6, <1>8, WriteStep

\* ProcessExits keeps the invariant.
LEMMA ProcessExitsStep ==
    ASSUME ReportsInv, NEW p \in Processes, ProcessExits(p)
    PROVE  ReportsInv'
<1>1. /\ proc[p] = "running" /\ proc' = [proc EXCEPT ![p] = "exited"]
      /\ UNCHANGED <<childs, mem_, pipe, verified, inbox, now, written, sent, untold>>
  BY DEF ProcessExits
<1>2. proc \in [Processes -> {"none", "running", "exited"}]
  BY DEF ReportsInv, ReportTypes
<1>3. /\ proc' \in [Processes -> {"none", "running", "exited"}] /\ proc'[p] = "exited"
      /\ \A q \in Processes : q # p => proc'[q] = proc[q]
  BY <1>1, <1>2
<1>4. p \in childs
  BY <1>1 DEF ReportsInv, RunsInv
<1>5. Begun' = Begun
  BY <1>1, <1>3 DEF Begun
<1>6. Gone' = Gone
  BY <1>1, <1>3, <1>4 DEF Gone
<1>7. ReportTypes'
  BY <1>1, <1>3 DEF ReportsInv, ReportTypes
<1>8. RunsInv'
  BY <1>1, <1>3, <1>5, <1>6 DEF ReportsInv, RunsInv
<1>9. MemoryInv'
  BY <1>1, <1>5 DEF ReportsInv, MemoryInv
<1>10. ReadersInv'
  BY <1>1, <1>5, <1>6 DEF ReportsInv, ReadersInv
<1>11. PipesInv' /\ OrdersInv' /\ SentInv(sent, now)'
  BY <1>1 DEF ReportsInv, PipesInv, OrdersInv
<1> QED
  BY <1>7, <1>8, <1>9, <1>10, <1>11 DEF ReportsInv

\* ClockTicks keeps the invariant: what was sent gets older.
LEMMA ClockTicksStep ==
    ASSUME ReportsInv, ClockTicks
    PROVE  ReportsInv'
<1>1. /\ now < MaxClock /\ now' = now + 1
      /\ UNCHANGED <<proc, childs, mem_, pipe, verified, inbox, written, sent, untold>>
  BY DEF ClockTicks
<1>2. now \in 0..MaxClock /\ written \in 0..MaxReports /\ SentInv(sent, now)
      /\ DOMAIN mem_ = Processes /\ DOMAIN pipe = Processes
  BY DEF ReportsInv, ReportTypes
<1>3. now' \in 0..MaxClock
  BY <1>1, <1>2, ReportsAssumption
<1>4. SentInv(sent', now')
  BY <1>1, <1>2, ReportsAssumption DEF SentInv
<1>5. Begun' = Begun
  BY <1>1 DEF Begun
<1>6. MemoryInv'
  BY <1>1, <1>5 DEF ReportsInv, MemoryInv
<1>7. \A q \in Processes : PipeInv(q, pipe[q], sent) /\ (pipe[q] # <<>> => q \in Begun)
  BY DEF ReportsInv, PipesInv, RunsInv
<1>8. \A c \in Clients, q \in Processes : OrderInv(inbox[c], pipe[q], q)
  BY DEF ReportsInv, OrdersInv
<1> QED
  BY <1>1, <1>2, <1>3, <1>4, <1>6, <1>7, <1>8, PipeStep
-----------------------------------------------------------------------------
(* The steps of the daemon.                                                *)

\* BroadcastClients of one message: who gets it and who does not.
LEMMA Broadcast ==
    ASSUME ReportsInv, NEW p, NEW r, NEW failing, BroadcastClients(p, {r}, failing)
    PROVE  /\ DOMAIN inbox' = Clients
           /\ \A c \in Clients : c \in verified \ failing =>
                inbox'[c] = Append(inbox[c], [about |-> p, msg |-> r]) /\ Len(inbox'[c]) <= MaxInbox
           /\ \A c \in Clients : c \notin verified \ failing => inbox'[c] = inbox[c]
<1> DEFINE e == [about |-> p, msg |-> r]
<1>1. SetToSeq({r}) = <<r>>
  BY SeqOfOne
<1>2. [i \in DOMAIN <<r>> |-> [about |-> p, msg |-> <<r>>[i]]] = <<e>>
  OBVIOUS
<1>3. inbox' = [c \in Clients |-> IF c \in verified \ failing THEN inbox[c] \o <<e>> ELSE inbox[c]]
  <2>1. inbox' = [c \in Clients |->
            IF c \in verified \ failing
            THEN inbox[c] \o [i \in DOMAIN SetToSeq({r}) |-> [about |-> p, msg |-> SetToSeq({r})[i]]]
            ELSE inbox[c]]
    BY DEF BroadcastClients
  <2> QED
    BY <2>1, <1>1, <1>2
<1> HIDE DEF e
<1>4. ASSUME NEW c \in Clients, c \in verified \ failing
      PROVE  inbox'[c] = Append(inbox[c], e) /\ Len(inbox'[c]) <= MaxInbox
  <2>1. IsSeq(inbox[c])
    BY DEF ReportsInv, ReadersInv, ReaderInv, NotesInv
  <2>2. /\ inbox[c] \o <<e>> = Append(inbox[c], e) /\ Len(Append(inbox[c], e)) = Len(inbox[c]) + 1
        /\ Len(inbox[c]) \in Nat
    BY <2>1, AppendFacts
  <2>3. Len(inbox[c]) < MaxInbox
    BY <1>4 DEF BroadcastClients
  <2>4. inbox'[c] = inbox[c] \o <<e>>
    BY <1>3, <1>4
  <2> QED
    BY <2>2, <2>3, <2>4, ReportsAssumption
<1>5. DOMAIN inbox' = Clients /\ \A c \in Clients : c \notin verified \ failing => inbox'[c] = inbox[c]
  BY <1>3
<1> QED
  BY <1>4, <1>5 DEF e

\* StreamDataReceived keeps the invariant.
LEMMA DataReceivedStep ==
    ASSUME ReportsInv, NEW p \in Processes, NEW failing, StreamDataReceived(p, failing)
    PROVE  ReportsInv'
<1> DEFINE w == pipe[p]
<1>1. /\ w # <<>> /\ pipe' = [pipe EXCEPT ![p] = Tail(w)]
      /\ BroadcastClients(p, HandleRequestStreamsCommand(Head(w)), failing)
      /\ UNCHANGED <<proc, childs, mem_, verified, now, written, sent, untold>>
  BY DEF StreamDataReceived
<1>2. PipeInv(p, w, sent) /\ IsSeq(w)
  BY DEF ReportsInv, PipesInv, PipeInv
<1>3. Head(w) = w[1] /\ 1 \in DOMAIN w
  BY <1>1, <1>2, TailFacts
<1>4. /\ w[1].method \in {"statistic_stream", "changed_source_stream"}
      /\ IsSent(w[1], p, sent)
      /\ (~Statistic(w[1]) => Has(w[1].params, "id"))
  <2>1. w[1] \in [type : {"notification"}, method : {"statistic_stream", "changed_source_stream"},
                  params : {w[1].params}]
    BY <1>2, <1>3 DEF PipeInv
  <2> QED
    BY <2>1, <1>2, <1>3 DEF PipeInv
<1>5. PICK r : /\ HandleRequestStreamsCommand(w[1]) = {r}
               /\ r.method = w[1].method /\ IsSent(r, p, sent)
               /\ (Statistic(w[1]) => r.params.timestamp = w[1].params.timestamp)
  BY <1>4, Handled
<1> DEFINE e == [about |-> p, msg |-> r]
<1>6. /\ DOMAIN inbox' = Clients
      /\ \A c \in Clients : c \in verified \ failing =>
                inbox'[c] = Append(inbox[c], e) /\ Len(inbox'[c]) <= MaxInbox
      /\ \A c \in Clients : c \notin verified \ failing => inbox'[c] = inbox[c]
  <2>1. BroadcastClients(p, {r}, failing)
    BY <1>1, <1>3, <1>5
  <2> QED
    BY <2>1, Broadcast
<1>7. e.about = p /\ e.msg = r
  OBVIOUS
<1> HIDE DEF e
<1>8. Begun' = Begun /\ Gone' = Gone
  BY <1>1 DEF Begun, Gone
<1>9. p \in Begun /\ Begun \subseteq Processes /\ InTurn(Begun, Gone)
  BY <1>1 DEF ReportsInv, RunsInv, Begun
<1>10. DOMAIN pipe = Processes
  BY DEF ReportsInv, ReportTypes
<1>11. DOMAIN pipe' = Processes /\ \A q \in Processes : pipe'[q] = IF q = p THEN Tail(w) ELSE pipe[q]
  BY <1>1, <1>10
<1>12. ~Quit(e) /\ (Statistic(e.msg) <=> Statistic(w[1]))
  BY <1>4, <1>5, <1>7 DEF Quit, Statistic
<1>13. ReportTypes'
  BY <1>1, <1>6, <1>11 DEF ReportsInv, ReportTypes
<1>14. RunsInv'
  BY <1>1, <1>8, <1>9, <1>11 DEF ReportsInv, RunsInv
<1>15. MemoryInv' /\ SentInv(sent, now)'
  BY <1>1, <1>8 DEF ReportsInv, MemoryInv
<1>16. PipesInv'
  <2>1. PipeInv(p, Tail(w), sent)
    BY <1>1, <1>2, PipeRead
  <2>2. \A q \in Processes : PipeInv(q, pipe[q], sent)
    BY DEF ReportsInv, PipesInv
  <2> QED
    BY <2>1, <2>2, <1>1, <1>11 DEF PipesInv
<1>17. ASSUME NEW c \in Clients
       PROVE  /\ ReaderInv(inbox'[c], c \in verified, untold[c], Begun, Gone, sent)
              /\ \A q \in Processes : OrderInv(inbox'[c], pipe'[q], q)
  <2>1. ReaderInv(inbox[c], c \in verified, untold[c], Begun, Gone, sent)
    BY DEF ReportsInv, ReadersInv
  <2>2. \A q \in Processes : OrderInv(inbox[c], pipe[q], q)
    BY DEF ReportsInv, OrdersInv
  <2>3. CASE c \notin verified \ failing
    <3>1. inbox'[c] = inbox[c]
      BY <2>3, <1>6
    <3>2. OrderInv(inbox[c], Tail(w), p)
      BY <2>2, <1>1, <1>2, OrderOfSkipped
    <3> QED
      BY <3>1, <3>2, <2>1, <2>2, <1>11
  <2>4. CASE c \in verified \ failing
    <3>1. inbox'[c] = Append(inbox[c], e) /\ Len(inbox'[c]) <= MaxInbox
      BY <2>4, <1>6
    <3>2. NotesInv(inbox[c], Begun, Gone, sent) /\ ToldInv(inbox[c], untold[c], Gone) /\ IsSeq(inbox[c])
      BY <2>1, <2>4 DEF ReaderInv, NotesInv
    <3>3. NotesInv(inbox'[c], Begun, Gone, sent)
      BY <3>1, <3>2, <1>5, <1>7, <1>9, <1>12, NoteAdded
    <3>4. ToldInv(inbox'[c], untold[c], Gone)
      BY <3>1, <3>2, <1>7, <1>9, <1>12, ExitTold
    <3>5. OrderInv(inbox'[c], pipe'[p], p)
      <4>1. OrderInv(inbox[c], w, p)
        BY <2>2
      <4>2. Statistic(w[1]) => e.msg.params.timestamp = w[1].params.timestamp
        BY <1>5, <1>7
      <4>3. OrderInv(Append(inbox[c], e), Tail(w), p)
        BY <4>1, <4>2, <3>2, <1>1, <1>2, <1>7, <1>12, OrderOfRead
      <4> QED
        BY <4>3, <3>1, <1>11
    <3>6. \A q \in Processes : q # p => OrderInv(inbox'[c], pipe'[q], q)
      BY <3>1, <3>2, <2>2, <1>7, <1>11, OrderOfOthers
    <3> QED
      BY <3>1, <3>3, <3>4, <3>5, <3>6, <2>4 DEF ReaderInv
  <2> QED
    BY <2>3, <2>4
<1>18. ReadersInv' /\ OrdersInv'
  BY <1>1, <1>8, <1>17 DEF ReadersInv, OrdersInv
<1> QED
  BY <1>13, <1>14, <1>15, <1>16, <1>18 DEF ReportsInv

\* ChildStatusChanged keeps the invariant.
LEMMA ChildChangedStep ==
    ASSUME ReportsInv, NEW p \in Processes, NEW code, NEW failing, ChildStatusChanged(p, code, failing)
    PROVE  ReportsInv'
<1> DEFINE r == Notification("quit_status_stream", QuitStatus_Serialize(p[1], code, 0))
           e == [about |-> p, msg |-> r]
<1>1. /\ p \in childs /\ proc[p] = "exited" /\ childs' = childs \ {p}
      /\ BroadcastClients(p, {r}, failing)
      /\ untold' = [c \in Clients |->
                      IF c \in verified \cap failing THEN untold[c] \cup {p} ELSE untold[c]]
      /\ UNCHANGED <<proc, mem_, pipe, verified, now, written, sent>>
  BY DEF ChildStatusChanged, QuitStatusStreamBroadcast
<1>2. r.method = "quit_status_stream" /\ e.about = p /\ e.msg = r
  BY DEF Notification
<1> HIDE DEF r
<1>3. /\ DOMAIN inbox' = Clients
      /\ \A c \in Clients : c \in verified \ failing =>
                inbox'[c] = Append(inbox[c], e) /\ Len(inbox'[c]) <= MaxInbox
      /\ \A c \in Clients : c \notin verified \ failing => inbox'[c] = inbox[c]
  BY <1>1, Broadcast
<1> HIDE DEF e
<1>4. Quit(e) /\ ~Statistic(e.msg) /\ IsSent(e.msg, e.about, sent)
  BY <1>2 DEF Quit, Statistic, IsSent
<1>5. Begun' = Begun /\ p \in Begun /\ Begun \subseteq Processes
  BY <1>1 DEF Begun
<1>6. p \notin Gone /\ Gone' = Gone \cup {p}
  BY <1>1 DEF Gone
<1>7. InTurn(Begun, Gone)
  BY DEF ReportsInv, RunsInv
<1>8. untold \in [Clients -> SUBSET Processes]
  BY DEF ReportsInv, ReportTypes
<1>9. ReportTypes'
  <2>1. untold' \in [Clients -> SUBSET Processes]
    BY <1>1, <1>8
  <2>2. childs' \in SUBSET Processes
    BY <1>1 DEF ReportsInv, ReportTypes
  <2> QED
    BY <2>1, <2>2, <1>1, <1>3 DEF ReportsInv, ReportTypes
<1>10. RunsInv'
  <2>1. InTurn(Begun', Gone')
    BY <1>5, <1>6, <1>7 DEF InTurn
  <2>2. \A q \in Processes : proc'[q] = "running" => q \in childs'
    BY <1>1 DEF ReportsInv, RunsInv
  <2>3. \A q \in childs' : q \in Begun'
    BY <1>1, <1>5 DEF ReportsInv, RunsInv
  <2>4. \A q \in Processes : pipe'[q] # <<>> => q \in Begun'
    BY <1>1, <1>5 DEF ReportsInv, RunsInv
  <2> QED
    BY <2>1, <2>2, <2>3, <2>4 DEF RunsInv
<1>11. MemoryInv' /\ SentInv(sent, now)' /\ PipesInv'
  BY <1>1, <1>5 DEF ReportsInv, MemoryInv, PipesInv
<1>12. ASSUME NEW c \in Clients
       PROVE  /\ ReaderInv(inbox'[c], c \in verified, untold'[c], Begun, Gone', sent)
              /\ \A q \in Processes : OrderInv(inbox'[c], pipe[q], q)
  <2>1. ReaderInv(inbox[c], c \in verified, untold[c], Begun, Gone, sent)
    BY DEF ReportsInv, ReadersInv
  <2>2. \A q \in Processes : OrderInv(inbox[c], pipe[q], q)
    BY DEF ReportsInv, OrdersInv
  <2>3. NotesInv(inbox[c], Begun, Gone, sent) /\ IsSeq(inbox[c])
    BY <2>1 DEF ReaderInv, NotesInv
  <2>4. NotesInv(inbox[c], Begun, Gone', sent)
    BY <2>3, <1>6, NotesGrow
  <2>5. CASE c \in verified \ failing
    <3>1. inbox'[c] = Append(inbox[c], e) /\ Len(inbox'[c]) <= MaxInbox /\ untold'[c] = untold[c]
      BY <2>5, <1>1, <1>3
    <3>2. ToldInv(inbox[c], untold[c], Gone)
      BY <2>1, <2>5 DEF ReaderInv
    <3>3. NotesInv(inbox'[c], Begun, Gone', sent)
      BY <3>1, <2>3, <1>2, <1>4, <1>5, <1>6, NoteAdded
    <3>4. ToldInv(inbox'[c], untold[c], Gone')
      BY <3>1, <3>2, <2>3, <1>2, <1>4, <1>5, <1>6, <1>7, ExitTold
    <3>5. \A q \in Processes : OrderInv(inbox'[c], pipe[q], q)
      BY <3>1, <2>2, <2>3, <1>4, OrderOfOthers
    <3> QED
      BY <3>1, <3>3, <3>4, <3>5, <2>5 DEF ReaderInv
  <2>6. CASE c \in verified \cap failing
    <3>1. inbox'[c] = inbox[c] /\ untold'[c] = untold[c] \cup {p}
      BY <2>6, <1>1, <1>3
    <3>2. ToldInv(inbox[c], untold[c], Gone)
      BY <2>1, <2>6 DEF ReaderInv
    <3>3. ToldInv(inbox[c], untold[c] \cup {p}, Gone')
      BY <3>2, <1>6, ExitMissed
    <3> QED
      BY <3>1, <3>3, <2>1, <2>2, <2>4, <2>6 DEF ReaderInv
  <2>7. CASE c \notin verified
    <3>1. inbox'[c] = inbox[c]
      BY <2>7, <1>3
    <3> QED
      BY <3>1, <2>1, <2>2, <2>4, <2>7 DEF ReaderInv
  <2> QED
    BY <2>5, <2>6, <2>7
<1>13. ReadersInv' /\ OrdersInv'
  BY <1>1, <1>5, <1>12 DEF ReadersInv, OrdersInv
<1> QED
  BY <1>9, <1>10, <1>11, <1>13 DEF ReportsInv
\* Activate keeps the invariant.
LEMMA ActivateStep ==
    ASSUME ReportsInv, NEW c \in Clients, Activate(c)
    PROVE  ReportsInv'
<1>1. /\ c \notin verified /\ verified' = verified \cup {c}
      /\ untold' = [untold EXCEPT ![c] = Gone]
      /\ UNCHANGED <<proc, childs, mem_, pipe, inbox, now, written, sent>>
  BY DEF Activate, Gone
<1>2. Begun' = Begun /\ Gone' = Gone /\ Gone \subseteq Processes
  BY <1>1 DEF Begun, Gone
<1>3. untold \in [Clients -> SUBSET Processes]
  BY DEF ReportsInv, ReportTypes
<1>4. untold' \in [Clients -> SUBSET Processes]
  BY <1>1, <1>2, <1>3
<1>5. ReportTypes'
  BY <1>1, <1>4 DEF ReportsInv, ReportTypes
<1>6. RunsInv' /\ MemoryInv' /\ PipesInv' /\ OrdersInv' /\ SentInv(sent, now)'
  <2>1. RunsInv'
    BY <1>1, <1>2 DEF ReportsInv, RunsInv
  <2>2. MemoryInv'
    BY <1>1, <1>2 DEF ReportsInv, MemoryInv
  <2>3. PipesInv' /\ OrdersInv' /\ SentInv(sent, now)'
    BY <1>1 DEF ReportsInv, PipesInv, OrdersInv
  <2> QED
    BY <2>1, <2>2, <2>3
<1>7. ASSUME NEW a \in Clients
      PROVE  ReaderInv(inbox[a], a \in verified', untold'[a], Begun, Gone, sent)
  <2>1. ReaderInv(inbox[a], a \in verified, untold[a], Begun, Gone, sent)
    BY DEF ReportsInv, ReadersInv
  <2>2. CASE a = c
    <3>1. inbox[a] = <<>> /\ untold'[a] = Gone
      BY <2>1, <2>2, <1>1, <1>3 DEF ReaderInv
    <3>2. ToldInv(<<>>, Gone, Gone)
      BY DEF ToldInv
    <3>3. a \in verified'
      BY <2>2, <1>1
    <3> QED
      BY <3>1, <3>2, <3>3, <2>1 DEF ReaderInv
  <2>3. CASE a # c
    <3>1. untold'[a] = untold[a] /\ (a \in verified' <=> a \in verified)
      BY <2>3, <1>1, <1>3
    <3> QED
      BY <3>1, <2>1 DEF ReaderInv
  <2> QED
    BY <2>2, <2>3
<1>8. ReadersInv'
  BY <1>1, <1>2, <1>7 DEF ReadersInv
<1> QED
  BY <1>5, <1>6, <1>8 DEF ReportsInv

\* A client without messages.
LEMMA NoNotes ==
    ASSUME NEW B, NEW G, NEW S PROVE NotesInv(<<>>, B, G, S)
<1>1. IsSeq(<<>>)
  BY DEF IsSeq
<1> QED
  BY <1>1 DEF NotesInv

\* ClientLost keeps the invariant.
LEMMA ClientLostStep ==
    ASSUME ReportsInv, NEW c \in Clients, ClientLost(c)
    PROVE  ReportsInv'
<1>1. /\ verified' = verified \ {c} /\ inbox' = [inbox EXCEPT ![c] = <<>>]
      /\ untold' = [untold EXCEPT ![c] = {}]
      /\ UNCHANGED <<proc, childs, mem_, pipe, now, written, sent>>
  BY DEF ClientLost
<1>2. Begun' = Begun /\ Gone' = Gone
  BY <1>1 DEF Begun, Gone
<1>3. untold \in [Clients -> SUBSET Processes] /\ DOMAIN inbox = Clients /\ verified \in SUBSET Clients
  BY DEF ReportsInv, ReportTypes
<1>4. /\ untold' \in [Clients -> SUBSET Processes] /\ DOMAIN inbox' = Clients
      /\ verified' \in SUBSET Clients
  BY <1>1, <1>3
<1>5. ReportTypes'
  BY <1>1, <1>4 DEF ReportsInv, ReportTypes
<1>6. RunsInv' /\ MemoryInv' /\ PipesInv' /\ SentInv(sent, now)'
  <2>1. RunsInv'
    BY <1>1, <1>2 DEF ReportsInv, RunsInv
  <2>2. MemoryInv'
    BY <1>1, <1>2 DEF ReportsInv, MemoryInv
  <2>3. PipesInv' /\ SentInv(sent, now)'
    BY <1>1 DEF ReportsInv, PipesInv
  <2> QED
    BY <2>1, <2>2, <2>3
<1>7. ASSUME NEW a \in Clients
      PROVE  /\ ReaderInv(inbox'[a], a \in verified', untold'[a], Begun, Gone, sent)
             /\ \A q \in Processes : OrderInv(inbox'[a], pipe[q], q)
  <2>1. ReaderInv(inbox[a], a \in verified, untold[a], Begun, Gone, sent)
    BY DEF ReportsInv, ReadersInv
  <2>2. \A q \in Processes : OrderInv(inbox[a], pipe[q], q)
    BY DEF ReportsInv, OrdersInv
  <2>3. CASE a = c
    <3>1. inbox'[a] = <<>> /\ a \notin verified'
      BY <2>3, <1>1, <1>3
    <3>2. \A q \in Processes : OrderInv(<<>>, pipe[q], q)
      BY DEF OrderInv
    <3>3. NotesInv(<<>>, Begun, Gone, sent) /\ Len(<<>>) <= MaxInbox
      BY NoNotes, ReportsAssumption
    <3> QED
      BY <3>1, <3>2, <3>3 DEF ReaderInv
  <2>4. CASE a # c
    <3>1. /\ inbox'[a] = inbox[a] /\ untold'[a] = untold[a]
          /\ (a \in verified' <=> a \in verified)
      BY <2>4, <1>1, <1>3
    <3> QED
      BY <3>1, <2>1, <2>2 DEF ReaderInv
  <2> QED
    BY <2>3, <2>4
<1>8. ReadersInv' /\ OrdersInv'
  BY <1>1, <1>2, <1>7 DEF ReadersInv, OrdersInv
<1> QED
  BY <1>5, <1>6, <1>8 DEF ReportsInv

-----------------------------------------------------------------------------
(* The theorems.                                                           *)

\* The invariant holds at first.
LEMMA InitReportsInv == InitReports => ReportsInv
<1> SUFFICES ASSUME InitReports PROVE ReportsInv
  OBVIOUS
<1>1. \A p \in Processes : proc[p] = "none" /\ mem_[p] = StatisticDefaults /\ pipe[p] = <<>>
  BY DEF InitReports
<1>2. \A c \in Clients : inbox[c] = <<>> /\ untold[c] = {}
  BY DEF InitReports
<1>3. childs = {} /\ verified = {} /\ now = 0 /\ written = 0 /\ sent = {}
  BY DEF InitReports
<1>4. Begun = {} /\ Gone = {}
  BY <1>1 DEF Begun, Gone
<1>5. ReportTypes
  <2>1. proc \in [Processes -> {"none", "running", "exited"}] /\ untold \in [Clients -> SUBSET Processes]
    BY DEF InitReports
  <2>2. DOMAIN mem_ = Processes /\ DOMAIN pipe = Processes /\ DOMAIN inbox = Clients
    BY DEF InitReports
  <2>3. now \in 0..MaxClock /\ written \in 0..MaxReports
    BY <1>3, ReportsAssumption
  <2> QED
    BY <2>1, <2>2, <2>3, <1>3 DEF ReportTypes
<1>6. RunsInv
  BY <1>1, <1>3, <1>4 DEF RunsInv, InTurn
<1>7. MemoryInv
  BY <1>1, <1>4 DEF MemoryInv, StatisticFields
<1>8. SentInv(sent, now)
  BY <1>3 DEF SentInv
<1>9. PipesInv
  <2>1. IsSeq(<<>>)
    BY DEF IsSeq
  <2>2. \A p \in Processes : PipeInv(p, <<>>, sent)
    BY <2>1 DEF PipeInv
  <2> QED
    BY <2>2, <1>1 DEF PipesInv
<1>10. ReadersInv
  <2>1. \A c \in Clients : NotesInv(<<>>, Begun, Gone, sent) /\ Len(<<>>) <= MaxInbox
    BY NoNotes, ReportsAssumption
  <2> QED
    BY <2>1, <1>2, <1>3 DEF ReadersInv, ReaderInv
<1>11. OrdersInv
  BY <1>1, <1>2 DEF OrdersInv, OrderInv
<1> QED
  BY <1>5, <1>6, <1>7, <1>8, <1>9, <1>10, <1>11 DEF ReportsInv

\* The inductive invariant of the reports.
THEOREM ReportsInvHolds == SpecReports => []ReportsInv
<1>1. ASSUME ReportsInv, [NextReports]_reports_vars PROVE ReportsInv'
  <2>1. CASE UNCHANGED reports_vars
    <3>1. UNCHANGED <<proc, childs, mem_, pipe, verified, inbox, now, written, sent, untold>>
      BY <2>1 DEF reports_vars
    <3>2. Begun' = Begun /\ Gone' = Gone
      BY <3>1 DEF Begun, Gone
    <3>3. ReportTypes' /\ RunsInv' /\ MemoryInv'
      <4>1. ReportTypes'
        BY <1>1, <3>1 DEF ReportsInv, ReportTypes
      <4>2. RunsInv'
        BY <1>1, <3>1, <3>2 DEF ReportsInv, RunsInv
      <4>3. MemoryInv'
        BY <1>1, <3>1, <3>2 DEF ReportsInv, MemoryInv
      <4> QED
        BY <4>1, <4>2, <4>3
    <3>4. PipesInv' /\ ReadersInv' /\ OrdersInv' /\ SentInv(sent, now)'
      BY <1>1, <3>1, <3>2 DEF ReportsInv, PipesInv, ReadersInv, OrdersInv
    <3> QED
      BY <3>3, <3>4 DEF ReportsInv
  <2>2. CASE \E s \in Streams : StartProcess(s)
    BY <1>1, <2>2, StartProcessStep
  <2>3. ASSUME NEW p \in Processes, CountBytes(p) \/ ProcessExits(p) PROVE ReportsInv'
    BY <1>1, <2>3, CountBytesStep, ProcessExitsStep
  <2>4. ASSUME NEW p \in Processes, NEW rss \in RssValues, NEW st \in Statuses,
               Checkpoint(p, rss) \/ ChangeStatus(p, st, rss)
        PROVE  ReportsInv'
    BY <1>1, <2>4, CheckpointStep, ChangeStatusStep
  <2>5. ASSUME NEW p \in Processes, NEW url \in Urls, InputChanged(p, url) PROVE ReportsInv'
    BY <1>1, <2>5, InputChangedStep
  <2>6. ASSUME NEW p \in Processes, NEW failing \in SUBSET Clients, StreamDataReceived(p, failing)
        PROVE  ReportsInv'
    BY <1>1, <2>6, DataReceivedStep
  <2>7. ASSUME NEW p \in Processes, NEW failing \in SUBSET Clients, NEW code \in ExitCodes,
               ChildStatusChanged(p, code, failing)
        PROVE  ReportsInv'
    BY <1>1, <2>7, ChildChangedStep
  <2>8. CASE \E c \in Clients : Activate(c) \/ ClientLost(c)
    BY <1>1, <2>8, ActivateStep, ClientLostStep
  <2>10. CASE ClockTicks
    BY <1>1, <2>10, ClockTicksStep
  <2>9. Statuses # {}
    BY DEF Statuses
  <2> QED
    BY <1>1, <2>1, <2>2, <2>3, <2>4, <2>5, <2>6, <2>7, <2>8, <2>9, <2>10 DEF NextReports
<1> QED
  BY <1>1, InitReportsInv, PTL DEF SpecReports

\* What a client decodes from a statistic it got.
LEMMA DecodedOne ==
    ASSUME ReportsInv, NEW c \in Clients, NEW i \in Messages_(c, "statistic_stream")
    PROVE  /\ \E x \in sent : x.proc = inbox[c][i].about /\ Same(Decoded(c, i), x.stat)
           /\ Decoded(c, i).timestamp = inbox[c][i].msg.params.timestamp
           /\ i \in DOMAIN inbox[c] /\ Statistic(inbox[c][i].msg)
<1> DEFINE m == inbox[c][i].msg
<1>1. i \in DOMAIN inbox[c] /\ Statistic(m)
  BY DEF Messages_, Statistic
<1>2. IsSent(m, inbox[c][i].about, sent)
  BY <1>1 DEF ReportsInv, ReadersInv, ReaderInv, NotesInv, NoteInv
<1>3. PICK x \in sent : x.proc = inbox[c][i].about /\ Encodes(m.params, x.stat)
  BY <1>1, <1>2 DEF IsSent
<1>4. PICK d : /\ Statistic_DeSerialize(m.params, now) = {d} /\ Same(d, x.stat)
               /\ d.timestamp = m.params.timestamp
  BY <1>3, StatDecoded
<1>5. Decoded(c, i) = d
  BY <1>4 DEF Decoded
<1> QED
  BY <1>1, <1>3, <1>4, <1>5

\* What a client decodes after two encodings and one decoding in between is a
\* statistic its process sent, and the statistics of a process reach it in the
\* order of their time, those read after the exit of the process too: for any
\* number of streams, runs, clients and messages.
THEOREM StatisticsDoArrive == SpecReports => []StatisticsArrive
<1>1. ReportsInv => StatisticsArrive
  <2> SUFFICES ASSUME ReportsInv PROVE StatisticsArrive
    OBVIOUS
  <2>1. ReportsTypeOK
    <3>1. /\ proc \in [Processes -> {"none", "running", "exited"}] /\ childs \in SUBSET Processes
          /\ verified \in SUBSET Clients /\ now \in 0..MaxClock /\ written \in 0..MaxReports /\ untold \in [Clients -> SUBSET Processes]
      BY DEF ReportsInv, ReportTypes
    <3>2. \A p \in Processes : DOMAIN mem_[p] = DOMAIN StatisticDefaults
      BY DEF ReportsInv, MemoryInv, StatisticFields
    <3>3. \A c \in Clients : Len(inbox[c]) <= MaxInbox
      BY DEF ReportsInv, ReadersInv, ReaderInv
    <3>4. ASSUME NEW p \in Processes
          PROVE  pipe[p] \in Seq([type : {"notification"},
                    method : {"statistic_stream", "changed_source_stream"},
                    params : {pipe[p][i].params : i \in DOMAIN pipe[p]}])
      <4> DEFINE w == pipe[p]
                 R == [type : {"notification"},
                       method : {"statistic_stream", "changed_source_stream"},
                       params : {w[i].params : i \in DOMAIN w}]
      <4>1. PipeInv(p, w, sent)
        BY DEF ReportsInv, PipesInv
      <4>2. w \in Seq({w[i] : i \in DOMAIN w})
        BY <4>1 DEF PipeInv, IsSeq
      <4> HIDE DEF w
      <4>3. \A i \in DOMAIN w : w[i] \in R
        <5> SUFFICES ASSUME NEW i \in DOMAIN w PROVE w[i] \in R
          OBVIOUS
        <5>1. w[i] \in [type : {"notification"},
                method : {"statistic_stream", "changed_source_stream"}, params : {w[i].params}]
          BY <4>1 DEF PipeInv
        <5>2. w[i].params \in {w[k].params : k \in DOMAIN w}
          OBVIOUS
        <5> QED
          BY <5>1, <5>2
      <4> HIDE DEF R
      <4>4. w \in Seq(R)
        <5>1. Len(w) \in Nat /\ DOMAIN w = 1..Len(w)
          BY <4>2
        <5>2. w \in [1..Len(w) -> R]
          BY <4>2, <4>3, <5>1
        <5> QED
          BY <5>1, <5>2
      <4> QED
        BY <4>4 DEF w, R
    <3> QED
      BY <3>1, <3>2, <3>3, <3>4 DEF ReportsTypeOK
  <2>2. ReportsAreFaithful
    BY DecodedOne DEF ReportsAreFaithful
  <2>3. ReportsInOrder
    <3> SUFFICES ASSUME NEW c \in Clients, NEW i \in Messages_(c, "statistic_stream"),
                        NEW j \in Messages_(c, "statistic_stream"), i < j,
                        inbox[c][i].about = inbox[c][j].about
                 PROVE  Decoded(c, i).timestamp <= Decoded(c, j).timestamp
      BY DEF ReportsInOrder
    <3>1. /\ Decoded(c, i).timestamp = inbox[c][i].msg.params.timestamp
          /\ i \in DOMAIN inbox[c] /\ Statistic(inbox[c][i].msg)
      BY DecodedOne
    <3>2. /\ Decoded(c, j).timestamp = inbox[c][j].msg.params.timestamp
          /\ j \in DOMAIN inbox[c] /\ Statistic(inbox[c][j].msg)
      BY DecodedOne
    <3>3. inbox[c][i].about \in Processes
      BY <3>1 DEF ReportsInv, ReadersInv, ReaderInv, NotesInv, NoteInv, Begun
    <3>4. OrderInv(inbox[c], pipe[inbox[c][i].about], inbox[c][i].about)
      BY <3>3 DEF ReportsInv, OrdersInv
    <3> QED
      BY <3>1, <3>2, <3>4 DEF OrderInv
  <2> QED
    BY <2>1, <2>2, <2>3 DEF StatisticsArrive
<1> QED
  BY <1>1, ReportsInvHolds, PTL

\* A client is told the exit of a process once, only after it exited, and
\* before it hears of the next process of the stream, unless it came too late
\* or could not be written to; however the exits and the pipes are interleaved
\* in the loop of the daemon.
THEOREM ExitsAreToldOnce == SpecReports => []ExitsAreTold
<1>1. ReportsInv => ExitsAreTold
  <2> SUFFICES ASSUME ReportsInv PROVE ExitsAreTold
    OBVIOUS
  <2>1. ASSUME NEW c \in Clients
        PROVE  /\ NotesInv(inbox[c], Begun, Gone, sent)
               /\ (c \in verified => ToldInv(inbox[c], untold[c], Gone))
    BY DEF ReportsInv, ReadersInv, ReaderInv
  <2>2. verified \subseteq Clients
    BY DEF ReportsInv, ReportTypes
  <2>3. RestartIsAnnounced
    BY <2>1, <2>2 DEF RestartIsAnnounced, ToldInv, Quit
  <2>4. QuitToldOnce
    BY <2>1 DEF QuitToldOnce, Messages_, NotesInv, NoteInv, Quit, Gone
  <2> QED
    BY <2>3, <2>4 DEF ExitsAreTold
<1> QED
  BY <1>1, ReportsInvHolds, PTL

-----------------------------------------------------------------------------
(* Figures of the node (NodeStats): counting and dividing.                 *)

\* One more byte counted by an interface is one more counted byte.
LEMMA OneMoreCounted ==
  ASSUME NEW f \in [Interfaces -> -1..MaxCount], NEW n \in Interfaces, f[n] \in 0..(MaxCount - 1)
  PROVE  LET C(g) == {byte \in Interfaces \X (1..MaxCount) : byte[2] <= g[byte[1]]}
         IN Cardinality(C([f EXCEPT ![n] = @ + 1])) = Cardinality(C(f)) + 1
<1> DEFINE C(g) == {byte \in Interfaces \X (1..MaxCount) : byte[2] <= g[byte[1]]}
           h == [f EXCEPT ![n] = @ + 1]
<1>1. MaxCount \in Nat
  BY NodeStatsAssumption
<1>2. <<n, f[n] + 1>> \in Interfaces \X (1..MaxCount) /\ <<n, f[n] + 1>> \notin C(f)
  BY <1>1
<1>3. C(h) = C(f) \cup {<<n, f[n] + 1>>}
  <2>1. ASSUME NEW byte \in Interfaces \X (1..MaxCount)
        PROVE  byte \in C(h) <=> byte \in C(f) \cup {<<n, f[n] + 1>>}
    <3>1. byte = <<byte[1], byte[2]>> /\ byte[1] \in Interfaces /\ byte[2] \in 1..MaxCount
      OBVIOUS
    <3>2. CASE byte[1] = n
      <4>1. h[n] = f[n] + 1
        OBVIOUS
      <4>2. byte[2] <= h[byte[1]] <=> byte[2] <= f[n] \/ byte[2] = f[n] + 1
        BY <1>1, <3>1, <3>2, <4>1
      <4>3. byte = <<n, f[n] + 1>> <=> byte[2] = f[n] + 1
        BY <3>1, <3>2
      <4>4. QED
        BY <3>2, <4>2, <4>3
    <3>3. CASE byte[1] # n
      <4>1. h[byte[1]] = f[byte[1]]
        BY <3>1, <3>3
      <4>2. byte # <<n, f[n] + 1>>
        BY <3>3
      <4>3. QED
        BY <4>1, <4>2
    <3>4. QED
      BY <3>2, <3>3
  <2>2. QED
    BY <1>2, <2>1
<1>4. IsFiniteSet(C(f))
  <2>1. IsFiniteSet(Interfaces \X (1..MaxCount))
    <3>1. IsFiniteSet(1..MaxCount)
      BY <1>1, FS_Interval
    <3>2. QED
      BY <3>1, NodeStatsAssumption, FS_Product
  <2>2. QED
    BY <2>1, FS_Subset
<1>5. Cardinality(C(f) \cup {<<n, f[n] + 1>>}) = Cardinality(C(f)) + 1
  BY <1>2, <1>4, FS_AddElement
<1>6. QED
  BY <1>3, <1>5
\* The bytes that are counted are a number below the limit of its type.
LEMMA CountedFits ==
  /\ IsFiniteSet(Counted) /\ Cardinality(Counted) \in Nat /\ Cardinality(Counted) < UintMod
<1>1. MaxCount \in Nat /\ MaxCount >= 1 /\ IsFiniteSet(1..MaxCount) /\ Cardinality(1..MaxCount) = MaxCount
  <2>1. MaxCount \in Nat /\ MaxCount >= 1 /\ 1 \in Int /\ MaxCount \in Int
    BY NodeStatsAssumption
  <2>2. IsFiniteSet(1..MaxCount) /\ Cardinality(1..MaxCount) = IF 1 > MaxCount THEN 0 ELSE MaxCount - 1 + 1
    BY <2>1, FS_Interval
  <2>3. QED
    BY <2>1, <2>2
<1>2. /\ IsFiniteSet(Interfaces \X (1..MaxCount))
      /\ Cardinality(Interfaces \X (1..MaxCount)) < UintMod
  BY <1>1, NodeStatsAssumption, FS_Product
<1>3. Counted \in SUBSET (Interfaces \X (1..MaxCount))
  BY DEF Counted
<1>4. /\ IsFiniteSet(Counted)
      /\ Cardinality(Counted) <= Cardinality(Interfaces \X (1..MaxCount))
      /\ Cardinality(Counted) \in Nat /\ Cardinality(Interfaces \X (1..MaxCount)) \in Nat
  BY <1>2, <1>3, FS_Subset, FS_CardinalityType
<1>5. QED
  BY <1>2, <1>4, NodeStatsAssumption

\* A difference of counters has the type of a counter.
LEMMA MinusType ==
  ASSUME NEW a \in Int, NEW b \in Int
  PROVE  Minus(a, b) \in 0..(UintMod - 1)
<1>1. UintMod \in Nat /\ UintMod > 0
  BY NodeStatsAssumption
<1>2. QED
  BY <1>1 DEF Minus

\* A counter that has only grown gives the growth.
LEMMA MinusExact ==
  ASSUME NEW a \in 0..(UintMod - 1), NEW b \in 0..a
  PROVE  Minus(a, b) = a - b
<1>1. UintMod \in Nat /\ UintMod > 0
  BY NodeStatsAssumption
<1>2. QED
  BY <1>1 DEF Minus

\* Division by a positive number.
LEMMA Division ==
  ASSUME NEW x \in Nat, NEW d \in Nat \ {0}
  PROVE  LET q == x \div d IN q \in Nat /\ q <= x /\ q * d <= x /\ x < q * d + d
<1> DEFINE q == x \div d
<1>1. q \in Int /\ q * d <= x /\ x < (q + 1) * d
  BY SMT
<1>2. (q + 1) * d = q * d + d
  BY <1>1
<1>3. q >= 0
  <2>1. CASE q <= -1
    <3>1. (q + 1) * d <= 0
      <4>1. q + 1 <= 0 /\ d > 0
        BY <2>1, <1>1
      <4>2. QED
        BY <4>1, <1>1
    <3>2. QED
      BY <3>1, <1>1
  <2>2. QED
    BY <1>1, <2>1
<1>4. q <= q * d
  BY <1>1, <1>3
<1>5. QED
  BY <1>1, <1>2, <1>3, <1>4

\* A load is a number, and a percentage when the counters have grown.
LEMMA LoadBound ==
  ASSUME NEW busyBy \in Nat, NEW total \in Nat \ {0}
  PROVE  /\ (busyBy * 100) \div total \in Nat
         /\ busyBy <= total => (busyBy * 100) \div total <= 100
<1> DEFINE q == (busyBy * 100) \div total
<1>1. busyBy * 100 \in Nat
  OBVIOUS
<1>2. q \in Nat /\ q * total <= busyBy * 100
  BY <1>1, Division
<1>3. ASSUME busyBy <= total, q >= 101 PROVE FALSE
  <2>1. q * total >= 101 * total
    BY <1>2, <1>3
  <2>2. QED
    BY <1>2, <1>3, <2>1
<1>4. QED
  BY <1>2, <1>3

\* Whole seconds, at least one.
LEMMA SecondsType ==
  ASSUME NEW elapsed \in Nat
  PROVE  /\ TsDiff(elapsed) \in Nat \ {0}
         /\ elapsed < Second => TsDiff(elapsed) = 1
         /\ elapsed >= Second => elapsed < 2 * (TsDiff(elapsed) * Second)
<1>1. Second \in Nat \ {0}
  BY NodeStatsAssumption
<1> DEFINE q == elapsed \div Second
<1>2. q \in Nat /\ q * Second <= elapsed /\ elapsed < q * Second + Second
  BY <1>1, Division
<1>3. ASSUME elapsed < Second PROVE q = 0
  <2>1. ASSUME q >= 1 PROVE FALSE
    <3>1. q * Second >= Second
      BY <1>1, <1>2, <2>1
    <3>2. QED
      BY <1>1, <1>2, <1>3, <3>1
  <2>2. QED
    BY <1>2, <2>1
<1>4. ASSUME elapsed >= Second PROVE q >= 1
  <2>1. ASSUME q = 0 PROVE FALSE
    BY <1>1, <1>2, <1>4, <2>1
  <2>2. QED
    BY <1>2, <2>1
<1>5. ASSUME q >= 1 PROVE q * Second >= Second
  BY <1>1, <1>2, <1>5
<1>6. TsDiff(elapsed) = IF q = 0 THEN 1 ELSE q
  BY DEF TsDiff
<1> HIDE DEF q
<1>7. CASE elapsed < Second
  BY <1>1, <1>3, <1>6, <1>7
<1>8. CASE elapsed >= Second
  <2>1. q >= 1 /\ TsDiff(elapsed) = q /\ q * Second >= Second
    BY <1>2, <1>4, <1>5, <1>6, <1>8
  <2>2. q * Second \in Nat
    BY <1>1, <1>2
  <2>3. QED
    BY <1>1, <1>2, <1>8, <2>1, <2>2
<1>9. QED
  BY <1>1, <1>7, <1>8

\* The rate over a time is below twice the bytes over that time.
LEMMA RateBound ==
  ASSUME NEW elapsed \in Nat, NEW received \in Nat
  PROVE  LET rate == received \div TsDiff(elapsed)
         IN IF elapsed < Second THEN rate = received
            ELSE rate > 0 => rate * elapsed < 2 * Second * received
<1>1. Second \in Nat \ {0}
  BY NodeStatsAssumption
<1> DEFINE s == TsDiff(elapsed)
           r == received \div s
<1>2. /\ s \in Nat \ {0}
      /\ elapsed < Second => s = 1
      /\ elapsed >= Second => elapsed < 2 * (s * Second)
  BY SecondsType
<1> HIDE DEF s
<1>3. r \in Nat /\ r * s <= received
  BY <1>2, Division
<1>4. CASE elapsed < Second
  <2>1. s = 1
    BY <1>2, <1>4
  <2>2. received \div 1 = received
    OBVIOUS
  <2>3. QED
    BY <1>4, <2>1, <2>2 DEF s
<1>5. CASE elapsed >= Second
  <2> HIDE DEF r
  <2> SUFFICES ASSUME r > 0 PROVE r * elapsed < 2 * Second * received
    BY <1>1, <1>5 DEF r, s
  <2>1. elapsed < 2 * (s * Second)
    BY <1>2, <1>5
  <2> DEFINE m == 2 * (s * Second)
  <2>2. m \in Nat
    BY <1>1, <1>2
  <2>3. elapsed < m
    BY <2>1
  <2>4. r * m = (2 * Second) * (r * s)
    BY <1>1, <1>2, <1>3
  <2> HIDE DEF m
  <2>5. r * elapsed < r * m
    BY <1>3, <2>2, <2>3
  <2> DEFINE k == r * s
             c == 2 * Second
  <2>6. k \in Nat /\ c \in Nat /\ k <= received
    BY <1>1, <1>2, <1>3
  <2>7. r * m = c * k
    BY <2>4
  <2>8. c * received = 2 * Second * received
    OBVIOUS
  <2> HIDE DEF k, c
  <2>9. c * k <= c * received
    BY <2>6
  <2>10. r * elapsed \in Nat /\ r * m \in Nat /\ c * received \in Nat
    BY <1>3, <2>2, <2>6
  <2>11. QED
    BY <2>5, <2>7, <2>8, <2>9, <2>10
<1>6. QED
  BY <1>1, <1>4, <1>5 DEF r, s

-----------------------------------------------------------------------------
(* What a client decodes.                                                  *)

InfoFields == {"cpu", "gpu", "load_average", "memory_total", "memory_free", "hdd_total",
               "hdd_free", "bandwidth_in", "bandwidth_out", "uptime", "timestamp",
               "online_users"}
UserFields == {"daemon", "http", "vods", "cods"}
HostFields == {"http_host", "vods_host", "cods_host", "expiration_time", "version", "os"}

\* A ServerInfo is a record of its fields, and so are its users.
IsInfo(info) ==
    /\ info = [f \in InfoFields |-> info[f]]
    /\ info.online_users = [f \in UserFields |-> info.online_users[f]]

\* The fields of the classes.
LEMMA NodeFields ==
  /\ DOMAIN ServerInfoDefaults = InfoFields
  /\ DOMAIN OnlineUsersDefaults = UserFields
  /\ DOMAIN FullServiceDefaults = HostFields
  /\ \A e : DOMAIN FullFields(e) = HostFields
  /\ InfoFields \cap HostFields = {}
BY DEF ServerInfoDefaults, OnlineUsersDefaults, FullServiceDefaults, FullFields,
       InfoFields, UserFields, HostFields

\* An object that has the fields of a class is read as these.
LEMMA OptionalRead ==
  ASSUME NEW json, NEW default, DOMAIN default \subseteq DOMAIN json
  PROVE  Optional(json, default) = [f \in DOMAIN default |-> json[f]]
BY DEF Optional, Has

\* An object that has the fields of a ServerInfo is read as that.
LEMMA InfoRead ==
  ASSUME NEW info, IsInfo(info), NEW json, InfoFields \subseteq DOMAIN json,
         \A f \in InfoFields : json[f] = info[f]
  PROVE  ServerInfo_DeSerialize(json) = info
<1>1. Optional(json, ServerInfoDefaults) = [f \in InfoFields |-> json[f]]
  BY NodeFields, OptionalRead
<1>2. [f \in InfoFields |-> json[f]] = [f \in InfoFields |-> info[f]]
  OBVIOUS
<1>3. Optional(json, ServerInfoDefaults) = info
  BY <1>1, <1>2 DEF IsInfo
<1>4. DOMAIN info.online_users = UserFields
  BY DEF IsInfo
<1>5. Optional(info.online_users, OnlineUsersDefaults) = [f \in UserFields |-> info.online_users[f]]
  BY <1>4, NodeFields, OptionalRead
<1>6. OnlineUsers_DeSerialize(info.online_users) = info.online_users
  BY <1>5 DEF OnlineUsers_DeSerialize, IsInfo
<1>7. ServerInfo_DeSerialize(json) = [info EXCEPT !.online_users = info.online_users]
  BY <1>3, <1>6 DEF ServerInfo_DeSerialize
<1>8. [info EXCEPT !.online_users = info.online_users] = info
  BY DEF IsInfo, InfoFields
<1>9. QED
  BY <1>7, <1>8

\* A ServerInfo is written as it is.
LEMMA InfoWritten ==
  ASSUME NEW info, IsInfo(info)
  PROVE  ServerInfo_Serialize(info) = info /\ DOMAIN info = InfoFields
<1>1. DOMAIN info = InfoFields
  BY DEF IsInfo
<1>2. [info EXCEPT !.online_users = info.online_users] = info
  BY DEF IsInfo, InfoFields
<1>3. QED
  BY <1>1, <1>2 DEF ServerInfo_Serialize, OnlineUsers_Serialize

\* A short and a full report are decoded as they were measured.
LEMMA ReportDecoded ==
  ASSUME NEW info, IsInfo(info), NEW e
  PROVE  /\ ServerInfo_DeSerialize(ServerInfo_Serialize(info)) = info
         /\ LET json == FullService_Serialize(FullFields(e), info)
                read == FullService_DeSerialize(json)
            IN /\ ServerInfo_DeSerialize(json) = info
               /\ \A f \in DOMAIN info : read[f] = info[f]
               /\ \A f \in DOMAIN FullFields(e) : read[f] = FullFields(e)[f]
<1> DEFINE full == FullFields(e)
           json == FullService_Serialize(full, info)
           Host(h) == IF h = "unparsable" THEN "none" ELSE h
<1>1. ServerInfo_Serialize(info) = info /\ DOMAIN info = InfoFields
  BY InfoWritten
<1>2. ServerInfo_DeSerialize(info) = info
  BY <1>1, InfoRead
<1>3. DOMAIN full = HostFields
  BY NodeFields
<1>4. json = [f \in HostFields \cup InfoFields |-> IF f \in HostFields THEN full[f] ELSE info[f]]
  BY <1>1, <1>3 DEF FullService_Serialize
<1>5. /\ DOMAIN json = HostFields \cup InfoFields
      /\ \A f \in InfoFields : json[f] = info[f]
      /\ \A f \in HostFields : json[f] = full[f]
  BY <1>4, NodeFields
<1>6. ServerInfo_DeSerialize(json) = info
  <2> HIDE DEF json
  <2> QED
    BY <1>5, InfoRead
<1>7. Optional(json, FullServiceDefaults) = full
  <2>1. Optional(json, FullServiceDefaults) = [f \in HostFields |-> json[f]]
    BY <1>5, NodeFields, OptionalRead
  <2>2. [f \in HostFields |-> json[f]] = [f \in HostFields |-> full[f]]
    BY <1>5
  <2>3. full = [f \in HostFields |-> full[f]]
    BY DEF FullFields, HostFields
  <2>4. QED
    BY <2>1, <2>2, <2>3
<1>8. [full EXCEPT !.http_host = Host(@), !.vods_host = Host(@), !.cods_host = Host(@)] = full
  BY DEF FullFields
<1>9. FullService_DeSerialize(json) =
        [f \in DOMAIN info \cup DOMAIN full |-> IF f \in DOMAIN full THEN full[f] ELSE info[f]]
  <2> HIDE DEF json, full
  <2> QED
    BY <1>6, <1>7, <1>8 DEF FullService_DeSerialize
<1>10. /\ \A f \in DOMAIN info : FullService_DeSerialize(json)[f] = info[f]
       /\ \A f \in DOMAIN full : FullService_DeSerialize(json)[f] = full[f]
  <2> HIDE DEF json, full
  <2> QED
    BY <1>1, <1>3, <1>9, NodeFields
<1>11. QED
  BY <1>1, <1>2, <1>6, <1>10

-----------------------------------------------------------------------------
(* The invariant.                                                          *)

NodeTypes ==
    /\ busy \in 0..MaxCount /\ idle \in 0..MaxCount
    /\ bytes \in [Interfaces -> -1..MaxCount]
    /\ clock \in Nat /\ moved \in Nat /\ broken \in BOOLEAN
    /\ node_stats.prev \in [usage : 0..(UintMod - 1), limit : 0..(UintMod - 1)]
    /\ node_stats.prev_nshot \in 0..(UintMod - 1)
    /\ node_stats.timestamp \in 0..clock

\* The counters of the cpu have only grown since the previous shot, which is zero
\* when it was not read.
CpuShotInv ==
    /\ node_stats.prev.usage <= busy
    /\ node_stats.prev.limit - node_stats.prev.usage \in 0..idle

\* What the interfaces have counted is the previous shot and what came since.
NetShotInv == ~broken => Cardinality(Counted) = node_stats.prev_nshot + moved

ShotsInv == CpuShotInv /\ NetShotInv

\* The last report is one of its types, encoded as its receiver expects.
ReportInv ==
    /\ IsInfo(report.info)
    /\ report.info.bandwidth_in \in 0..(UintMod - 1)
    /\ report.info.cpu \in Nat
    /\ report.json = IF report.expiration # 0
                     THEN FullService_Serialize(FullFields(report.expiration), report.info)
                     ELSE ServerInfo_Serialize(report.info)

NodeInv == NodeTypes /\ ShotsInv /\ ReportInv /\ LoadIsPercentage /\ RateIsReal

\* The invariant holds when the loop begins.
LEMMA NodeInvInit == InitNode => NodeInv
<1> SUFFICES ASSUME InitNode PROVE NodeInv
  OBVIOUS
<1>1. UintMod \in Nat /\ UintMod > 2 /\ MaxCount \in Nat /\ MaxCount >= 1 /\ Second \in Nat \ {0}
  BY NodeStatsAssumption
<1>2. Cardinality(Counted) \in 0..(UintMod - 1)
  BY <1>1, CountedFits
<1>3. NodeTypes
  <2>1. broken \in BOOLEAN
    BY Zenon DEF InitNode
  <2>2. QED
    BY <1>1, <1>2, <2>1 DEF InitNode, NodeTypes
<1>4. ShotsInv
  BY <1>1, <1>2 DEF InitNode, ShotsInv, CpuShotInv, NetShotInv
<1>5. IsInfo(ServerInfoDefaults) /\ ServerInfo_Serialize(ServerInfoDefaults) = ServerInfoDefaults
  BY DEF IsInfo, ServerInfoDefaults, OnlineUsersDefaults, InfoFields, UserFields,
         ServerInfo_Serialize, OnlineUsers_Serialize
<1>6. ReportInv /\ LoadIsPercentage /\ RateIsReal
  <2>1. /\ report.info = ServerInfoDefaults /\ report.json = ServerInfoDefaults
        /\ report.expiration = 0 /\ report.elapsed = 0 /\ report.received = 0
    BY DEF InitNode, NoReport
  <2>2. report.info.bandwidth_in = 0 /\ report.info.cpu = 0
    <3>1. ServerInfoDefaults.bandwidth_in = 0
      BY DEF ServerInfoDefaults
    <3>2. ServerInfoDefaults.cpu = 0
      BY DEF ServerInfoDefaults
    <3>3. QED
      BY <2>1, <3>1, <3>2
  <2>3. report.json = ServerInfo_Serialize(report.info)
    BY <1>5, <2>1
  <2>4. ReportInv
    BY <1>1, <1>5, <2>1, <2>2, <2>3 DEF ReportInv
  <2>5. LoadIsPercentage /\ RateIsReal
    <3>1. TsDiff(0) \in Nat \ {0}
      BY SecondsType
    <3>2. QED
      BY <1>1, <2>1, <2>2, <3>1 DEF LoadIsPercentage, RateIsReal
  <2>6. QED
    BY <2>4, <2>5
<1>7. QED
  BY <1>3, <1>4, <1>6 DEF NodeInv

\* A step that leaves the reports alone and in which the counters grow.
LEMMA MachineStep ==
  ASSUME NodeInv, NodeTypes', ShotsInv',
         UNCHANGED report
  PROVE  NodeInv'
BY DEF NodeInv, ReportInv, LoadIsPercentage, RateIsReal

\* The clock, the cpu and the interfaces keep the invariant.
LEMMA MachineKeeps ==
  ASSUME NodeInv
  PROVE  /\ Tick => NodeInv'
         /\ \A b, i \in 0..1 : Jiffy(b, i) => NodeInv'
         /\ \A n \in Interfaces : Receive(n) => NodeInv'
         /\ \A n \in Interfaces : InterfaceComes(n) => NodeInv'
<1>1. MaxCount \in Nat /\ MaxCount >= 1 /\ UintMod \in Nat /\ UintMod > 2 * MaxCount
  BY NodeStatsAssumption
<1>2. NodeTypes /\ ShotsInv
  BY DEF NodeInv
<1>3. Cardinality(Counted) \in Nat
  BY CountedFits
<1>4. ASSUME Tick PROVE NodeInv'
  <2>1. Counted' = Counted
    BY <1>4 DEF Tick, Counted
  <2>2. NodeTypes'
    BY <1>1, <1>2, <1>4 DEF Tick, NodeTypes
  <2>3. ShotsInv'
    BY <1>2, <1>4, <2>1 DEF Tick, ShotsInv, CpuShotInv, NetShotInv
  <2>4. QED
    BY <1>4, <2>2, <2>3, MachineStep DEF Tick
<1>5. ASSUME NEW b \in 0..1, NEW i \in 0..1, Jiffy(b, i) PROVE NodeInv'
  <2>1. Counted' = Counted
    BY <1>5 DEF Jiffy, Counted
  <2>2. NodeTypes'
    BY <1>1, <1>2, <1>5 DEF Jiffy, NodeTypes
  <2>3. ShotsInv'
    <3>1. CpuShotInv'
      BY <1>1, <1>2, <1>5 DEF Jiffy, ShotsInv, CpuShotInv, NodeTypes
    <3>2. NetShotInv'
      BY <1>2, <1>5, <2>1 DEF Jiffy, ShotsInv, NetShotInv
    <3>3. QED
      BY <3>1, <3>2 DEF ShotsInv
  <2>4. QED
    BY <1>5, <2>2, <2>3, MachineStep DEF Jiffy
<1>6. ASSUME NEW n \in Interfaces, Receive(n) PROVE NodeInv'
  <2>1. NodeTypes'
    BY <1>1, <1>2, <1>6 DEF Receive, NodeTypes
  <2>2. Cardinality(Counted') = Cardinality(Counted) + 1
    <3>1. bytes \in [Interfaces -> -1..MaxCount] /\ bytes[n] \in 0..(MaxCount - 1)
      BY <1>2, <1>6 DEF Receive, NodeTypes
    <3>2. Counted' = {byte \in Interfaces \X (1..MaxCount) : byte[2] <= [bytes EXCEPT ![n] = @ + 1][byte[1]]}
      BY <1>6 DEF Receive, Counted
    <3>3. QED
      BY <3>1, <3>2, OneMoreCounted DEF Counted
  <2>3. ShotsInv'
    <3>1. CpuShotInv'
      BY <1>2, <1>6 DEF Receive, ShotsInv, CpuShotInv
    <3>2. /\ node_stats' = node_stats /\ moved' = moved + 1 /\ broken' = broken
          /\ node_stats.prev_nshot \in Nat /\ moved \in Nat
      BY <1>1, <1>2, <1>6 DEF Receive, NodeTypes
    <3> DEFINE D == Cardinality(Counted')
    <3>3. ~broken => D = node_stats.prev_nshot + (moved + 1)
      BY <1>2, <1>3, <2>2, <3>2 DEF ShotsInv, NetShotInv
    <3>4. Cardinality(Counted)' = D
      BY Zenon
    <3> HIDE DEF D
    <3>5. NetShotInv'
      BY <3>2, <3>3, <3>4 DEF NetShotInv
    <3>6. QED
      BY <3>1, <3>5 DEF ShotsInv
  <2>4. QED
    BY <1>6, <2>1, <2>3, MachineStep DEF Receive
<1>7. ASSUME NEW n \in Interfaces, InterfaceComes(n) PROVE NodeInv'
  <2>1. NodeTypes'
    BY <1>1, <1>2, <1>7 DEF InterfaceComes, NodeTypes
  <2>2. Counted' = Counted
    <3>1. ASSUME NEW byte \in Interfaces \X (1..MaxCount)
          PROVE  byte[2] <= bytes'[byte[1]] <=> byte[2] <= bytes[byte[1]]
      <4>1. byte[1] \in Interfaces /\ byte[2] \in 1..MaxCount
        OBVIOUS
      <4>2. bytes \in [Interfaces -> -1..MaxCount] /\ bytes[n] < 0 /\ bytes' = [bytes EXCEPT ![n] = 0]
        BY <1>2, <1>7 DEF InterfaceComes, NodeTypes
      <4>3. QED
        BY <1>1, <4>1, <4>2
    <3>2. QED
      BY <3>1 DEF Counted
  <2>3. ShotsInv'
    BY <1>2, <1>7, <2>2 DEF InterfaceComes, ShotsInv, CpuShotInv, NetShotInv
  <2>4. QED
    BY <1>7, <2>1, <2>3, MachineStep DEF InterfaceComes
<1>8. QED
  BY <1>4, <1>5, <1>6, <1>7

\* An interface that goes away breaks the interval.
LEMMA GoesKeeps ==
  ASSUME NodeInv, NEW n \in Interfaces, InterfaceGoes(n)
  PROVE  NodeInv'
<1>1. MaxCount \in Nat /\ MaxCount >= 1 /\ UintMod \in Nat
  BY NodeStatsAssumption
<1>2. NodeTypes'
  BY <1>1 DEF NodeInv, InterfaceGoes, NodeTypes
<1>3. ShotsInv'
  BY DEF NodeInv, InterfaceGoes, ShotsInv, CpuShotInv, NetShotInv
<1>4. QED
  BY <1>2, <1>3, MachineStep DEF InterfaceGoes

\* The shots have their types, and with those that can be read no counter falls.
LEMMA ShotTypes ==
  ASSUME NodeTypes, NEW cpuRead \in BOOLEAN, NEW netRead \in BOOLEAN
  PROVE  /\ GetMachineCpuShot(cpuRead) \in [usage : 0..(UintMod - 1), limit : 0..(UintMod - 1)]
         /\ GetMachineNetShot(netRead) \in 0..(UintMod - 1)
<1>1. MaxCount \in Nat /\ UintMod \in Nat /\ UintMod > 2 * MaxCount
  BY NodeStatsAssumption
<1>2. busy \in 0..(UintMod - 1) /\ busy + idle \in 0..(UintMod - 1) /\ 0 \in 0..(UintMod - 1)
  BY <1>1 DEF NodeTypes
<1>3. Cardinality(Counted) \in 0..(UintMod - 1)
  BY <1>1, CountedFits
<1>4. QED
  BY <1>2, <1>3 DEF GetMachineCpuShot, GetMachineNetShot

\* The load of two shots.
LEMMA LoadType ==
  ASSUME NEW prev \in [usage : 0..(UintMod - 1), limit : 0..(UintMod - 1)],
         NEW next \in [usage : 0..(UintMod - 1), limit : 0..(UintMod - 1)]
  PROVE  /\ GetCpuMachineLoad(prev, next) \in Nat
         /\ /\ prev.usage <= next.usage /\ prev.limit <= next.limit
            /\ next.usage - prev.usage <= next.limit - prev.limit
            => GetCpuMachineLoad(prev, next) \in 0..100
<1> DEFINE total == Minus(next.limit, prev.limit)
           used == Minus(next.usage, prev.usage)
<1>1. /\ UintMod \in Nat
      /\ prev.usage \in 0..(UintMod - 1) /\ prev.limit \in 0..(UintMod - 1)
      /\ next.usage \in 0..(UintMod - 1) /\ next.limit \in 0..(UintMod - 1)
  BY NodeStatsAssumption
<1>2. total \in Nat /\ used \in Nat
  BY <1>1, MinusType
<1>3. GetCpuMachineLoad(prev, next) = IF total = 0 THEN 0 ELSE (used * 100) \div total
  BY DEF GetCpuMachineLoad
<1>4. ASSUME prev.usage <= next.usage, prev.limit <= next.limit,
             next.usage - prev.usage <= next.limit - prev.limit
      PROVE  used <= total
  <2>1. used = next.usage - prev.usage /\ total = next.limit - prev.limit
    BY <1>1, <1>4, MinusExact
  <2> HIDE DEF total, used
  <2>2. QED
    BY <1>4, <2>1
<1> HIDE DEF total, used
<1> DEFINE load == GetCpuMachineLoad(prev, next)
<1>5. CASE total = 0
  <2>1. load = 0
    BY <1>3, <1>5
  <2>2. QED
    BY <2>1
<1>6. CASE total # 0
  <2>1. /\ (used * 100) \div total \in Nat
        /\ used <= total => (used * 100) \div total <= 100
    BY <1>2, <1>6, LoadBound
  <2>2. load = (used * 100) \div total
    BY <1>3, <1>6
  <2> HIDE DEF load
  <2>3. load \in Nat /\ (used <= total => load \in 0..100)
    BY <2>1, <2>2
  <2>4. QED
    BY <1>4, <2>3 DEF load
<1>7. QED
  BY <1>5, <1>6

\* The ServerInfo of a report.
LEMMA InfoMade ==
  ASSUME NEW cpu, NEW net, NEW ok \in BOOLEAN, NEW s, NEW users \in UserCounts
  PROVE  LET info == ServerInfo(cpu, net, ok, s, users)
         IN /\ IsInfo(info)
            /\ info.cpu = GetCpuMachineLoad(node_stats.prev, cpu)
            /\ info.bandwidth_in = Minus(net, node_stats.prev_nshot) \div s
<1> DEFINE info == ServerInfo(cpu, net, ok, s, users)
<1>1. users = [f \in UserFields |-> users[f]]
  BY NodeStatsAssumption DEF UserFields
<1>2. info.online_users = users
  BY DEF ServerInfo
<1>3. info = [f \in InfoFields |-> info[f]]
  BY DEF ServerInfo, InfoFields
<1>4. info.cpu = GetCpuMachineLoad(node_stats.prev, cpu)
  BY DEF ServerInfo
<1>5. info.bandwidth_in = Minus(net, node_stats.prev_nshot) \div s
  BY DEF ServerInfo
<1> HIDE DEF info
<1>6. IsInfo(info)
  BY <1>1, <1>2, <1>3 DEF IsInfo
<1>7. QED
  BY <1>4, <1>5, <1>6 DEF info

\* A report keeps the invariant.
LEMMA ReportKeeps ==
  ASSUME NodeInv, NEW expiration \in {0} \cup Licenses,
         NEW cpuRead \in BOOLEAN, NEW netRead \in BOOLEAN, NEW users \in UserCounts,
         Report(expiration, cpuRead, netRead, users)
  PROVE  NodeInv'
<1> DEFINE cpu == GetMachineCpuShot(cpuRead)
           net == GetMachineNetShot(netRead)
           elapsed == clock - node_stats.timestamp
           s == TsDiff(elapsed)
           got == Minus(net, node_stats.prev_nshot)
           info == ServerInfo(cpu, net, cpuRead, s, users)
           C == Cardinality(Counted)
<1>1. NodeTypes /\ ShotsInv
  BY DEF NodeInv
<1>2. MaxCount \in Nat /\ UintMod \in Nat /\ UintMod > 2 * MaxCount /\ Second \in Nat \ {0}
  BY NodeStatsAssumption
<1>3. /\ cpu \in [usage : 0..(UintMod - 1), limit : 0..(UintMod - 1)]
      /\ net \in 0..(UintMod - 1)
  BY <1>1, ShotTypes
<1>4. elapsed \in Nat
  <2>1. clock \in Nat /\ node_stats.timestamp \in 0..clock
    BY <1>1 DEF NodeTypes
  <2>2. QED
    BY <2>1
<1>5. s \in Nat \ {0}
  BY <1>4, SecondsType
<1>6. got \in 0..(UintMod - 1)
  <2>1. net \in Int /\ node_stats.prev_nshot \in Int
    BY <1>1, <1>2, <1>3 DEF NodeTypes
  <2> HIDE DEF net
  <2>2. QED
    BY <2>1, MinusType
<1>7. got \div s \in 0..(UintMod - 1) /\ (got \div s) * s <= got /\ got < (got \div s) * s + s
  <2> HIDE DEF got, s
  <2>1. got \in Nat /\ got <= UintMod - 1
    BY <1>2, <1>6
  <2>2. /\ got \div s \in Nat /\ got \div s <= got
        /\ (got \div s) * s <= got /\ got < (got \div s) * s + s
    BY <1>5, <2>1, Division
  <2>3. QED
    BY <1>2, <2>1, <2>2
<1>8. /\ IsInfo(info)
      /\ info.cpu = GetCpuMachineLoad(node_stats.prev, cpu)
      /\ info.bandwidth_in = got \div s
  <2> HIDE DEF cpu, net, s
  <2> QED
    BY InfoMade
<1>9. /\ node_stats' = [prev |-> cpu, prev_nshot |-> net, timestamp |-> clock]
      /\ report' = [info |-> info, expiration |-> expiration,
                    json |-> IF expiration # 0
                             THEN FullService_Serialize(FullFields(expiration), info)
                             ELSE ServerInfo_Serialize(info),
                    elapsed |-> elapsed, received |-> moved, cpuRead |-> cpuRead,
                    whole |-> netRead /\ ~broken]
      /\ moved' = 0 /\ broken' = ~netRead
      /\ UNCHANGED <<busy, idle, bytes, clock>>
  BY Zenon DEF Report, MakeServiceStats
<1>10. Counted' = Counted
  BY <1>9 DEF Counted
<1> HIDE DEF cpu, net, elapsed, s, got, info
<1>12. NodeTypes'
  <2>1. /\ node_stats'.prev = cpu /\ node_stats'.prev_nshot = net /\ node_stats'.timestamp = clock
        /\ busy' = busy /\ idle' = idle /\ bytes' = bytes /\ clock' = clock
        /\ moved' = 0 /\ broken' \in BOOLEAN
    BY <1>9
  <2>2. QED
    BY <1>1, <1>2, <1>3, <2>1 DEF NodeTypes
<1>13. GetCpuMachineLoad(node_stats.prev, cpu) \in Nat
  BY <1>1, <1>3, LoadType DEF NodeTypes
<1>14. ReportInv'
  <2>1. /\ report'.info = info /\ report'.expiration = expiration
        /\ report'.json = IF expiration # 0
                          THEN FullService_Serialize(FullFields(expiration), info)
                          ELSE ServerInfo_Serialize(info)
    BY <1>9
  <2>2. info.bandwidth_in \in 0..(UintMod - 1) /\ info.cpu \in Nat
    BY <1>7, <1>8, <1>13
  <2>3. QED
    BY <1>8, <2>1, <2>2 DEF ReportInv
<1>15. ASSUME netRead, ~broken PROVE net = C /\ got = moved
  <2>1. net = C
    BY <1>15 DEF net, GetMachineNetShot
  <2>2. C = node_stats.prev_nshot + moved
    BY <1>1, <1>15 DEF ShotsInv, NetShotInv
  <2>3. moved \in Nat /\ node_stats.prev_nshot \in Nat
    BY <1>1, <1>2 DEF NodeTypes
  <2> HIDE DEF C
  <2>4. node_stats.prev_nshot \in 0..net
    BY <1>2, <1>3, <2>1, <2>2, <2>3
  <2>5. Minus(net, node_stats.prev_nshot) = net - node_stats.prev_nshot
    BY <1>3, <2>4, MinusExact
  <2>6. QED
    BY <2>1, <2>2, <2>3, <2>5 DEF got
<1>16. RateIsReal'
  <2>1. /\ report'.info.bandwidth_in = got \div s /\ report'.elapsed = elapsed
        /\ report'.received = moved /\ (report'.whole => netRead /\ ~broken)
    BY <1>8, <1>9
  <2>2. got \in Nat
    BY <1>2, <1>6
  <2>3. LET rate == got \div TsDiff(elapsed)
        IN IF elapsed < Second THEN rate = got
           ELSE rate > 0 => rate * elapsed < 2 * Second * got
    BY <1>4, <2>2, RateBound
  <2> DEFINE rate == got \div s
  <2>4. elapsed >= Second /\ rate > 0 => rate * elapsed < 2 * Second * got
    BY <1>2, <1>4, <2>3 DEF s
  <2>5. rate * s <= got /\ got < rate * s + s
    BY <1>7
  <2> HIDE DEF rate
  <2>6. report'.info.bandwidth_in = rate
    BY <2>1 DEF rate
  <2>7. report'.whole => report'.received = got
    BY <2>1, <1>15
  <2>8. TsDiff(report'.elapsed) = s
    BY <2>1 DEF s
  <2>9. SUFFICES ASSUME report'.whole
                 PROVE  /\ rate * s <= got /\ got < rate * s + s
                        /\ elapsed >= Second /\ rate > 0 => rate * elapsed < 2 * Second * got
    BY <2>1, <2>6, <2>7, <2>8 DEF RateIsReal
  <2>10. QED
    BY <2>4, <2>5
<1>17. LoadIsPercentage'
  <2> SUFFICES ASSUME cpuRead PROVE GetCpuMachineLoad(node_stats.prev, cpu) \in 0..100
    BY <1>8, <1>9 DEF LoadIsPercentage
  <2>1. cpu.usage = busy /\ cpu.limit = busy + idle
    BY DEF cpu, GetMachineCpuShot
  <2>2. /\ node_stats.prev.usage <= busy
        /\ node_stats.prev.limit - node_stats.prev.usage \in 0..idle
    BY <1>1 DEF ShotsInv, CpuShotInv
  <2>3. node_stats.prev \in [usage : 0..(UintMod - 1), limit : 0..(UintMod - 1)]
    BY <1>1 DEF NodeTypes
  <2>4. /\ node_stats.prev.usage \in Int /\ node_stats.prev.limit \in Int
        /\ busy \in Int /\ idle \in Int
    BY <1>1, <1>2, <2>3 DEF NodeTypes
  <2>5. /\ node_stats.prev.usage <= cpu.usage /\ node_stats.prev.limit <= cpu.limit
        /\ cpu.usage - node_stats.prev.usage <= cpu.limit - node_stats.prev.limit
    BY <2>1, <2>2, <2>4
  <2>6. QED
    BY <1>3, <2>3, <2>5, LoadType
<1>18. ShotsInv'
  <2>1. /\ node_stats'.prev = cpu /\ node_stats'.prev_nshot = net
        /\ busy' = busy /\ idle' = idle /\ moved' = 0 /\ broken' = ~netRead
    BY <1>9
  <2>2. busy \in Nat /\ idle \in Nat
    BY <1>1, <1>2 DEF NodeTypes
  <2>3. cpu.usage \in 0..busy /\ cpu.limit - cpu.usage \in 0..idle
    <3>1. CASE cpuRead
      <4>1. cpu.usage = busy /\ cpu.limit = busy + idle
        BY <3>1 DEF cpu, GetMachineCpuShot
      <4>2. QED
        BY <2>2, <4>1
    <3>2. CASE ~cpuRead
      <4>1. cpu.usage = 0 /\ cpu.limit = 0
        BY <3>2 DEF cpu, GetMachineCpuShot
      <4>2. QED
        BY <2>2, <4>1
    <3>3. QED
      BY <3>1, <3>2
  <2>4. CpuShotInv'
    BY <2>1, <2>2, <2>3 DEF CpuShotInv
  <2>5. netRead => net = C
    BY DEF net, GetMachineNetShot
  <2>6. Cardinality(Counted)' = C /\ C \in Nat
    BY <1>10, CountedFits
  <2> HIDE DEF C
  <2>7. NetShotInv'
    <3>1. C = C + 0
      BY <2>6
    <3>2. ~broken' => netRead
      BY <2>1, Zenon
    <3>3. ~broken' => Cardinality(Counted)' = node_stats'.prev_nshot + moved'
      BY <2>1, <2>5, <2>6, <3>1, <3>2, Zenon
    <3>4. QED
      BY <3>3, Zenon DEF NetShotInv
  <2>8. QED
    BY <2>4, <2>7 DEF ShotsInv
<1>19. QED
  BY <1>12, <1>14, <1>16, <1>17, <1>18 DEF NodeInv

\* The invariant holds of the daemon's node statistics.
THEOREM NodeInvHolds == SpecNode => []NodeInv
<1>1. InitNode => NodeInv
  BY NodeInvInit
<1>2. NodeInv /\ [NextNode]_node_vars => NodeInv'
  <2> SUFFICES ASSUME NodeInv, [NextNode]_node_vars PROVE NodeInv'
    OBVIOUS
  <2>1. CASE Tick
    BY <2>1, MachineKeeps
  <2>2. CASE Jiffy(1, 0) \/ Jiffy(0, 1)
    BY <2>2, MachineKeeps
  <2>3. ASSUME NEW n \in Interfaces, Receive(n) \/ InterfaceComes(n) \/ InterfaceGoes(n)
        PROVE  NodeInv'
    BY <2>3, MachineKeeps, GoesKeeps
  <2>4. ASSUME NEW expiration \in {0} \cup Licenses, NEW cpuRead \in BOOLEAN,
               NEW netRead \in BOOLEAN, NEW users \in UserCounts,
               Report(expiration, cpuRead, netRead, users)
        PROVE  NodeInv'
    BY <2>4, ReportKeeps
  <2>5. CASE UNCHANGED node_vars
    <3>1. /\ busy' = busy /\ idle' = idle /\ bytes' = bytes /\ clock' = clock
          /\ node_stats' = node_stats /\ report' = report /\ moved' = moved
          /\ broken' = broken
      BY <2>5 DEF node_vars
    <3>2. Counted' = Counted
      BY <3>1 DEF Counted
    <3>3. NodeTypes' /\ ShotsInv'
      BY <3>1, <3>2 DEF NodeInv, NodeTypes, ShotsInv, CpuShotInv, NetShotInv
    <3>4. QED
      BY <3>1, <3>3, MachineStep
  <2>6. QED
    BY <2>1, <2>2, <2>3, <2>4, <2>5 DEF NextNode
<1>3. QED
  BY <1>1, <1>2, PTL DEF SpecNode

\* FiguresAreTrue: for every set of interfaces and of users, all counters and
\* any interleaving of the timer with activations, with shots that are not read
\* and interfaces that vanish, MakeServiceStats tells the real rate of every
\* interval no such fault touched, also right after one it did touch, and a
\* percentage as load whenever it could read the cpu.
THEOREM FiguresStayTrue == SpecNode => []FiguresAreTrue
<1>1. NodeInv => FiguresAreTrue
  <2> SUFFICES ASSUME NodeInv PROVE FiguresAreTrue
    OBVIOUS
  <2>1. NodeTypeOK
    BY DEF NodeInv, NodeTypes, ReportInv, NodeTypeOK
  <2>2. BytesInOneInterval
    BY DEF NodeInv, ShotsInv, NetShotInv, BytesInOneInterval, GetMachineNetShot
  <2>3. ReportSurvives
    <3>1. IsInfo(report.info)
      BY DEF NodeInv, ReportInv
    <3>2. CASE report.expiration # 0
      <4>1. report.json = FullService_Serialize(FullFields(report.expiration), report.info)
        BY <3>2 DEF NodeInv, ReportInv
      <4>2. QED
        BY <3>1, <4>1, ReportDecoded DEF ReportSurvives
    <3>3. CASE report.expiration = 0
      <4>1. report.json = ServerInfo_Serialize(report.info)
        BY <3>3 DEF NodeInv, ReportInv
      <4>2. QED
        BY <3>1, <3>3, <4>1, ReportDecoded DEF ReportSurvives
    <3>4. QED
      BY <3>2, <3>3
  <2>4. QED
    BY <2>1, <2>2, <2>3 DEF NodeInv, FiguresAreTrue
<1>2. QED
  BY <1>1, NodeInvHolds, PTL
=============================================================================
