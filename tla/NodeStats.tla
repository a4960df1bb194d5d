------------------------------- MODULE NodeStats -------------------------------
(***************************************************************************)
(* The statistics of the node: shots of the machine's counters             *)
(* (src/src/server/daemon/commands_info/service/details/shots.cpp) and     *)
(* MakeServiceStats, which the timer and every activation call and which   *)
(* share the previous shots (process_slave_wrapper.cpp). Counters and      *)
(* their differences are unsigned; a shot that cannot be read is zero, so  *)
(* that a difference over a lost shot or interface is no traffic but some  *)
(* 2^64 less what was counted before.                                      *)
(***************************************************************************)
EXTENDS Messages

CONSTANTS
    UintMod,     \* uint64_t is 0..UintMod - 1
    Second,      \* ticks of the clock in a second
    Interfaces,  \* network interfaces but the loopback
    Licenses,    \* times a license may end
    UserCounts,  \* users that may be online: clients of the daemon and
                 \* online_clients_ of each handler
    MaxCount,    \* bound: the machine's counters
    MaxTime,     \* bound: the clock
    MaxNodeReports, \* bound: reports
    MaxNodeFaults   \* bound: shots that cannot be read, interfaces that go away

\* The counters of the machine and their sums are far from the limit of their
\* type.
ASSUME NodeStatsAssumption ==
    /\ UintMod \in Nat /\ Second \in Nat \ {0}
    /\ MaxCount \in Nat \ {0} /\ 2 * MaxCount < UintMod
    /\ IsFiniteSet(Interfaces)
    /\ Cardinality(Interfaces) * MaxCount < UintMod
    /\ Licenses \subseteq Nat \ {0}
    /\ UserCounts \subseteq [daemon : Nat, http : Nat, vods : Nat, cods : Nat]

VARIABLES
    busy, idle,  \* jiffies of the cpu
    bytes,       \* received bytes of each interface, -1 when it is not there
    clock,       \* the clock
    node_stats,  \* NodeStats: the previous shots and their time
    report,      \* the last report: what was put in, the json and for whom; and
                 \* as history the real bytes, whether the cpu's shot was read,
                 \* and whether both shots of the network were and no interface
                 \* went away between them
    moved,       \* history: bytes received since the previous shot
    broken,      \* history: the previous shot was not read, or an interface
                 \* went away since
    reports, faults

node_vars == <<busy, idle, bytes, clock, node_stats, report, moved, broken,
               reports, faults>>

\* The bytes the interfaces that are there have counted.
Counted == {byte \in Interfaces \X (1..MaxCount) : byte[2] <= bytes[byte[1]]}

NoReport == [info |-> ServerInfoDefaults, json |-> ServerInfoDefaults, expiration |-> 0,
             elapsed |-> 0, received |-> 0, cpuRead |-> TRUE, whole |-> TRUE]

\* The state when Exec has taken its shots and enters the loop.
InitNode ==
    /\ busy = 0 /\ idle = 0
    /\ bytes \in [Interfaces -> {-1, 1}]
    /\ clock = 0
    /\ node_stats = [prev |-> [usage |-> busy, limit |-> busy + idle],
                     prev_nshot |-> Cardinality(Counted),
                     timestamp |-> 0]
    /\ report = NoReport
    /\ moved = 0 /\ broken = FALSE /\ reports = 0 /\ faults = 0

-----------------------------------------------------------------------------
(* The machine.                                                            *)

\* The clock advances.
Tick ==
    /\ clock < MaxTime
    /\ clock' = clock + 1
    /\ UNCHANGED <<busy, idle, bytes, node_stats, report, moved, broken, reports, faults>>

\* A jiffy of work or of waiting.
Jiffy(b, i) ==
    /\ busy + b <= MaxCount /\ idle + i <= MaxCount
    /\ busy' = busy + b /\ idle' = idle + i
    /\ UNCHANGED <<bytes, clock, node_stats, report, moved, broken, reports, faults>>

\* An interface receives a byte.
Receive(n) ==
    /\ bytes[n] \in 0..(MaxCount - 1)
    /\ bytes' = [bytes EXCEPT ![n] = @ + 1]
    /\ moved' = moved + 1
    /\ UNCHANGED <<busy, idle, clock, node_stats, report, broken, reports, faults>>

InterfaceComes(n) ==
    /\ bytes[n] < 0
    /\ bytes' = [bytes EXCEPT ![n] = 0]
    /\ UNCHANGED <<busy, idle, clock, node_stats, report, moved, broken, reports, faults>>

InterfaceGoes(n) ==
    /\ bytes[n] >= 0 /\ faults < MaxNodeFaults
    /\ bytes' = [bytes EXCEPT ![n] = -1]
    /\ faults' = faults + 1
    /\ broken' = TRUE
    /\ UNCHANGED <<busy, idle, clock, node_stats, report, moved, reports>>

-----------------------------------------------------------------------------
(* Shots.                                                                  *)

\* The difference of two counters of type uint64_t.
Minus(a, b) == (a - b) % UintMod

\* In percent; nothing happened means no load.
GetCpuMachineLoad(prev, next) ==
    LET total == Minus(next.limit, prev.limit) IN
    IF total = 0 THEN 0 ELSE (Minus(next.usage, prev.usage) * 100) \div total

GetMachineCpuShot(read) ==
    IF read THEN [usage |-> busy, limit |-> busy + idle] ELSE [usage |-> 0, limit |-> 0]

\* The sum over the interfaces that are there.
GetMachineNetShot(read) ==
    IF read THEN Cardinality(Counted) ELSE 0

\* Memory and disks: a value that cannot be had is 0.
GetMachineMemoryShot(read) == IF read THEN [total |-> 2, free |-> 1] ELSE [total |-> 0, free |-> 0]
GetMachineHddShot(read)    == IF read THEN [total |-> 2, free |-> 1] ELSE [total |-> 0, free |-> 0]

\* The load average and the uptime, in seconds.
GetMachineSysinfoShot(read) ==
    IF read THEN [loads |-> "loads", uptime |-> clock \div Second] ELSE [loads |-> "zeros", uptime |-> 0]

\* ts_diff: whole seconds, at least one.
TsDiff(elapsed) == IF elapsed \div Second = 0 THEN 1 ELSE elapsed \div Second

-----------------------------------------------------------------------------
(* Reports.                                                                *)

\* The ServerInfo of these shots.
ServerInfo(cpu, net, ok, seconds, users) ==
    [cpu |-> GetCpuMachineLoad(node_stats.prev, cpu),
     gpu |-> 0,
     load_average |-> GetMachineSysinfoShot(ok).loads,
     memory_total |-> GetMachineMemoryShot(ok).total, memory_free |-> GetMachineMemoryShot(ok).free,
     hdd_total |-> GetMachineHddShot(ok).total, hdd_free |-> GetMachineHddShot(ok).free,
     bandwidth_in |-> Minus(net, node_stats.prev_nshot) \div seconds,
     bandwidth_out |-> Minus(net, node_stats.prev_nshot) \div seconds,
     uptime |-> GetMachineSysinfoShot(ok).uptime,
     timestamp |-> clock,
     online_users |-> users]

\* The hosts and the license of a full report.
FullFields(expiration) ==
    [http_host |-> "http", vods_host |-> "vods", cods_host |-> "cods",
     expiration_time |-> expiration, version |-> "own", os |-> "own"]

Mutant_ActivationKeepsShot(expiration, cpuRead, netRead, users) ==
    LET cpu == GetMachineCpuShot(cpuRead)
        net == GetMachineNetShot(netRead)
        seconds == TsDiff(clock - node_stats.timestamp)
        info == ServerInfo(cpu, net, cpuRead, seconds, users)
    IN  /\ node_stats' = [prev |-> cpu, timestamp |-> clock,
                          prev_nshot |-> IF expiration # 0 THEN node_stats.prev_nshot ELSE net]
        /\ report' = [info |-> info, expiration |-> expiration,
                      json |-> IF expiration # 0 THEN FullService_Serialize(FullFields(expiration), info)
                               ELSE ServerInfo_Serialize(info),
                      elapsed |-> clock - node_stats.timestamp,
                      received |-> moved, cpuRead |-> cpuRead,
                      whole |-> netRead /\ ~broken]
        /\ moved' = 0
        /\ broken' = ~netRead

\* MakeServiceStats: a full report for an activation, a short one else.
MakeServiceStats(expiration, cpuRead, netRead, users) ==
    LET cpu == GetMachineCpuShot(cpuRead)
        net == GetMachineNetShot(netRead)
        seconds == TsDiff(clock - node_stats.timestamp)
        info == ServerInfo(cpu, net, cpuRead, seconds, users)
    IN  /\ node_stats' = [prev |-> cpu, prev_nshot |-> net, timestamp |-> clock]
        /\ report' = [info |-> info, expiration |-> expiration,
                      json |-> IF expiration # 0 THEN FullService_Serialize(FullFields(expiration), info)
                               ELSE ServerInfo_Serialize(info),
                      elapsed |-> clock - node_stats.timestamp,
                      received |-> moved, cpuRead |-> cpuRead,
                      whole |-> netRead /\ ~broken]
        /\ moved' = 0
        /\ broken' = ~netRead

\* The timer, or an activation with the time its license ends.
Report(expiration, cpuRead, netRead, users) ==
    /\ reports < MaxNodeReports
    /\ reports' = reports + 1
    /\ ~(cpuRead /\ netRead) => faults < MaxNodeFaults
    /\ faults' = faults + (IF cpuRead /\ netRead THEN 0 ELSE 1)
    /\ MakeServiceStats(expiration, cpuRead, netRead, users)
    /\ UNCHANGED <<busy, idle, bytes, clock>>

NextNode ==
    \/ Tick
    \/ Jiffy(1, 0) \/ Jiffy(0, 1)
    \/ \E n \in Interfaces : Receive(n) \/ InterfaceComes(n) \/ InterfaceGoes(n)
    \/ \E expiration \in {0} \cup Licenses, cpuRead, netRead \in BOOLEAN, users \in UserCounts :
           Report(expiration, cpuRead, netRead, users)

SpecNode == InitNode /\ [][NextNode]_node_vars

-----------------------------------------------------------------------------
(* Properties.                                                             *)

\* Differences stay unsigned whatever was read before.
NodeTypeOK ==
    /\ node_stats.prev \in [usage : 0..(UintMod - 1), limit : 0..(UintMod - 1)]
    /\ node_stats.prev_nshot \in 0..(UintMod - 1)
    /\ report.info.bandwidth_in \in 0..(UintMod - 1)
    /\ report.info.cpu \in Nat
    /\ node_stats.timestamp \in 0..clock

\* The load of a shot that was read is a percentage, however short the time since
\* the previous one, and also when that one could not be read.
LoadIsPercentage == report.cpuRead => report.info.cpu \in 0..100

\* The timer and the activations share one previous shot: what the machine has
\* counted is that shot and what came since, so every byte is in one interval.
BytesInOneInterval == ~broken => GetMachineNetShot(TRUE) = node_stats.prev_nshot + moved

\* Over an interval that no fault touched the rate is that of the bytes really
\* received, but for the rest of a division by whole seconds; a part of a second
\* does not count, yet the rate stays below twice the real one. A fault spoils the
\* reports of the intervals it touches and none after them.
RateIsReal ==
    LET rate    == report.info.bandwidth_in
        seconds == TsDiff(report.elapsed)
    IN  report.whole =>
            /\ rate * seconds <= report.received
            /\ report.received < rate * seconds + seconds
            /\ report.elapsed >= Second /\ rate > 0 =>
                   rate * report.elapsed < 2 * Second * report.received

\* What a client decodes is what was measured; after an activation it also has
\* the hosts and the end of the license.
ReportSurvives ==
    /\ ServerInfo_DeSerialize(report.json) = report.info
    /\ report.expiration # 0 =>
           LET read == FullService_DeSerialize(report.json)
           IN  /\ \A f \in DOMAIN report.info : read[f] = report.info[f]
               /\ \A f \in DOMAIN FullFields(report.expiration) :
                      read[f] = FullFields(report.expiration)[f]

\* The figures of every report whose own interval was free of faults are true,
\* whatever failed before, although the timer and the activations share the
\* previous shots and the times between reports vary.
FiguresAreTrue ==
    /\ NodeTypeOK
    /\ LoadIsPercentage
    /\ BytesInOneInterval
    /\ RateIsReal
    /\ ReportSurvives
================================================================================
