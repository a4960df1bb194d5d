---------------------------- MODULE StreamWatchdog ----------------------------
(***************************************************************************)
(* How a running stream notices that its data has stopped                  *)
(* (src/src/stream/ibase_stream.cpp, probes.cpp, src/src/base/             *)
(* channel_stats.cpp).                                                     *)
(*                                                                         *)
(* Streaming threads of GStreamer count the bytes that pass the pads, with *)
(* an unprotected load and store of the counter of a channel. Once a       *)
(* second the main loop compares the counters with those of the last       *)
(* checkpoint; when no_data_panic_sec have passed it quits the stream or   *)
(* sets a new checkpoint.                                                  *)
(*                                                                         *)
(* One channel per direction stands for all of them: the code only looks   *)
(* at their sums. The main loop writes to the counters of http inputs as   *)
(* well: a changed duration is added to them as if it were bytes.          *)
(***************************************************************************)
EXTENDS Integers

CONSTANTS
    no_data_panic_sec, \* length of a window
    report_delay_sec,  \* time between two status reports
    MinData,           \* MIN_IN_DATA, MIN_OUT_DATA: bytes expected in a window
    Modulus,           \* counters are of type size_t
    InThreads,         \* streaming threads that feed the input counter
    OutThreads,        \* and the output counter
    Streams,           \* streams considered: <<kind, lazy, http>>
    Sizes,             \* bytes of a buffer
    Durations,         \* segment.duration of a source, -1 when it is not known
    MaxWindow,         \* bound: bytes between two checkpoints
    MaxDurations,      \* bound: changes of a duration
    MaxLag,            \* bound: how late the timer of the main loop may be
    MaxTime            \* bound: seconds

ASSUME WatchdogAssumption ==
    /\ no_data_panic_sec \in Nat
    /\ report_delay_sec \in Nat \ {0}
    /\ MinData \in Nat \ {0}
    /\ Modulus \in Nat
    /\ MinData <= Modulus
    /\ InThreads \cap OutThreads = {}
    /\ Streams \subseteq {"stream", "recorder", "player"} \X BOOLEAN \X BOOLEAN
    /\ Sizes \subseteq Nat
    /\ Durations \subseteq Int
    /\ MaxWindow \in Nat
    /\ MaxWindow < Modulus
    /\ MaxDurations \in Nat
    /\ MaxLag \in Nat \ {0}
    /\ MaxTime \in Nat

Dirs    == {"in", "out"}
Threads == InThreads \cup OutThreads
Dir(t)  == IF t \in InThreads THEN "in" ELSE "out"

\* A streaming thread that is not between load and store.
NotLoaded == -1

VARIABLES
    kind,                \* the class of the stream
    lazy,                \* there is an srt or udp output
    http,                \* there is an http or https input
    active,              \* the status is not INIT
    quit,                \* the watchdog has quit the stream
    up_time,             \* GetElipsedTime()
    due,                 \* seconds since the last timer callback started
    timer_pc,            \* where the main loop is in one of its handlers
    tick_time,           \* up_time as read by that call
    diff,                \* checkpoint_diff_in_total and _out_total
    no_data_panic_tick_,
    status_tick_,
    total_bytes_,        \* counter of each direction
    prev_total_bytes_,   \* its value at the checkpoint
    loaded,              \* what each streaming thread has loaded
    changes,             \* durations that have changed
    prev_total,          \* what the bus handler of the main loop has loaded
    silent,              \* history: seconds since bytes or a duration moved a counter
    moved,               \* history: bytes since the checkpoint
    added,               \* history: durations added since the checkpoint
    seen,                \* history: the bytes the timer saw
    seen_added,          \* history: the durations among what the timer saw
    raced,               \* history: a stale counter was stored
    unreported           \* history: active seconds without a report

config_vars  == <<kind, lazy, http>>
timer_vars   == <<timer_pc, tick_time, diff, seen, seen_added>>
panic_vars   == <<no_data_panic_tick_, prev_total_bytes_>>
counter_vars == <<total_bytes_, loaded, changes, prev_total, raced>>
window_vars  == <<moved, added>>
vars == <<config_vars, active, quit, up_time, due, timer_vars, panic_vars,
          status_tick_, counter_vars, silent, window_vars, unreported>>

Zero == [d \in Dirs |-> 0]

\* Exec of the stream, up to its ResetDataWait. The totals of an earlier run
\* of the process may be left in the statistics; only differences matter.
Init ==
    /\ \E stream \in Streams :
        kind = stream[1] /\ lazy = stream[2] /\ http = stream[3]
    /\ active = FALSE
    /\ quit = FALSE
    /\ up_time = 0
    /\ due = 0
    /\ timer_pc = "idle"
    /\ tick_time = 0
    /\ diff = Zero
    /\ no_data_panic_tick_ = no_data_panic_sec
    /\ status_tick_ = 0
    /\ total_bytes_ = Zero
    /\ prev_total_bytes_ = Zero
    /\ loaded = [t \in Threads |-> NotLoaded]
    /\ changes = 0
    /\ prev_total = NotLoaded
    /\ silent = Zero
    /\ moved = Zero
    /\ added = 0
    /\ seen = Zero
    /\ seen_added = 0
    /\ raced = [d \in Dirs |-> FALSE]
    /\ unreported = 0

-----------------------------------------------------------------------------
(* Streaming threads: UpdateInputProbeStats and UpdateOutputProbeStats.     *)

LoadTotal(t) ==
    /\ ~quit
    /\ loaded[t] = NotLoaded
    /\ loaded' = [loaded EXCEPT ![t] = total_bytes_[Dir(t)]]
    /\ UNCHANGED <<config_vars, active, quit, up_time, due, timer_vars,
                   panic_vars, status_tick_, total_bytes_, changes, prev_total,
                   raced, silent, window_vars, unreported>>

StoreTotal(t, size) ==
    LET d == Dir(t) IN
    /\ ~quit
    /\ loaded[t] # NotLoaded
    /\ moved[d] + size <= MaxWindow
    /\ total_bytes_' = [total_bytes_ EXCEPT ![d] = (loaded[t] + size) % Modulus]
    /\ raced' = [raced EXCEPT ![d] = @ \/ loaded[t] # total_bytes_[d]]
    /\ loaded' = [loaded EXCEPT ![t] = NotLoaded]
    /\ silent' = [silent EXCEPT ![d] = 0]
    /\ moved' = [moved EXCEPT ![d] = @ + size]
    /\ UNCHANGED <<config_vars, active, quit, up_time, due, timer_vars,
                   panic_vars, status_tick_, changes, prev_total, added,
                   unreported>>

-----------------------------------------------------------------------------
(* The main loop.                                                          *)

\* The pipeline leaves INIT (HandleAsyncBusMessageReceived).
SetStatus ==
    /\ ~quit
    /\ timer_pc = "idle"
    /\ ~active
    /\ active' = TRUE
    /\ UNCHANGED <<config_vars, quit, up_time, due, timer_vars, panic_vars,
                   status_tick_, counter_vars, silent, window_vars, unreported>>

\* GST_MESSAGE_DURATION_CHANGED: the counter of an http input is loaded ...
LoadForDuration ==
    /\ ~quit
    /\ timer_pc = "idle"
    /\ http
    /\ changes < MaxDurations
    /\ changes' = changes + 1
    /\ timer_pc' = "duration"
    /\ prev_total' = total_bytes_["in"]
    /\ UNCHANGED <<config_vars, active, quit, up_time, due, tick_time, diff, seen,
                   seen_added, panic_vars, status_tick_, total_bytes_, loaded,
                   raced, silent, window_vars, unreported>>

\* ... and stored with the duration added, converted to size_t. Bytes that were
\* counted in between are lost. The counter may stand where it stood.
AddDuration(duration) ==
    LET size == duration % Modulus
        sum  == (prev_total + size) % Modulus
    IN
    /\ ~quit
    /\ timer_pc = "duration"
    /\ timer_pc' = "idle"
    /\ total_bytes_' = [total_bytes_ EXCEPT !["in"] = sum]
    /\ raced' = [raced EXCEPT !["in"] = @ \/ prev_total # total_bytes_["in"]]
    /\ prev_total' = NotLoaded
    /\ silent' = [silent EXCEPT !["in"] = IF sum = total_bytes_["in"] THEN @ ELSE 0]
    /\ added' = (added + size) % Modulus
    /\ UNCHANGED <<config_vars, active, quit, up_time, due, tick_time, diff, seen,
                   seen_added, panic_vars, status_tick_, loaded, changes, moved,
                   unreported>>

GetDiffTotalBytes(d) == (total_bytes_[d] - prev_total_bytes_[d]) % Modulus

\* The sums over the channels at the start of HandleMainTimerTick.
ReadInput ==
    /\ ~quit
    /\ timer_pc = "idle"
    /\ due > 0
    /\ due' = 0
    /\ timer_pc' = "read_output"
    /\ tick_time' = up_time
    /\ diff' = [diff EXCEPT !["in"] = GetDiffTotalBytes("in")]
    /\ seen' = [seen EXCEPT !["in"] = moved["in"]]
    /\ seen_added' = added
    /\ UNCHANGED <<config_vars, active, quit, up_time, panic_vars, status_tick_,
                   counter_vars, silent, window_vars, unreported>>

ReadOutput ==
    /\ ~quit
    /\ timer_pc = "read_output"
    /\ timer_pc' = "check"
    /\ diff' = [diff EXCEPT !["out"] = GetDiffTotalBytes("out")]
    /\ seen' = [seen EXCEPT !["out"] = moved["out"]]
    /\ UNCHANGED <<config_vars, active, quit, up_time, due, tick_time, seen_added,
                   panic_vars, status_tick_, counter_vars, silent, window_vars,
                   unreported>>

Mutant_AtMostMinimum(d) == diff[d] <= MinData

DataFailed(d) == diff[d] < MinData

Mutant_OutputKept ==
    /\ no_data_panic_tick_' = up_time + no_data_panic_sec
    /\ prev_total_bytes_' = [prev_total_bytes_ EXCEPT !["in"] = total_bytes_["in"]]
    /\ moved' = Zero
    /\ added' = 0

\* A new window, and a new checkpoint of every channel. up_time is read again.
ResetDataWait ==
    /\ no_data_panic_tick_' = up_time + no_data_panic_sec
    /\ prev_total_bytes_' = total_bytes_
    /\ moved' = Zero
    /\ added' = 0

\* OnInputDataFailed, OnOutputDataFailed and their overrides: a timeshift
\* player does not mind missing input, a recorder missing output, and output
\* over srt or udp is not counted on.
QuitsOnInput  == DataFailed("in") /\ kind # "player"
QuitsOnOutput == DataFailed("out") /\ kind # "recorder" /\ ~lazy

\* OnOutputDataOK, to which the recorder's OnOutputDataFailed is redirected.
OutputOK == ~DataFailed("out") \/ kind = "recorder"

Mutant_TickAlwaysMoves ==
    /\ unreported' = IF active /\ status_tick_ <= tick_time THEN 0 ELSE unreported
    /\ status_tick_' = tick_time + report_delay_sec

\* The status of an active stream is reported.
Report ==
    IF active /\ status_tick_ <= tick_time
    THEN /\ status_tick_' = tick_time + report_delay_sec
         /\ unreported' = 0
    ELSE UNCHANGED <<status_tick_, unreported>>

\* The rest of HandleMainTimerTick; its local variables end.
CheckData ==
    /\ ~quit
    /\ timer_pc = "check"
    /\ timer_pc' = "idle"
    /\ IF tick_time > no_data_panic_tick_
       THEN /\ quit' = (QuitsOnInput \/ QuitsOnOutput)
            /\ IF OutputOK THEN ResetDataWait ELSE UNCHANGED <<panic_vars, window_vars>>
       ELSE UNCHANGED <<quit, panic_vars, window_vars>>
    /\ Report
    /\ tick_time' = 0
    /\ diff' = Zero
    /\ seen' = IF quit' THEN seen ELSE Zero
    /\ seen_added' = IF quit' THEN seen_added ELSE 0
    /\ UNCHANGED <<config_vars, active, up_time, due, counter_vars, silent>>

-----------------------------------------------------------------------------
\* A second passes. The timer is due every second; the next callback starts at
\* most MaxLag after the last one did, and lasts no longer.
Tick ==
    /\ ~quit
    /\ up_time < MaxTime
    /\ due < MaxLag
    /\ up_time' = up_time + 1
    /\ due' = due + 1
    /\ silent' = [d \in Dirs |-> silent[d] + 1]
    /\ unreported' = IF active THEN unreported + 1 ELSE unreported
    /\ UNCHANGED <<config_vars, active, quit, timer_vars, panic_vars,
                   status_tick_, counter_vars, window_vars>>

Next ==
    \/ \E t \in Threads : LoadTotal(t) \/ \E size \in Sizes : StoreTotal(t, size)
    \/ SetStatus
    \/ LoadForDuration
    \/ \E duration \in Durations : AddDuration(duration)
    \/ ReadInput
    \/ ReadOutput
    \/ CheckData
    \/ Tick

Spec == Init /\ [][Next]_vars

-----------------------------------------------------------------------------
(* Properties.                                                             *)

\* Every variable keeps its type.
TypeOK ==
    /\ <<kind, lazy, http>> \in Streams
    /\ active \in BOOLEAN
    /\ quit \in BOOLEAN
    /\ up_time \in Nat
    /\ due \in 0..MaxLag
    /\ timer_pc \in {"idle", "duration", "read_output", "check"}
    /\ tick_time \in Nat
    /\ diff \in [Dirs -> Nat]
    /\ no_data_panic_tick_ \in Nat
    /\ status_tick_ \in Nat
    /\ total_bytes_ \in [Dirs -> Nat]
    /\ prev_total_bytes_ \in [Dirs -> Nat]
    /\ loaded \in [Threads -> Int]
    /\ changes \in 0..MaxDurations
    /\ prev_total \in Int
    /\ silent \in [Dirs -> Nat]
    /\ moved \in [Dirs -> Nat]
    /\ added \in Nat
    /\ seen \in [Dirs -> Nat]
    /\ seen_added \in Nat
    /\ raced \in [Dirs -> BOOLEAN]
    /\ unreported \in Nat

\* The longest a stream may run on without data: the data stops right after a
\* checkpoint, when enough has already come for that window, and both the
\* check of that window and the check of the next one start late and are slow.
LongestSilence == 2 * (no_data_panic_sec + 2 * MaxLag)

\* The directions each kind of stream watches.
Watched == {d \in Dirs : (d = "in" => kind # "player")
                         /\ (d = "out" => kind # "recorder")}

\* A stream whose outputs are counted does not run on without data, whenever
\* the data stops and however the threads that count it interleave with the
\* check. Only durations hide a stall of the input, since they are added to its
\* counter like bytes, and only for as long as new ones keep arriving.
StallEndsRun ==
    ~lazy /\ ~quit => \A d \in Watched : silent[d] <= LongestSilence

\* Durations make enough bytes look like too few: the sum wraps around below the
\* minimum, as it does when one byte less than MinData + 1 meets a duration of -1.
MisledByDurations(d) ==
    /\ d = "in"
    /\ http
    /\ seen_added # 0
    /\ (seen[d] + seen_added) % Modulus < MinData

\* The watchdog quits a stream only for a window in which less than the minimum
\* was counted, or whose counter was spoilt by two threads storing at once or by
\* the durations of an http input; the counters may wrap around.
QuitHasReason ==
    quit => \E d \in Watched :
        seen[d] < MinData \/ raced[d] \/ MisledByDurations(d)

\* An active stream reports its status regularly, also while data fails.
ReportsAreRegular == unreported <= report_delay_sec + 2 * MaxLag - 1

\* The counters keep their range through races and wrap-around, and the watchdog
\* never ends a run without a reason.
QuitIsJustified == TypeOK /\ QuitHasReason
===============================================================================
