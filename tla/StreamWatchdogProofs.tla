------------------------- MODULE StreamWatchdogProofs -------------------------
(***************************************************************************)
(* Proofs about the stream process: StreamWatchdog for every length of the *)
(* windows, size of the counters and number of streaming threads, and      *)
(* Pipeline with PadLinking for every configuration, number of inputs and  *)
(* outputs, and tracks.                                                    *)
(***************************************************************************)
EXTENDS StreamWatchdog, PadLinking, FiniteSetTheorems, TLAPS

\* A difference of counters, taken modulo their size.
LEMMA ModSmall ==
  ASSUME NEW M \in Nat \ {0}, NEW x \in Int
  PROVE  /\ x \in 0..(M - 1) => x % M = x
         /\ x \in M..(2 * M - 1) => x % M = x - M
         /\ x \in -M..-1 => x % M = x + M
         /\ x % M \in 0..(M - 1)
<1>1. x % M \in 0..(M - 1)
  OBVIOUS
<1>2. x \in 0..(M - 1) => x % M = x
  OBVIOUS
<1>3. x \in M..(2 * M - 1) => x % M = x - M
  OBVIOUS
<1>4. x \in -M..-1 => x % M = x + M
  OBVIOUS
<1> QED
  BY <1>1, <1>2, <1>3, <1>4

\* What a counter can hold.
LEMMA ModIsNat ==
  ASSUME NEW x \in Int
  PROVE  x % Modulus \in Nat
<1>1. Modulus \in Nat \ {0}
  BY WatchdogAssumption
<1> QED
  BY <1>1, ModSmall

\* Every step keeps the types.
LEMMA TypeOKStep == TypeOK /\ [Next]_vars => TypeOK'
<1> SUFFICES ASSUME TypeOK, [Next]_vars PROVE TypeOK'
  OBVIOUS
<1> USE WatchdogAssumption DEF TypeOK, Dirs, Threads, Dir, NotLoaded, Zero,
        config_vars, timer_vars, panic_vars, counter_vars, window_vars
<1>1. ASSUME NEW t \in Threads, LoadTotal(t) PROVE TypeOK'
  BY <1>1 DEF LoadTotal
<1>2. ASSUME NEW t \in Threads, NEW size \in Sizes, StoreTotal(t, size)
      PROVE  TypeOK'
  <2>1. (loaded[t] + size) % Modulus \in Nat
    <3>1. loaded[t] + size \in Int
      OBVIOUS
    <3> QED
      BY <3>1, ModIsNat
  <2>2. raced' \in [Dirs -> BOOLEAN]
    BY <1>2 DEF StoreTotal
  <2> QED
    BY <1>2, <2>1, <2>2 DEF StoreTotal
<1>3. CASE SetStatus
  <2>1. active' \in BOOLEAN
    BY <1>3, Zenon DEF SetStatus
  <2> QED
    BY <1>3, <2>1 DEF SetStatus
<1>10. CASE LoadForDuration
  BY <1>10 DEF LoadForDuration
<1>11. ASSUME NEW duration \in Durations, AddDuration(duration) PROVE TypeOK'
  <2>1. duration % Modulus \in Nat
    BY ModIsNat
  <2>4. /\ (prev_total + (duration % Modulus)) % Modulus \in Nat
        /\ (added + (duration % Modulus)) % Modulus \in Nat
    <3>1. prev_total + (duration % Modulus) \in Int /\ added + (duration % Modulus) \in Int
      BY <2>1
    <3> QED
      BY <3>1, ModIsNat
  <2>2. raced' \in [Dirs -> BOOLEAN]
    BY <1>11 DEF AddDuration
  <2>3. silent' \in [Dirs -> Nat]
    BY <1>11 DEF AddDuration
  <2> QED
    BY <1>11, <2>2, <2>3, <2>4 DEF AddDuration
<1>4. ASSUME NEW d \in Dirs PROVE GetDiffTotalBytes(d) \in Nat
  <2>1. total_bytes_[d] - prev_total_bytes_[d] \in Int
    BY <1>4
  <2> QED
    BY <2>1, ModIsNat DEF GetDiffTotalBytes
<1>5. CASE ReadInput
  BY <1>4, <1>5 DEF ReadInput
<1>6. CASE ReadOutput
  BY <1>4, <1>6 DEF ReadOutput
<1>7. CASE CheckData
  <2>1. quit' \in BOOLEAN
    BY <1>7, Zenon DEF CheckData
  <2>2. status_tick_' \in Nat /\ unreported' \in Nat
    BY <1>7 DEF CheckData, Report
  <2>3. /\ no_data_panic_tick_' \in Nat
        /\ prev_total_bytes_' \in [Dirs -> Nat]
        /\ moved' \in [Dirs -> Nat]
        /\ added' \in Nat
    BY <1>7 DEF CheckData, ResetDataWait
  <2> QED
    BY <1>7, <2>1, <2>2, <2>3 DEF CheckData
<1>8. CASE Tick
  BY <1>8 DEF Tick
<1>9. CASE UNCHANGED vars
  BY <1>9 DEF vars
<1> QED
  BY <1>1, <1>2, <1>3, <1>5, <1>6, <1>7, <1>8, <1>9, <1>10, <1>11 DEF Next

\* Type correctness of the watchdog.
THEOREM TypeCorrect == Spec => []TypeOK
<1>1. Init => TypeOK
  <2> SUFFICES ASSUME Init PROVE TypeOK
    OBVIOUS
  <2>1. active \in BOOLEAN /\ quit \in BOOLEAN /\ raced \in [Dirs -> BOOLEAN]
    BY Zenon DEF Init
  <2>2. <<kind, lazy, http>> \in Streams
    <3>1. PICK stream \in Streams :
            kind = stream[1] /\ lazy = stream[2] /\ http = stream[3]
      BY DEF Init
    <3>2. stream = <<stream[1], stream[2], stream[3]>>
      BY WatchdogAssumption
    <3> QED
      BY <3>1, <3>2
  <2> QED
    BY <2>1, <2>2, WatchdogAssumption DEF Init, TypeOK, Zero, NotLoaded, Dirs
<1> QED
  BY <1>1, TypeOKStep, PTL DEF Spec

-----------------------------------------------------------------------------
(* The timer: when a callback runs, and how far the clock may be ahead.     *)

\* The main loop is in HandleMainTimerTick.
InTick == timer_pc \in {"read_output", "check"}

TimerInv ==
    /\ up_time >= due
    /\ InTick => tick_time = up_time - due

\* Every step keeps the relation between the clock and the callback.
LEMMA TimerInvStep == TypeOK /\ TimerInv /\ [Next]_vars => TimerInv'
BY WatchdogAssumption DEF TypeOK, TimerInv, InTick, Next, vars, config_vars,
   timer_vars, panic_vars, counter_vars, window_vars, LoadTotal, StoreTotal,
   SetStatus, LoadForDuration, AddDuration, ReadInput, ReadOutput, CheckData, Tick

-----------------------------------------------------------------------------
(* StallEndsRun. The age of the checkpoint is bounded by one window; a       *)
(* counter that moved since the checkpoint, or that the callback in progress *)
(* saw moving, has not been silent for longer than that; and when the        *)
(* checkpoint was set nothing had been silent for longer than one window.    *)

LongestWindow == no_data_panic_sec + 2 * MaxLag
CheckPointAge == up_time - (no_data_panic_tick_ - no_data_panic_sec)

WindowBounded ==
    /\ CheckPointAge >= 0
    /\ ~InTick => up_time - due <= no_data_panic_tick_
    /\ InTick => tick_time <= no_data_panic_tick_ + MaxLag

MovedRecently ==
    /\ \A d \in Dirs : total_bytes_[d] # prev_total_bytes_[d]
                          => silent[d] <= CheckPointAge
    /\ InTick /\ ~DataFailed("in") => silent["in"] <= CheckPointAge
    /\ timer_pc = "check" /\ ~DataFailed("out") => silent["out"] <= CheckPointAge

SilentAtCheckPoint ==
    \A d \in Watched : silent[d] <= CheckPointAge + LongestWindow

StallInv ==
    ~lazy /\ ~quit => WindowBounded /\ MovedRecently /\ SilentAtCheckPoint

\* A counter that differs from its checkpoint by at least the minimum has moved.
LEMMA DiffMeansMoved ==
  ASSUME TypeOK, NEW d \in Dirs, GetDiffTotalBytes(d) >= MinData
  PROVE  total_bytes_[d] # prev_total_bytes_[d]
<1>1. Modulus \in Nat \ {0} /\ MinData \in Nat \ {0}
  BY WatchdogAssumption
<1>2. 0 % Modulus = 0
  BY <1>1, ModSmall
<1> QED
  BY <1>1, <1>2 DEF TypeOK, GetDiffTotalBytes

\* Every step keeps the bounds.
LEMMA StallInvStep ==
  TypeOK /\ TimerInv /\ StallInv /\ [Next]_vars => StallInv'
<1> SUFFICES ASSUME TypeOK, TimerInv, StallInv, [Next]_vars, ~lazy', ~quit'
             PROVE  (WindowBounded /\ MovedRecently /\ SilentAtCheckPoint)'
  BY DEF StallInv
<1>0. ~lazy /\ ~quit /\ kind' = kind
  BY DEF Next, vars, config_vars, LoadTotal, StoreTotal, SetStatus,
         LoadForDuration, AddDuration, ReadInput, ReadOutput, CheckData, Tick
<1>. WindowBounded /\ MovedRecently /\ SilentAtCheckPoint
  BY <1>0 DEF StallInv
<1> USE <1>0, WatchdogAssumption DEF TypeOK, TimerInv, InTick, WindowBounded,
        MovedRecently, SilentAtCheckPoint, CheckPointAge, LongestWindow,
        Watched, Dirs, Threads, Dir, DataFailed, config_vars, timer_vars,
        panic_vars, counter_vars, window_vars
<1>1. ASSUME NEW t \in Threads, LoadTotal(t)
      PROVE  (WindowBounded /\ MovedRecently /\ SilentAtCheckPoint)'
  BY <1>1 DEF LoadTotal
<1>2. ASSUME NEW t \in Threads, NEW size \in Sizes, StoreTotal(t, size)
      PROVE  (WindowBounded /\ MovedRecently /\ SilentAtCheckPoint)'
  <2>1. silent'[Dir(t)] = 0 /\ \A d \in Dirs : silent'[d] <= silent[d]
    BY <1>2 DEF StoreTotal
  <2>2. WindowBounded'
    BY <1>2 DEF StoreTotal
  <2>3. SilentAtCheckPoint'
    BY <1>2, <2>1 DEF StoreTotal
  <2>4. MovedRecently'
    <3>1. ASSUME NEW d \in Dirs, (total_bytes_[d] # prev_total_bytes_[d])'
          PROVE  (silent[d] <= CheckPointAge)'
      <4>1. CASE d = Dir(t)
        BY <1>2, <2>1, <2>2, <4>1 DEF StoreTotal
      <4>2. CASE d # Dir(t)
        BY <1>2, <2>1, <3>1, <4>2 DEF StoreTotal
      <4> QED
        BY <4>1, <4>2
    <3> QED
      BY <1>2, <2>1, <3>1 DEF StoreTotal
  <2> QED
    BY <2>2, <2>3, <2>4
<1>3. CASE SetStatus
  BY <1>3 DEF SetStatus
<1>9. CASE LoadForDuration
  BY <1>9 DEF LoadForDuration
<1>10. ASSUME NEW duration \in Durations, AddDuration(duration)
       PROVE  (WindowBounded /\ MovedRecently /\ SilentAtCheckPoint)'
  <2>1. \A d \in Dirs : /\ silent'[d] <= silent[d]
                        /\ total_bytes_'[d] = total_bytes_[d] \/ silent'[d] = 0
    BY <1>10 DEF AddDuration
  <2>2. WindowBounded' /\ UNCHANGED <<prev_total_bytes_, up_time,
                                     no_data_panic_tick_, diff>> /\ ~InTick'
    BY <1>10 DEF AddDuration
  <2>5. silent' \in [Dirs -> Nat] /\ CheckPointAge' = CheckPointAge
    BY <1>10 DEF AddDuration
  <2>3. SilentAtCheckPoint'
    <3> SUFFICES ASSUME NEW d \in Watched
                 PROVE  silent'[d] <= CheckPointAge + LongestWindow
      BY <2>5
    <3>1. silent[d] <= CheckPointAge + LongestWindow
      OBVIOUS
    <3> QED
      BY <2>1, <3>1, <2>5
  <2>4. MovedRecently'
    <3> SUFFICES ASSUME NEW d \in Dirs, total_bytes_'[d] # prev_total_bytes_[d]
                 PROVE  silent'[d] <= CheckPointAge
      BY <2>2, <2>5
    <3>1. CASE silent'[d] = 0
      BY <2>2, <2>5, <3>1
    <3>2. CASE total_bytes_'[d] = total_bytes_[d]
      BY <2>1, <2>5, <3>2
    <3> QED
      BY <2>1, <3>1, <3>2
  <2> QED
    BY <2>2, <2>3, <2>4
<1>4. CASE ReadInput
  <2>1. GetDiffTotalBytes("in") \in Nat
    <3>1. total_bytes_["in"] - prev_total_bytes_["in"] \in Int
      OBVIOUS
    <3> QED
      BY <3>1, ModIsNat DEF GetDiffTotalBytes
  <2>2. diff'["in"] = GetDiffTotalBytes("in")
    BY <1>4 DEF ReadInput
  <2>3. ~DataFailed("in")' => silent["in"] <= CheckPointAge
    BY <2>1, <2>2, DiffMeansMoved
  <2>4. WindowBounded' /\ SilentAtCheckPoint'
    BY <1>4 DEF ReadInput
  <2> QED
    BY <1>4, <2>3, <2>4 DEF ReadInput
<1>5. CASE ReadOutput
  <2>1. GetDiffTotalBytes("out") \in Nat
    <3>1. total_bytes_["out"] - prev_total_bytes_["out"] \in Int
      OBVIOUS
    <3> QED
      BY <3>1, ModIsNat DEF GetDiffTotalBytes
  <2>2. diff'["out"] = GetDiffTotalBytes("out")
    BY <1>5 DEF ReadOutput
  <2>3. ~DataFailed("out")' => silent["out"] <= CheckPointAge
    BY <2>1, <2>2, DiffMeansMoved
  <2>4. WindowBounded' /\ SilentAtCheckPoint'
    BY <1>5 DEF ReadOutput
  <2> QED
    BY <1>5, <2>3, <2>4 DEF ReadOutput
<1>6. CASE CheckData
  <2>1. CASE tick_time > no_data_panic_tick_
    <3>1. ~QuitsOnInput /\ ~QuitsOnOutput /\ ResetDataWait
      BY <1>6, <2>1 DEF CheckData, QuitsOnInput, QuitsOnOutput, OutputOK
    <3>2. \A d \in Watched : silent[d] <= LongestWindow
      BY <1>6, <2>1, <3>1 DEF CheckData, QuitsOnInput, QuitsOnOutput
    <3> QED
      BY <1>6, <3>1, <3>2 DEF CheckData, ResetDataWait
  <2>2. CASE ~(tick_time > no_data_panic_tick_)
    BY <1>6, <2>2 DEF CheckData
  <2> QED
    BY <2>1, <2>2
<1>7. CASE Tick
  BY <1>7 DEF Tick
<1>8. CASE UNCHANGED vars
  BY <1>8 DEF vars
<1> QED
  BY <1>1, <1>2, <1>3, <1>4, <1>5, <1>6, <1>7, <1>8, <1>9, <1>10 DEF Next

\* A stream whose outputs are counted never runs on without data for longer
\* than two windows; durations of an http input count as data.
THEOREM StallsAreNoticed == Spec => []StallEndsRun
<1>1. Init => TimerInv /\ StallInv
  BY WatchdogAssumption DEF Init, TimerInv, InTick, StallInv, WindowBounded,
     MovedRecently, SilentAtCheckPoint, CheckPointAge, LongestWindow, Watched,
     Zero, Dirs
<1>2. TypeOK /\ TimerInv /\ StallInv => StallEndsRun
  BY WatchdogAssumption DEF TypeOK, TimerInv, StallInv, WindowBounded,
     SilentAtCheckPoint, CheckPointAge, LongestWindow, InTick, StallEndsRun,
     LongestSilence, Watched, Dirs
<1> QED
  BY <1>1, <1>2, TypeCorrect, TimerInvStep, StallInvStep, PTL DEF Spec

-----------------------------------------------------------------------------
(* ReportsAreRegular. status_tick_ is at most one delay after the last report; *)
(* a callback that has passed without a report started before status_tick_, or *)
(* before the stream became active.                                            *)

ReportInv ==
    /\ unreported <= up_time
    /\ status_tick_ <= up_time - unreported + report_delay_sec
    /\ active /\ ~InTick =>
        status_tick_ > up_time - due \/ unreported <= due
    /\ active /\ InTick =>
        tick_time < status_tick_ + MaxLag \/ unreported <= MaxLag + due
    /\ ~active => unreported = 0

\* Every step keeps the relation between reports and callbacks.
LEMMA ReportInvStep ==
  TypeOK /\ TimerInv /\ ReportInv /\ [Next]_vars => ReportInv'
<1> SUFFICES ASSUME TypeOK, TimerInv, ReportInv, [Next]_vars PROVE ReportInv'
  OBVIOUS
<1> USE WatchdogAssumption DEF TypeOK, TimerInv, InTick, ReportInv, config_vars,
        timer_vars, panic_vars, counter_vars, window_vars
<1>1. ASSUME NEW t \in Threads, LoadTotal(t) PROVE ReportInv'
  BY <1>1 DEF LoadTotal
<1>2. ASSUME NEW t \in Threads, NEW size \in Sizes, StoreTotal(t, size)
      PROVE  ReportInv'
  BY <1>2 DEF StoreTotal
<1>3. CASE SetStatus
  BY <1>3 DEF SetStatus
<1>9. CASE LoadForDuration
  BY <1>9 DEF LoadForDuration
<1>10. ASSUME NEW duration \in Durations, AddDuration(duration) PROVE ReportInv'
  BY <1>10 DEF AddDuration
<1>4. CASE ReadInput
  BY <1>4 DEF ReadInput
<1>5. CASE ReadOutput
  BY <1>5 DEF ReadOutput
<1>6. CASE CheckData
  BY <1>6 DEF CheckData, Report
<1>7. CASE Tick
  BY <1>7 DEF Tick
<1>8. CASE UNCHANGED vars
  BY <1>8 DEF vars
<1> QED
  BY <1>1, <1>2, <1>3, <1>4, <1>5, <1>6, <1>7, <1>8, <1>9, <1>10 DEF Next

\* An active stream is never without a report for longer than the delay and
\* two late callbacks.
THEOREM ReportsKeepComing == Spec => []ReportsAreRegular
<1>1. Init => TimerInv /\ ReportInv
  BY WatchdogAssumption DEF Init, TimerInv, InTick, ReportInv
<1>2. TypeOK /\ TimerInv /\ ReportInv => ReportsAreRegular
  BY WatchdogAssumption DEF TypeOK, TimerInv, InTick, ReportInv, ReportsAreRegular
<1> QED
  BY <1>1, <1>2, TypeCorrect, TimerInvStep, ReportInvStep, PTL DEF Spec

-----------------------------------------------------------------------------
(* QuitHasReason. As long as no stale value was stored, the counter is the   *)
(* checkpoint plus the bytes and the durations counted since, modulo its     *)
(* size, so that the difference the callback computes is their sum.          *)

Counters == 0..(Modulus - 1)

\* What was counted in a direction since the checkpoint.
Counted(d) == moved[d] + (IF d = "in" THEN added ELSE 0)

\* An unraced counter, which has wrapped around at most twice.
Exact(d) ==
    \/ total_bytes_[d] = prev_total_bytes_[d] + Counted(d)
    \/ total_bytes_[d] = prev_total_bytes_[d] + Counted(d) - Modulus
    \/ total_bytes_[d] = prev_total_bytes_[d] + Counted(d) - 2 * Modulus

CountersExact ==
    /\ added \in Counters
    /\ ~http => added = 0
    /\ prev_total \in Counters \cup {NotLoaded}
    /\ timer_pc = "duration" => http /\ prev_total \in Counters
    /\ \A d \in Dirs :
        /\ total_bytes_[d] \in Counters
        /\ prev_total_bytes_[d] \in Counters
        /\ moved[d] <= MaxWindow
        /\ ~raced[d] => Exact(d)
    /\ \A t \in Threads : loaded[t] \in Counters \cup {NotLoaded}

\* What the callback computes from what was seen.
SeenSum(d) ==
    IF d = "in" /\ seen_added # 0 THEN (seen[d] + seen_added) % Modulus ELSE seen[d]

QuitInv ==
    /\ CountersExact
    /\ ~http => seen_added = 0
    /\ InTick /\ ~raced["in"] => diff["in"] = SeenSum("in")
    /\ timer_pc = "check" /\ ~raced["out"] => diff["out"] = seen["out"]
    /\ QuitHasReason

\* A difference of counters is the sum counted, modulo their size.
LEMMA WrappedDiff ==
  ASSUME NEW M \in Nat \ {0}, NEW p \in 0..(M - 1), NEW q \in 0..(M - 1),
         NEW c \in 0..(2 * M - 2), q = p + c \/ q = p + c - M \/ q = p + c - 2 * M
  PROVE  (q - p) % M = c % M
<1> DEFINE x == q - p
<1>1. x \in Int /\ c \in Int
  OBVIOUS
<1>2. x = c \/ x = c - M \/ x = c - 2 * M
  OBVIOUS
<1>3. c \in 0..(M - 1) \/ c \in M..(2 * M - 1)
  OBVIOUS
<1>4. x \in 0..(M - 1) \/ x \in -M..-1
  OBVIOUS
<1> HIDE DEF x
<1>5. /\ c \in 0..(M - 1) => c % M = c
      /\ c \in M..(2 * M - 1) => c % M = c - M
      /\ x \in 0..(M - 1) => x % M = x
      /\ x \in -M..-1 => x % M = x + M
  BY <1>1, ModSmall
<1>6. x % M = c % M
  BY <1>1, <1>2, <1>3, <1>4, <1>5
<1> QED
  BY <1>6 DEF x

\* Without races the computed difference is what was counted.
LEMMA DiffIsExact ==
  ASSUME TypeOK, CountersExact, NEW d \in Dirs, ~raced[d]
  PROVE  /\ GetDiffTotalBytes(d) = Counted(d) % Modulus
         /\ moved[d] % Modulus = moved[d]
<1>1. /\ Modulus \in Nat \ {0}
      /\ moved[d] \in 0..(Modulus - 1)
      /\ added \in 0..(Modulus - 1)
      /\ total_bytes_[d] \in 0..(Modulus - 1)
      /\ prev_total_bytes_[d] \in 0..(Modulus - 1)
      /\ Exact(d)
  BY WatchdogAssumption DEF TypeOK, CountersExact, Counters
<1>2. Counted(d) \in 0..(2 * Modulus - 2)
  BY <1>1 DEF Counted
<1>3. moved[d] % Modulus = moved[d]
  <2>1. moved[d] \in Int
    BY <1>1
  <2> QED
    BY <1>1, <2>1, ModSmall
<1>4. (total_bytes_[d] - prev_total_bytes_[d]) % Modulus = Counted(d) % Modulus
  <2> DEFINE q == total_bytes_[d]
             p == prev_total_bytes_[d]
             c == Counted(d)
  <2>1. q = p + c \/ q = p + c - Modulus \/ q = p + c - 2 * Modulus
    BY <1>1 DEF Exact
  <2>2. Modulus \in Nat \ {0} /\ p \in 0..(Modulus - 1) /\ q \in 0..(Modulus - 1) /\ c \in 0..(2 * Modulus - 2)
    BY <1>1, <1>2
  <2> HIDE DEF p, q, c
  <2>3. (q - p) % Modulus = c % Modulus
    BY <2>1, <2>2, WrappedDiff
  <2> QED
    BY <2>3 DEF p, q, c
<1> QED
  BY <1>3, <1>4 DEF GetDiffTotalBytes

\* The sum of two values of a counter wraps around at most once.
LEMMA WrappedSum ==
  ASSUME NEW M \in Nat \ {0}, NEW x \in 0..(M - 1), NEW y \in 0..(M - 1)
  PROVE  /\ (x + y) % M \in 0..(M - 1)
         /\ (x + y) % M = x + y \/ (x + y) % M = x + y - M
<1> DEFINE z == x + y
<1>1. z \in Int /\ (z \in 0..(M - 1) \/ z \in M..(2 * M - 1))
  OBVIOUS
<1> HIDE DEF z
<1>2. z % M \in 0..(M - 1) /\ (z % M = z \/ z % M = z - M)
  BY <1>1, ModSmall
<1> QED
  BY <1>2 DEF z

\* A store keeps the counters exact, or a race is recorded.
LEMMA StoreIsExact ==
  ASSUME TypeOK, CountersExact, NEW t \in Threads, NEW size \in Sizes,
         StoreTotal(t, size)
  PROVE  CountersExact'
<1> DEFINE e == Dir(t)
           z == (loaded[t] + size) % Modulus
<1>1. /\ Modulus \in Nat \ {0}
      /\ e \in Dirs
      /\ size \in 0..(Modulus - 1)
      /\ loaded[t] \in Counters
  BY WatchdogAssumption DEF TypeOK, CountersExact, StoreTotal, Dir, Dirs, Counters
<1>2. /\ z \in Counters
      /\ z = loaded[t] + size \/ z = loaded[t] + size - Modulus
  BY <1>1, WrappedSum DEF Counters
<1>3. /\ total_bytes_'[e] = z
      /\ moved'[e] = moved[e] + size
      /\ moved'[e] <= MaxWindow
      /\ prev_total_bytes_' = prev_total_bytes_
      /\ added' = added
      /\ \A d \in Dirs : d # e => total_bytes_'[d] = total_bytes_[d]
                                   /\ moved'[d] = moved[d]
                                   /\ raced'[d] = raced[d]
  BY <1>1 DEF TypeOK, StoreTotal, panic_vars
<1>4. ~raced'[e] => ~raced[e] /\ loaded[t] = total_bytes_[e]
  BY <1>1 DEF TypeOK, StoreTotal
<1>5. /\ \A u \in Threads : loaded'[u] \in Counters \cup {NotLoaded}
      /\ UNCHANGED <<http, prev_total, timer_pc>>
  BY DEF TypeOK, CountersExact, StoreTotal, config_vars, timer_vars
<1> HIDE DEF z
<1>6. ASSUME ~raced'[e] PROVE Exact(e)'
  <2>1. Exact(e) /\ loaded[t] = total_bytes_[e]
    BY <1>1, <1>4, <1>6 DEF CountersExact
  <2>2. /\ total_bytes_[e] \in Nat /\ prev_total_bytes_[e] \in Nat
        /\ prev_total_bytes_[e] < Modulus /\ moved[e] \in Nat /\ MaxWindow \in Nat
        /\ MaxWindow < Modulus /\ added \in Nat /\ added < Modulus
    BY <1>1, WatchdogAssumption DEF TypeOK, CountersExact, Counters
  <2>3. z \in 0..(Modulus - 1)
    BY <1>2 DEF Counters
  <2> QED
    BY <1>1, <1>2, <1>3, <2>1, <2>2, <2>3 DEF Exact, Counted
<1>7. ASSUME NEW d \in Dirs
      PROVE  /\ total_bytes_'[d] \in Counters
             /\ prev_total_bytes_'[d] \in Counters
             /\ moved'[d] <= MaxWindow
             /\ ~raced'[d] => Exact(d)'
  <2>1. CASE d = e
    BY <1>2, <1>3, <1>6, <2>1 DEF CountersExact
  <2>2. CASE d # e
    BY <1>3, <2>2 DEF CountersExact, Exact, Counted
  <2> QED
    BY <2>1, <2>2
<1> QED
  BY <1>3, <1>5, <1>7 DEF CountersExact, Counters

\* So does the store of a duration.
LEMMA DurationIsExact ==
  ASSUME TypeOK, CountersExact, NEW duration \in Durations, AddDuration(duration)
  PROVE  CountersExact'
<1> DEFINE n == duration % Modulus
           z == (prev_total + n) % Modulus
           a == (added + n) % Modulus
<1>1. /\ Modulus \in Nat \ {0}
      /\ duration \in Int
      /\ prev_total \in Counters
      /\ added \in Counters
      /\ "in" \in Dirs
  BY WatchdogAssumption DEF TypeOK, CountersExact, AddDuration, Counters, Dirs
<1>2. n \in 0..(Modulus - 1)
  BY <1>1, ModSmall
<1>3. /\ total_bytes_'["in"] = z
      /\ added' = a
      /\ UNCHANGED <<prev_total_bytes_, moved, http, loaded>>
      /\ prev_total' = NotLoaded
      /\ timer_pc' = "idle"
      /\ http
      /\ total_bytes_'["out"] = total_bytes_["out"]
      /\ raced'["out"] = raced["out"]
      /\ ~raced'["in"] => ~raced["in"] /\ prev_total = total_bytes_["in"]
  BY <1>1 DEF TypeOK, CountersExact, AddDuration, panic_vars, config_vars, Dirs
<1> HIDE DEF n
<1>4. /\ z \in Counters
      /\ z = prev_total + n \/ z = prev_total + n - Modulus
      /\ a \in Counters
      /\ a = added + n \/ a = added + n - Modulus
  BY <1>1, <1>2, WrappedSum DEF Counters
<1> HIDE DEF z, a
<1>5. ASSUME ~raced'["in"] PROVE Exact("in")'
  <2>1. Exact("in") /\ prev_total = total_bytes_["in"]
    BY <1>1, <1>3, <1>5 DEF CountersExact
  <2>2. /\ total_bytes_["in"] \in Nat /\ prev_total_bytes_["in"] \in Nat
        /\ prev_total_bytes_["in"] < Modulus /\ moved["in"] \in Nat
        /\ moved["in"] < Modulus /\ added \in Nat /\ added < Modulus
    BY <1>1, WatchdogAssumption DEF TypeOK, CountersExact, Counters
  <2>3. z \in 0..(Modulus - 1) /\ a \in 0..(Modulus - 1)
    BY <1>4 DEF Counters
  <2> QED
    BY <1>1, <1>2, <1>3, <1>4, <2>1, <2>2, <2>3 DEF Exact, Counted
<1>6. ~raced'["out"] => Exact("out")'
  BY <1>3 DEF CountersExact, Exact, Counted, Dirs
<1> QED
  BY <1>3, <1>4, <1>5, <1>6 DEF CountersExact, Counters, Dirs

\* Every step keeps the counters exact and quits for a reason only.
LEMMA QuitInvStep == TypeOK /\ QuitInv /\ [Next]_vars => QuitInv'
<1> SUFFICES ASSUME TypeOK, QuitInv, [Next]_vars PROVE QuitInv'
  OBVIOUS
<1> USE WatchdogAssumption DEF TypeOK, InTick, QuitInv, QuitHasReason, SeenSum,
        MisledByDurations, Watched, Dirs, config_vars, timer_vars, panic_vars,
        counter_vars, window_vars
<1>1. ASSUME NEW t \in Threads, LoadTotal(t) PROVE QuitInv'
  BY <1>1 DEF LoadTotal, CountersExact, Exact, Counted, Counters, Dir
<1>2. ASSUME NEW t \in Threads, NEW size \in Sizes, StoreTotal(t, size)
      PROVE  QuitInv'
  <2>1. CountersExact'
    BY <1>2, StoreIsExact
  <2>2. \A d \in Dirs : ~raced'[d] => ~raced[d]
    BY <1>2 DEF StoreTotal
  <2> QED
    BY <1>2, <2>1, <2>2 DEF StoreTotal
<1>3. CASE SetStatus
  BY <1>3 DEF SetStatus, CountersExact, Exact, Counted, Counters
<1>9. CASE LoadForDuration
  BY <1>9 DEF LoadForDuration, CountersExact, Exact, Counted, Counters
<1>10. ASSUME NEW duration \in Durations, AddDuration(duration) PROVE QuitInv'
  <2>1. CountersExact'
    BY <1>10, DurationIsExact
  <2> QED
    BY <1>10, <2>1 DEF AddDuration
<1>4. CASE ReadInput
  <2>1. CountersExact'
    BY <1>4 DEF ReadInput, CountersExact, Exact, Counted, Counters
  <2>2. ~raced["in"] => diff'["in"] = SeenSum("in")'
    <3> SUFFICES ASSUME ~raced["in"] PROVE diff'["in"] = SeenSum("in")'
      OBVIOUS
    <3>1. /\ GetDiffTotalBytes("in") = Counted("in") % Modulus
          /\ moved["in"] % Modulus = moved["in"]
      BY DiffIsExact
    <3>2. diff'["in"] = (moved["in"] + added) % Modulus
      BY <1>4, <3>1 DEF ReadInput, Counted
    <3>3. seen'["in"] = moved["in"] /\ seen_added' = added
      BY <1>4 DEF ReadInput
    <3>4. CASE added = 0
      BY <3>1, <3>2, <3>3, <3>4
    <3>5. CASE added # 0
      BY <3>2, <3>3, <3>5
    <3> QED
      BY <3>4, <3>5
  <2>3. (~http => seen_added = 0)'
    BY <1>4 DEF ReadInput, CountersExact
  <2>4. ~quit' /\ timer_pc' = "read_output" /\ raced' = raced
    BY <1>4 DEF ReadInput
  <2> QED
    BY <2>1, <2>2, <2>3, <2>4
<1>5. CASE ReadOutput
  <2>1. CountersExact'
    BY <1>5 DEF ReadOutput, CountersExact, Exact, Counted, Counters
  <2>2. ~raced["out"] => diff'["out"] = seen'["out"]
    BY <1>5, DiffIsExact DEF ReadOutput, Counted
  <2> QED
    BY <1>5, <2>1, <2>2 DEF ReadOutput
<1>6. CASE CheckData
  <2>1. CountersExact'
    <3>1. CASE ResetDataWait
      BY <1>6, <3>1 DEF CheckData, ResetDataWait, CountersExact, Exact,
                        Counted, Counters, Zero
    <3>2. CASE UNCHANGED <<panic_vars, window_vars>>
      BY <1>6, <3>2 DEF CheckData, CountersExact, Exact, Counted, Counters
    <3> QED
      BY <1>6, <3>1, <3>2 DEF CheckData
  <2>2. QuitHasReason'
    <3> SUFFICES ASSUME quit' 
                 PROVE  \E d \in Watched :
                            seen[d] < MinData \/ raced[d] \/ MisledByDurations(d)
      BY <1>6 DEF CheckData
    <3>1. QuitsOnInput \/ QuitsOnOutput
      BY <1>6 DEF CheckData
    <3> QED
      BY <1>6, <3>1 DEF CheckData, QuitsOnInput, QuitsOnOutput, DataFailed
  <2> QED
    BY <1>6, <2>1, <2>2 DEF CheckData
<1>7. CASE Tick
  BY <1>7 DEF Tick, CountersExact, Exact, Counted, Counters
<1>8. CASE UNCHANGED vars
  BY <1>8 DEF vars, CountersExact, Exact, Counted, Counters
<1> QED
  BY <1>1, <1>2, <1>3, <1>4, <1>5, <1>6, <1>7, <1>8, <1>9, <1>10 DEF Next

\* A stream is quit by the watchdog only when too little was counted in a window,
\* two threads spoilt the counter, or durations of an http input made it wrap
\* around; bytes that make it wrap around are no reason.
THEOREM QuitsAreJustified == Spec => []QuitHasReason
<1>1. Init => QuitInv
  BY WatchdogAssumption DEF Init, QuitInv, InTick, CountersExact, Exact, Counted,
     Counters, QuitHasReason, Zero, Dirs
<1>2. QuitInv => QuitHasReason
  BY DEF QuitInv
<1> QED
  BY <1>1, <1>2, TypeCorrect, QuitInvStep, PTL DEF Spec

\* The counters keep their range and no wrap-around of bytes makes the watchdog end a run without a reason.
THEOREM QuitsHaveReasons == Spec => []QuitIsJustified
BY TypeCorrect, QuitsAreJustified, PTL DEF QuitIsJustified

-----------------------------------------------------------------------------
(***************************************************************************)
(* Pipeline: lines of elements.                                            *)
(***************************************************************************)
Els(s) == {s[k] : k \in DOMAIN s}
Plugins(s) == {e.plugin : e \in Els(s)}
IsSeq(s) == s \in Seq(Els(s))
Distinct(s) == \A j, k \in DOMAIN s : s[j].name = s[k].name => j = k
Linkable(s) == \A k \in 1..(Len(s) - 1) : CanLink(s[k].plugin, s[k + 1].plugin)

\* A line of elements with distinct names of N and plug-ins of P.
Line(s, N, P) ==
    /\ IsSeq(s) /\ Distinct(s)
    /\ Names(s) \subseteq N /\ Plugins(s) \subseteq P

\* A sequence has a length and a domain.
LEMMA SeqDomain ==
  ASSUME NEW s, IsSeq(s)
  PROVE  Len(s) \in Nat /\ DOMAIN s = 1..Len(s)
BY DEF IsSeq

\* The elements, their names and their plug-ins.
LEMMA ElsOf ==
  ASSUME NEW s
  PROVE  /\ Names(s) = {e.name : e \in Els(s)}
         /\ \A k \in DOMAIN s : s[k] \in Els(s)
         /\ \A e \in Els(s) : \E k \in DOMAIN s : e = s[k]
         /\ \A e \in Els(s) : e.name \in Names(s) /\ e.plugin \in Plugins(s)
         /\ \A n \in Names(s) : \E e \in Els(s) : e.name = n
BY DEF Els, Names, Plugins

\* Two lines, one after the other.
LEMMA Concat ==
  ASSUME NEW s, NEW t, IsSeq(s), IsSeq(t)
  PROVE  /\ IsSeq(s \o t)
         /\ Len(s \o t) = Len(s) + Len(t)
         /\ \A k \in 1..Len(s) : (s \o t)[k] = s[k]
         /\ \A k \in 1..Len(t) : (s \o t)[Len(s) + k] = t[k]
         /\ \A k \in 1..Len(s \o t) : k \in 1..Len(s) \/ (k - Len(s)) \in 1..Len(t)
         /\ Els(s \o t) = Els(s) \cup Els(t)
         /\ Names(s \o t) = Names(s) \cup Names(t)
         /\ Plugins(s \o t) = Plugins(s) \cup Plugins(t)
<1> DEFINE S == Els(s) \cup Els(t)
           u == s \o t
<1>1. s \in Seq(S) /\ t \in Seq(S)
  <2>1. ASSUME NEW x, IsSeq(x), Els(x) \subseteq S PROVE x \in Seq(S)
    BY <2>1 DEF IsSeq
  <2> QED
    BY <2>1
<1>2. /\ u \in Seq(S) /\ Len(u) = Len(s) + Len(t)
      /\ \A k \in 1..Len(s) : u[k] = s[k]
      /\ \A k \in 1..Len(t) : u[Len(s) + k] = t[k]
  BY <1>1
<1>3. Len(s) \in Nat /\ Len(t) \in Nat /\ DOMAIN s = 1..Len(s) /\ DOMAIN t = 1..Len(t)
  BY SeqDomain
<1>4. DOMAIN u = 1..Len(u)
  BY <1>2
<1>5. \A k \in 1..Len(u) : k \in 1..Len(s) \/ (k - Len(s)) \in 1..Len(t)
  BY <1>2, <1>3
<1> HIDE DEF u
<1>6. Els(u) \subseteq S
  <2> SUFFICES ASSUME NEW k \in 1..Len(u) PROVE u[k] \in S
    BY <1>4 DEF Els
  <2>1. CASE k \in 1..Len(s)
    BY <2>1, <1>2, <1>3 DEF Els
  <2>2. CASE (k - Len(s)) \in 1..Len(t)
    <3>1. k = Len(s) + (k - Len(s))
      BY <1>3
    <3>2. u[k] = t[k - Len(s)]
      BY <2>2, <1>2, <3>1
    <3> QED
      BY <2>2, <3>2, <1>3 DEF Els
  <2> QED
    BY <2>1, <2>2, <1>5
<1>7. S \subseteq Els(u)
  <2>1. ASSUME NEW k \in 1..Len(s) PROVE s[k] \in Els(u)
    <3>1. k \in 1..Len(u)
      BY <1>2, <1>3
    <3> QED
      BY <3>1, <1>2, <1>4 DEF Els
  <2>2. ASSUME NEW k \in 1..Len(t) PROVE t[k] \in Els(u)
    <3>1. Len(s) + k \in 1..Len(u)
      BY <1>2, <1>3
    <3> QED
      BY <3>1, <1>2, <1>4 DEF Els
  <2> QED
    <3>1. ASSUME NEW x \in S PROVE x \in Els(u)
      <4>1. CASE x \in Els(s)
        <5>1. PICK k \in 1..Len(s) : x = s[k]
          BY <4>1, <1>3 DEF Els
        <5> QED
          BY <5>1, <2>1
      <4>2. CASE x \in Els(t)
        <5>1. PICK k \in 1..Len(t) : x = t[k]
          BY <4>2, <1>3 DEF Els
        <5> QED
          BY <5>1, <2>2
      <4> QED
        BY <4>1, <4>2
    <3> QED
      BY <3>1
<1>8. Els(u) = S
  BY <1>6, <1>7
<1>9. IsSeq(u)
  BY <1>8, <1>2 DEF IsSeq
<1>10. Names(u) = Names(s) \cup Names(t) /\ Plugins(u) = Plugins(s) \cup Plugins(t)
  <2>1. Plugins(u) = Plugins(s) \cup Plugins(t)
    BY <1>8 DEF Plugins
  <2>2. Names(u) = Names(s) \cup Names(t)
    BY <1>8, ElsOf
  <2> QED
    BY <2>1, <2>2
<1> QED
  BY <1>2, <1>5, <1>8, <1>9, <1>10 DEF u

\* Lines of one to four elements, and of none.
LEMMA Literal ==
  ASSUME NEW a, NEW b, NEW c, NEW d
  PROVE  /\ IsSeq(<<>>) /\ Els(<<>>) = {} /\ Len(<<>>) = 0
         /\ IsSeq(<<a>>) /\ Els(<<a>>) = {a} /\ Len(<<a>>) = 1
         /\ IsSeq(<<a, b>>) /\ Els(<<a, b>>) = {a, b} /\ Len(<<a, b>>) = 2
         /\ IsSeq(<<a, b, c>>) /\ Els(<<a, b, c>>) = {a, b, c} /\ Len(<<a, b, c>>) = 3
         /\ IsSeq(<<a, b, c, d>>) /\ Els(<<a, b, c, d>>) = {a, b, c, d} /\ Len(<<a, b, c, d>>) = 4
<1>1. IsSeq(<<>>) /\ Els(<<>>) = {}
  BY DEF IsSeq, Els
<1>2. IsSeq(<<a>>) /\ Els(<<a>>) = {a}
  BY DEF IsSeq, Els
<1>3. IsSeq(<<a, b>>) /\ Els(<<a, b>>) = {a, b}
  BY DEF IsSeq, Els
<1>4. IsSeq(<<a, b, c>>) /\ Els(<<a, b, c>>) = {a, b, c}
  BY DEF IsSeq, Els
<1>5. IsSeq(<<a, b, c, d>>) /\ Els(<<a, b, c, d>>) = {a, b, c, d}
  BY DEF IsSeq, Els
<1> QED
  BY <1>1, <1>2, <1>3, <1>4, <1>5

\* The lines of Literal are lines.
LEMMA LineEmpty ==
  ASSUME NEW N, NEW P
  PROVE  Line(<<>>, N, P) /\ Linkable(<<>>)
<1>1. IsSeq(<<>>) /\ Els(<<>>) = {} /\ Len(<<>>) = 0
  BY Literal
<1>2. Names(<<>>) = {} /\ Plugins(<<>>) = {}
  BY <1>1, ElsOf DEF Plugins
<1>3. Distinct(<<>>) /\ Linkable(<<>>)
  BY <1>1 DEF Distinct, Linkable
<1> QED
  BY <1>1, <1>2, <1>3 DEF Line

\* One element is a line.
LEMMA LineOne ==
  ASSUME NEW a
  PROVE  Line(<<a>>, {a.name}, {a.plugin}) /\ Linkable(<<a>>)
<1>1. IsSeq(<<a>>) /\ Els(<<a>>) = {a} /\ Len(<<a>>) = 1
  BY Literal
<1>2. Distinct(<<a>>) /\ Linkable(<<a>>)
  BY DEF Distinct, Linkable
<1>3. Names(<<a>>) = {a.name} /\ Plugins(<<a>>) = {a.plugin}
  BY <1>1, ElsOf DEF Plugins
<1> QED
  BY <1>1, <1>2, <1>3 DEF Line

\* Two elements of different names are a line.
LEMMA LineTwo ==
  ASSUME NEW a, NEW b, a.name # b.name
  PROVE  Line(<<a, b>>, {a.name, b.name}, {a.plugin, b.plugin})
<1>1. IsSeq(<<a, b>>) /\ Els(<<a, b>>) = {a, b}
  BY Literal
<1>2. Distinct(<<a, b>>)
  BY DEF Distinct
<1>3. Plugins(<<a, b>>) = {a.plugin, b.plugin}
  BY <1>1 DEF Plugins
<1>4. Names(<<a, b>>) = {a.name, b.name}
  <2>1. Names(<<a, b>>) = {e.name : e \in {a, b}}
    BY <1>1, ElsOf, Zenon
  <2> QED
    BY <2>1
<1> QED
  BY <1>1, <1>2, <1>3, <1>4 DEF Line

\* An optional line is a line.
LEMMA LineIf ==
  ASSUME NEW s, NEW N, NEW P, NEW b, Line(s, N, P)
  PROVE  Line(If(b, s), N, P)
BY LineEmpty DEF If

\* A line keeps to wider sets of names and plug-ins.
LEMMA LineWider ==
  ASSUME NEW s, NEW N, NEW P, NEW M, NEW Q, Line(s, N, P), N \subseteq M, P \subseteq Q
  PROVE  Line(s, M, Q)
BY DEF Line

\* Two lines without a common name are a line.
LEMMA LineConcat ==
  ASSUME NEW s, NEW N, NEW P, NEW t, NEW M, NEW Q,
         Line(s, N, P), Line(t, M, Q), N \cap M = {}
  PROVE  Line(s \o t, N \cup M, P \cup Q)
<1> DEFINE u == s \o t
<1>1. IsSeq(s) /\ IsSeq(t) /\ Distinct(s) /\ Distinct(t)
  BY DEF Line
<1>2. /\ IsSeq(u) /\ Len(u) = Len(s) + Len(t)
      /\ \A k \in 1..Len(s) : u[k] = s[k]
      /\ \A k \in 1..Len(t) : u[Len(s) + k] = t[k]
      /\ \A k \in 1..Len(u) : k \in 1..Len(s) \/ (k - Len(s)) \in 1..Len(t)
      /\ Names(u) = Names(s) \cup Names(t)
      /\ Plugins(u) = Plugins(s) \cup Plugins(t)
  BY <1>1, Concat
<1>3. /\ Len(s) \in Nat /\ Len(t) \in Nat /\ Len(u) \in Nat
      /\ DOMAIN s = 1..Len(s) /\ DOMAIN t = 1..Len(t) /\ DOMAIN u = 1..Len(u)
  BY <1>1, <1>2, SeqDomain
<1> HIDE DEF u
<1>4. \A k \in 1..Len(s) : u[k].name \in N
  BY <1>2, <1>3 DEF Line, Names
<1>5. ASSUME NEW k \in 1..Len(u), k \notin 1..Len(s)
      PROVE  /\ k - Len(s) \in 1..Len(t) /\ u[k] = t[k - Len(s)]
             /\ u[k].name \in M
  <2>1. k - Len(s) \in 1..Len(t)
    BY <1>5, <1>2
  <2>2. k = Len(s) + (k - Len(s))
    BY <1>3
  <2>3. u[k] = t[k - Len(s)]
    BY <2>1, <2>2, <1>2
  <2> QED
    BY <2>1, <2>3, <1>3 DEF Line, Names
<1>6. Distinct(u)
  <2> SUFFICES ASSUME NEW j \in 1..Len(u), NEW k \in 1..Len(u), u[j].name = u[k].name
               PROVE  j = k
    BY <1>3 DEF Distinct
  <2>1. CASE j \in 1..Len(s) /\ k \in 1..Len(s)
    BY <2>1, <1>1, <1>2, <1>3 DEF Distinct
  <2>2. CASE j \notin 1..Len(s) /\ k \notin 1..Len(s)
    <3>1. j - Len(s) = k - Len(s)
      BY <2>2, <1>5, <1>1, <1>3 DEF Distinct
    <3> QED
      BY <3>1, <1>3
  <2>3. CASE j \in 1..Len(s) /\ k \notin 1..Len(s)
    BY <2>3, <1>4, <1>5
  <2>4. CASE j \notin 1..Len(s) /\ k \in 1..Len(s)
    BY <2>4, <1>4, <1>5
  <2> QED
    BY <2>1, <2>2, <2>3, <2>4
<1> QED
  BY <1>2, <1>6 DEF Line, u

\* Two lines whose ends fit each other can be linked through.
LEMMA LinkableConcat ==
  ASSUME NEW s, NEW t, IsSeq(s), IsSeq(t), Linkable(s), Linkable(t),
         Len(s) > 0 /\ Len(t) > 0 => CanLink(s[Len(s)].plugin, t[1].plugin)
  PROVE  Linkable(s \o t)
<1> DEFINE u == s \o t
<1>1. /\ IsSeq(u) /\ Len(u) = Len(s) + Len(t)
      /\ \A k \in 1..Len(s) : u[k] = s[k]
      /\ \A k \in 1..Len(t) : u[Len(s) + k] = t[k]
  BY Concat
<1>2. Len(s) \in Nat /\ Len(t) \in Nat
  BY SeqDomain
<1> HIDE DEF u
<1> SUFFICES ASSUME NEW k \in 1..(Len(u) - 1)
             PROVE  CanLink(u[k].plugin, u[k + 1].plugin)
  BY DEF Linkable, u
<1>3. CASE k < Len(s)
  <2>1. k \in 1..(Len(s) - 1) /\ k \in 1..Len(s) /\ k + 1 \in 1..Len(s)
    BY <1>3, <1>2
  <2> QED
    BY <2>1, <1>1 DEF Linkable
<1>4. CASE k = Len(s)
  <2>1. k \in 1..Len(s) /\ 1 \in 1..Len(t) /\ Len(s) > 0 /\ Len(t) > 0
    BY <1>4, <1>1, <1>2
  <2> QED
    BY <2>1, <1>1, <1>4
<1>5. CASE k > Len(s)
  <2> DEFINE j == k - Len(s)
  <2>1. /\ j \in 1..(Len(t) - 1) /\ j \in 1..Len(t) /\ j + 1 \in 1..Len(t)
        /\ k = Len(s) + j /\ k + 1 = Len(s) + (j + 1)
    BY <1>5, <1>1, <1>2
  <2> HIDE DEF j
  <2>2. u[k] = t[j] /\ u[k + 1] = t[j + 1]
    BY <2>1, <1>1
  <2> QED
    BY <2>1, <2>2 DEF Linkable
<1> QED
  BY <1>3, <1>4, <1>5, <1>2

\* Plug-ins that take anything.
Soft(P) == P \cap DOMAIN Takes = {}

\* A plug-in whose pads are not fixed fits everything.
LEMMA SoftLink ==
  ASSUME NEW p, NEW q, q \notin DOMAIN Takes
  PROVE  CanLink(p, q)
BY DEF CanLink

\* A line of such plug-ins can be linked through.
LEMMA SoftLine ==
  ASSUME NEW s, NEW N, NEW P, Line(s, N, P), Soft(P)
  PROVE  /\ Linkable(s)
         /\ \A e \in Els(s) : e.plugin \notin DOMAIN Takes
         /\ Len(s) > 0 => s[1].plugin \notin DOMAIN Takes
<1>1. \A e \in Els(s) : e.plugin \notin DOMAIN Takes
  BY DEF Line, Plugins, Soft
<1>2. Len(s) \in Nat /\ DOMAIN s = 1..Len(s)
  BY SeqDomain DEF Line
<1>3. \A k \in 1..Len(s) : s[k].plugin \notin DOMAIN Takes
  BY <1>1, <1>2 DEF Els
<1> QED
  BY <1>1, <1>2, <1>3, SoftLink DEF Linkable

\* Appending a line that takes anything.
LEMMA SoftConcat ==
  ASSUME NEW s, NEW N, NEW P, Line(s, N, P), Soft(P), NEW t, IsSeq(t), Linkable(t)
  PROVE  Linkable(t \o s)
BY SoftLine, SoftLink, LinkableConcat DEF Line

\* The names of a line are distinct if and only if ElementAdd finds none twice.
LEMMA ClashIff ==
  ASSUME NEW s, IsSeq(s)
  PROVE  Clash(s) <=> ~ Distinct(s)
<1>1. PICK n \in Nat : Len(s) = n /\ DOMAIN s = 1..n
  BY SeqDomain
<1> DEFINE f == [k \in 1..n |-> s[k].name]
<1>2. IsFiniteSet(1..n) /\ Cardinality(1..n) = n
  BY <1>1, FS_Interval
<1>3. f \in Surjection(1..n, Names(s))
  BY <1>1 DEF Surjection, Names
<1>4. /\ IsFiniteSet(Names(s)) /\ Cardinality(Names(s)) <= Cardinality(1..n)
      /\ Cardinality(Names(s)) = Cardinality(1..n) <=> f \in Injection(1..n, Names(s))
  BY <1>2, <1>3, FS_Surjection
<1>5. f \in Injection(1..n, Names(s)) <=> Distinct(s)
  BY <1>1, <1>3 DEF Surjection, Injection, IsInjective, Distinct
<1>6. Cardinality(Names(s)) \in Nat
  BY <1>4, FS_CardinalityType
<1> QED
  BY <1>1, <1>2, <1>4, <1>5, <1>6 DEF Clash

\* In a pipeline with distinct names ElementLink finds the two elements it is
\* called with.
LEMMA RefusedIff ==
  ASSUME NEW els, Distinct(els), NEW a \in Els(els), NEW b \in Els(els)
  PROVE  Refused(els, <<a.name, b.name>>) <=> ~ CanLink(a.plugin, b.plugin)
<1> DEFINE At(n) == CHOOSE k \in DOMAIN els : els[k].name = n
<1>1. ASSUME NEW e \in Els(els) PROVE els[At(e.name)] = e
  <2>1. PICK k \in DOMAIN els : els[k] = e
    BY DEF Els
  <2>2. At(e.name) \in DOMAIN els /\ els[At(e.name)].name = e.name
    BY <2>1
  <2>3. At(e.name) = k
    BY <2>1, <2>2 DEF Distinct
  <2> QED
    BY <2>1, <2>3
<1>2. els[At(a.name)] = a /\ els[At(b.name)] = b
  BY <1>1
<1>3. <<a.name, b.name>>[1] = a.name /\ <<a.name, b.name>>[2] = b.name
  OBVIOUS
<1> QED
  BY <1>2, <1>3, Zenon DEF Refused

\* The plug-in that is found by its name, where no name occurs twice.
LEMMA PluginIs ==
  ASSUME Distinct(elements), NEW e \in Els(elements)
  PROVE  PluginOf(e.name) = e.plugin
<1> DEFINE At(n) == CHOOSE k \in DOMAIN elements : elements[k].name = n
<1>1. PICK k \in DOMAIN elements : elements[k] = e
  BY DEF Els
<1>2. At(e.name) \in DOMAIN elements /\ elements[At(e.name)].name = e.name
  BY <1>1
<1>3. At(e.name) = k
  BY <1>1, <1>2 DEF Distinct
<1> QED
  BY <1>1, <1>3 DEF PluginOf

\* The links of a line, one by one.
LEMMA JoinedIs ==
  ASSUME NEW s, IsSeq(s), NEW from, NEW to, NEW l \in Joined(from, s, to)
  PROVE  \/ \E k \in 1..(Len(s) - 1) : l = <<s[k].name, s[k + 1].name>>
         \/ Len(s) > 0 /\ from # None /\ l = <<from, s[1].name>>
         \/ Len(s) > 0 /\ to # None /\ l = <<s[Len(s)].name, to>>
         \/ Len(s) = 0 /\ from # None /\ to # None /\ l = <<from, to>>
<1>1. Len(s) \in Nat /\ (s = <<>> <=> Len(s) = 0)
  BY DEF IsSeq
<1> DEFINE first == IF s = <<>> THEN to ELSE s[1].name
           last  == Tail1(from, s)
<1>2. \/ \E k \in 1..(Len(s) - 1) : l = <<s[k].name, s[k + 1].name>>
      \/ l = <<from, first>> /\ from # None /\ first # None
      \/ l = <<last, to>> /\ last # None /\ to # None
  BY DEF Joined
<1> QED
  BY <1>1, <1>2 DEF Tail1

\* Where the links of a line begin and end.
LEMMA JoinedEnds ==
  ASSUME NEW s, IsSeq(s), NEW from, NEW to, NEW l \in Joined(from, s, to)
  PROVE  /\ l[1] \in Names(s) \cup ({from} \ {None})
         /\ l[2] \in Names(s) \cup ({to} \ {None})
         /\ l = <<l[1], l[2]>>
<1>1. Len(s) \in Nat /\ DOMAIN s = 1..Len(s)
  BY SeqDomain
<1>2. \A k \in 1..Len(s) : s[k].name \in Names(s)
  BY <1>1 DEF Names
<1>3. CASE \E k \in 1..(Len(s) - 1) : l = <<s[k].name, s[k + 1].name>>
  <2>1. PICK k \in 1..(Len(s) - 1) : l = <<s[k].name, s[k + 1].name>>
    BY <1>3
  <2>2. k \in 1..Len(s) /\ k + 1 \in 1..Len(s)
    BY <1>1
  <2> QED
    BY <2>1, <2>2, <1>2
<1>4. CASE Len(s) > 0 /\ from # None /\ l = <<from, s[1].name>>
  <2>1. 1 \in 1..Len(s)
    BY <1>1, <1>4
  <2> QED
    BY <2>1, <1>4, <1>2
<1>5. CASE Len(s) > 0 /\ to # None /\ l = <<s[Len(s)].name, to>>
  <2>1. Len(s) \in 1..Len(s)
    BY <1>1, <1>5
  <2> QED
    BY <2>1, <1>5, <1>2
<1>6. CASE Len(s) = 0 /\ from # None /\ to # None /\ l = <<from, to>>
  BY <1>6
<1> QED
  BY <1>3, <1>4, <1>5, <1>6, JoinedIs

\* In a line an element is linked to one element behind it and to one before it;
\* the last one is linked to nothing if the line ends there.
LEMMA JoinedOnce ==
  ASSUME NEW s, IsSeq(s), Distinct(s), NEW from, NEW to,
         from \notin Names(s), to \notin Names(s)
  PROVE  /\ \A l, m \in Joined(from, s, to) : (l[1] = m[1] \/ l[2] = m[2]) => l = m
         /\ Len(s) > 0 /\ to = None => \A l \in Joined(from, s, to) : l[1] # s[Len(s)].name
<1>1. PICK n \in Nat : Len(s) = n /\ DOMAIN s = 1..n
  BY SeqDomain
<1>2. \A k \in 1..n : s[k].name \in Names(s)
  BY <1>1 DEF Names
<1>3. \A j, k \in 1..n : s[j].name = s[k].name => j = k
  BY <1>1 DEF Distinct
\* The name at position k of the line with its two neighbours.
<1> DEFINE at == [k \in 0..(n + 1) |-> IF k = 0 THEN from ELSE IF k = n + 1 THEN to ELSE s[k].name]
<1>4. ASSUME NEW l \in Joined(from, s, to)
      PROVE  /\ \E k \in 0..n : l = <<at[k], at[k + 1]>>
             /\ to = None => \E k \in 0..(n - 1) : l = <<at[k], at[k + 1]>>
  <2>1. CASE \E k \in 1..(n - 1) : l = <<s[k].name, s[k + 1].name>>
    <3>1. PICK k \in 1..(n - 1) : l = <<s[k].name, s[k + 1].name>>
      BY <2>1
    <3>2. k \in 0..n /\ k \in 0..(n - 1) /\ at[k] = s[k].name /\ at[k + 1] = s[k + 1].name
      BY <1>1
    <3> HIDE DEF at
    <3> QED
      BY <3>1, <3>2
  <2>2. CASE n > 0 /\ from # None /\ l = <<from, s[1].name>>
    <3>2. 0 \in 0..n /\ 0 \in 0..(n - 1) /\ at[0] = from /\ at[0 + 1] = s[1].name
      BY <1>1, <2>2
    <3> HIDE DEF at
    <3> QED
      BY <2>2, <3>2
  <2>3. CASE n > 0 /\ to # None /\ l = <<s[n].name, to>>
    <3>2. n \in 0..n /\ at[n] = s[n].name /\ at[n + 1] = to
      BY <1>1, <2>3
    <3> HIDE DEF at
    <3> QED
      BY <2>3, <3>2
  <2>4. CASE n = 0 /\ from # None /\ to # None /\ l = <<from, to>>
    <3>2. 0 \in 0..n /\ at[0] = from /\ at[0 + 1] = to
      BY <1>1, <2>4
    <3> HIDE DEF at
    <3> QED
      BY <2>4, <3>2
  <2> QED
    BY <2>1, <2>2, <2>3, <2>4, <1>1, JoinedIs
<1>5. \A j, k \in 0..n : at[j] = at[k] => j = k
  BY <1>1, <1>2, <1>3
<1>6. \A j, k \in 0..n : at[j + 1] = at[k + 1] => j = k
  <2> SUFFICES ASSUME NEW j \in 0..n, NEW k \in 0..n, at[j + 1] = at[k + 1] PROVE j = k
    OBVIOUS
  <2>1. j + 1 \in 1..(n + 1) /\ k + 1 \in 1..(n + 1)
    BY <1>1
  <2>2. CASE j = n \/ k = n
    BY <2>2, <2>1, <1>1, <1>2
  <2>3. CASE j # n /\ k # n
    <3>1. j + 1 \in 1..n /\ k + 1 \in 1..n
      BY <2>3, <1>1
    <3>2. j + 1 = k + 1
      BY <3>1, <1>1, <1>3
    <3> QED
      BY <3>2
  <2> QED
    BY <2>2, <2>3
<1>7. n > 0 => at[n] = s[n].name
  BY <1>1
<1> HIDE DEF at
<1>8. ASSUME NEW l \in Joined(from, s, to), NEW m \in Joined(from, s, to), l[1] = m[1] \/ l[2] = m[2]
      PROVE  l = m
  <2>1. PICK j \in 0..n : l = <<at[j], at[j + 1]>>
    BY <1>4
  <2>2. PICK k \in 0..n : m = <<at[k], at[k + 1]>>
    BY <1>4
  <2>3. j = k
    BY <1>8, <2>1, <2>2, <1>5, <1>6
  <2> QED
    BY <2>1, <2>2, <2>3
<1>9. ASSUME n > 0, to = None, NEW l \in Joined(from, s, to), l[1] = s[n].name
      PROVE  FALSE
  <2>1. PICK j \in 0..(n - 1) : l = <<at[j], at[j + 1]>>
    BY <1>9, <1>4
  <2>2. j \in 0..n /\ n \in 0..n /\ j # n
    BY <1>1
  <2> QED
    BY <1>9, <2>1, <2>2, <1>5, <1>7
<1> QED
  BY <1>1, <1>8, <1>9

Final(s) == s[Len(s)]

\* The first and the last element of two lines.
LEMMA ConcatEnds ==
  ASSUME NEW s, NEW t, IsSeq(s), IsSeq(t)
  PROVE  /\ Len(t) > 0 => Final(s \o t) = Final(t)
         /\ Len(t) = 0 => s \o t = s
         /\ Len(s) > 0 => (s \o t)[1] = s[1]
         /\ Len(s) = 0 => s \o t = t
<1>1. PICK m \in Nat, n \in Nat : Len(s) = m /\ Len(t) = n
  BY SeqDomain
<1>2. /\ Len(s \o t) = Len(s) + Len(t)
      /\ \A k \in 1..Len(s) : (s \o t)[k] = s[k]
      /\ \A k \in 1..Len(t) : (s \o t)[Len(s) + k] = t[k]
  BY Concat
<1>3. Len(t) > 0 => Final(s \o t) = Final(t)
  <2> SUFFICES ASSUME n > 0 PROVE (s \o t)[m + n] = t[n]
    BY <1>1, <1>2 DEF Final
  <2>1. n \in 1..n
    OBVIOUS
  <2> QED
    BY <2>1, <1>1, <1>2
<1>4. Len(s) > 0 => (s \o t)[1] = s[1]
  <2> SUFFICES ASSUME m > 0 PROVE (s \o t)[1] = s[1]
    BY <1>1
  <2>1. 1 \in 1..m
    OBVIOUS
  <2> QED
    BY <2>1, <1>1, <1>2
<1>5. (Len(t) = 0 => s \o t = s) /\ (Len(s) = 0 => s \o t = t)
  BY DEF IsSeq
<1> QED
  BY <1>3, <1>4, <1>5

\* The first and the last element are elements.
LEMMA EndsOf ==
  ASSUME NEW s, IsSeq(s), Len(s) > 0
  PROVE  /\ s[1] \in Els(s) /\ Final(s) \in Els(s) /\ s # <<>>
         /\ \A from : Tail1(from, s) = Final(s).name
<1>1. PICK n \in Nat : Len(s) = n /\ DOMAIN s = 1..n
  BY SeqDomain
<1>2. 1 \in DOMAIN s /\ n \in DOMAIN s /\ s # <<>>
  BY <1>1
<1> QED
  BY <1>1, <1>2 DEF Els, Final, Tail1

\* Behind an empty line stands what stood there before.
LEMMA NoTail ==
  ASSUME NEW s, IsSeq(s), Len(s) = 0
  PROVE  s = <<>> /\ \A from : Tail1(from, s) = from
BY DEF Tail1, IsSeq

\* A line of plug-ins that fit each other, and fit their neighbours, is linked.
LEMMA JoinedLegal ==
  ASSUME NEW els, Distinct(els), NEW s, IsSeq(s), Els(s) \subseteq Els(els), Linkable(s),
         NEW from, NEW to,
         from # None => \E e \in Els(els) : /\ e.name = from
                                            /\ Len(s) > 0 => CanLink(e.plugin, s[1].plugin),
         to # None => Len(s) > 0 /\ \E e \in Els(els) : e.name = to /\ CanLink(Final(s).plugin, e.plugin)
  PROVE  \A l \in Joined(from, s, to) : ~ Refused(els, l)
<1> SUFFICES ASSUME NEW l \in Joined(from, s, to) PROVE ~ Refused(els, l)
  OBVIOUS
<1>1. PICK n \in Nat : Len(s) = n /\ DOMAIN s = 1..n
  BY SeqDomain
<1>2. \A k \in 1..n : s[k] \in Els(els)
  BY <1>1 DEF Els
<1>3. CASE \E k \in 1..(Len(s) - 1) : l = <<s[k].name, s[k + 1].name>>
  <2>1. PICK k \in 1..(n - 1) : l = <<s[k].name, s[k + 1].name>>
    BY <1>3, <1>1
  <2>2. k \in 1..n /\ k + 1 \in 1..n
    OBVIOUS
  <2>3. CanLink(s[k].plugin, s[k + 1].plugin)
    BY <1>1 DEF Linkable
  <2> QED
    BY <2>1, <2>2, <2>3, <1>2, RefusedIff
<1>4. CASE Len(s) > 0 /\ from # None /\ l = <<from, s[1].name>>
  <2>1. 1 \in 1..n
    BY <1>1, <1>4
  <2>2. PICK e \in Els(els) : e.name = from /\ CanLink(e.plugin, s[1].plugin)
    BY <1>4
  <2> QED
    BY <2>1, <2>2, <1>4, <1>2, RefusedIff
<1>5. CASE Len(s) > 0 /\ to # None /\ l = <<s[Len(s)].name, to>>
  <2>1. n \in 1..n
    BY <1>1, <1>5
  <2>2. PICK e \in Els(els) : e.name = to /\ CanLink(s[n].plugin, e.plugin)
    BY <1>5, <1>1 DEF Final
  <2> QED
    BY <2>1, <2>2, <1>1, <1>5, <1>2, RefusedIff
<1>6. CASE Len(s) = 0 /\ from # None /\ to # None /\ l = <<from, to>>
  BY <1>6
<1> QED
  BY <1>3, <1>4, <1>5, <1>6, JoinedIs

\* A link between two elements that do not fit is refused.
LEMMA JoinedRefused ==
  ASSUME NEW els, Distinct(els), NEW s, IsSeq(s), Els(s) \subseteq Els(els),
         NEW k \in 1..(Len(s) - 1), ~ CanLink(s[k].plugin, s[k + 1].plugin), NEW from, NEW to
  PROVE  \E l \in Joined(from, s, to) : Refused(els, l)
<1>1. PICK n \in Nat : Len(s) = n /\ DOMAIN s = 1..n
  BY SeqDomain
<1>2. k \in DOMAIN s /\ k + 1 \in DOMAIN s
  BY <1>1
<1>3. s[k] \in Els(els) /\ s[k + 1] \in Els(els)
  BY <1>2 DEF Els
<1>4. <<s[k].name, s[k + 1].name>> \in Joined(from, s, to)
  BY DEF Joined
<1> QED
  BY <1>3, <1>4, RefusedIff

\* What ElementAdd and ElementLink do.
LEMMA AddIs ==
  ASSUME IsSeq(elements), NEW line, IsSeq(line), NEW lks, NEW prb, NEW next,
         Add(line, lks, prb, next)
  PROVE  /\ elements' = elements \o line /\ IsSeq(elements')
         /\ Els(elements') = Els(elements) \cup Els(line)
         /\ Names(elements') = Names(elements) \cup Names(line)
         /\ Plugins(elements') = Plugins(elements) \cup Plugins(line)
         /\ links' = links \cup lks /\ probes' = probes \cup prb
         /\ stage' = IF \/ NullElement \in Els(line)
                        \/ ~ Distinct(elements')
                        \/ \E l \in lks : Refused(elements', l)
                     THEN "aborted" ELSE next
<1>1. /\ elements' = elements \o line /\ links' = links \cup lks /\ probes' = probes \cup prb
      /\ stage' = IF \/ NullElement \in Els(line)
                     \/ Clash(elements')
                     \/ \E l \in lks : Refused(elements', l)
                  THEN "aborted" ELSE next
  BY DEF Add, Els
<1>2. /\ IsSeq(elements \o line)
      /\ Els(elements \o line) = Els(elements) \cup Els(line)
      /\ Names(elements \o line) = Names(elements) \cup Names(line)
      /\ Plugins(elements \o line) = Plugins(elements) \cup Plugins(line)
  BY Concat
<1>3. Clash(elements \o line) <=> ~ Distinct(elements \o line)
  BY <1>2, ClashIff
<1> QED
  BY <1>1, <1>2, <1>3

\* New names stay distinct from the old ones.
LEMMA AddDistinct ==
  ASSUME IsSeq(elements), Distinct(elements), NEW line, NEW N, NEW P, Line(line, N, P),
         N \cap Names(elements) = {}
  PROVE  Distinct(elements \o line)
<1>1. Line(elements, Names(elements), Plugins(elements))
  BY DEF Line
<1>2. Line(elements \o line, Names(elements) \cup N, Plugins(elements) \cup P)
  BY <1>1, LineConcat
<1> QED
  BY <1>2 DEF Line

\* A line whose names are patterns of A with the number id.
At(A, id) == {<<a, id>> : a \in A}
PLine(s, A, id, P) == Line(s, At(A, id), P)

\* Plug-ins that pass anything, with one pad on each side.
Pass == {"queue", "capsfilter", "videoconvert", "avdeinterlace", "videoscale", "aspectratiocrop",
         "videorate", "mfxvpp", "vaapipostproc", "gdkpixbufoverlay", "rsvgoverlay",
         "audioconvert", "volume", "videobox", "level", "cairooverlay", "audioresample"}

\* The name and the plug-in of an element.
LEMMA ElementIs ==
  ASSUME NEW p, NEW a, NEW id
  PROVE  Element(p, a, id).name = <<a, id>> /\ Element(p, a, id).plugin = p
BY DEF Element

\* The names of the patterns in A.
LEMMA AtIs ==
  ASSUME NEW A, NEW id
  PROVE  /\ \A n \in At(A, id) : n[1] \in A /\ n[2] = id /\ n = <<n[1], n[2]>>
         /\ \A a \in A : <<a, id>> \in At(A, id)
BY DEF At

\* The plug-ins that pass anything have one pad on each side.
LEMMA PassIs ==
  /\ Pass \cap DOMAIN Takes = {} /\ Pass \cap DOMAIN Offers = {}
  /\ Pass \cap ManySrc = {} /\ Pass \cap ManySink = {}
  /\ Soft(Pass) /\ "decodebin" \notin Pass
BY DEF Pass, Takes, Offers, ManySrc, ManySink, Soft

\* One element, by its pattern.
LEMMA POne ==
  ASSUME NEW p, NEW a, NEW id
  PROVE  PLine(<<Element(p, a, id)>>, {a}, id, {p})
<1>1. Line(<<Element(p, a, id)>>, {<<a, id>>}, {p})
  BY LineOne, ElementIs
<1>2. At({a}, id) = {<<a, id>>}
  BY DEF At
<1> QED
  BY <1>1, <1>2 DEF PLine

\* Two elements, by their patterns.
LEMMA PTwo ==
  ASSUME NEW p, NEW a, NEW q, NEW b, NEW id, a # b
  PROVE  PLine(<<Element(p, a, id), Element(q, b, id)>>, {a, b}, id, {p, q})
<1>1. Line(<<Element(p, a, id), Element(q, b, id)>>, {<<a, id>>, <<b, id>>}, {p, q})
  BY LineTwo, ElementIs
<1>2. At({a, b}, id) = {<<a, id>>, <<b, id>>}
  BY DEF At
<1> QED
  BY <1>1, <1>2 DEF PLine

\* No element.
LEMMA PEmpty ==
  ASSUME NEW A, NEW id, NEW P
  PROVE  PLine(<<>>, A, id, P)
BY LineEmpty DEF PLine

\* An optional line, by its patterns.
LEMMA PIf ==
  ASSUME NEW s, NEW A, NEW id, NEW P, PLine(s, A, id, P), NEW b
  PROVE  PLine(If(b, s), A, id, P)
BY LineIf DEF PLine

\* More patterns, more plug-ins.
LEMMA PWider ==
  ASSUME NEW s, NEW A, NEW id, NEW P, PLine(s, A, id, P), NEW B, NEW Q, A \subseteq B, P \subseteq Q
  PROVE  PLine(s, B, id, Q)
<1>1. At(A, id) \subseteq At(B, id)
  BY DEF At
<1> QED
  BY <1>1, LineWider DEF PLine

\* Two lines of different patterns.
LEMMA PConcat ==
  ASSUME NEW s, NEW A, NEW id, NEW P, PLine(s, A, id, P), NEW t, NEW B, NEW Q, PLine(t, B, id, Q),
         A \cap B = {}
  PROVE  PLine(s \o t, A \cup B, id, P \cup Q)
<1>1. At(A, id) \cap At(B, id) = {} /\ At(A, id) \cup At(B, id) = At(A \cup B, id)
  BY DEF At
<1> QED
  BY <1>1, LineConcat DEF PLine

\* What a line with patterns A holds.
LEMMA PLineIs ==
  ASSUME NEW s, NEW A, NEW id, NEW P, PLine(s, A, id, P)
  PROVE  /\ IsSeq(s) /\ Distinct(s) /\ Len(s) \in Nat
         /\ \A n \in Names(s) : n[1] \in A /\ n[2] = id /\ n = <<n[1], n[2]>>
         /\ \A e \in Els(s) : e.plugin \in P /\ e.name[1] \in A /\ e.name[2] = id
         /\ Line(s, At(A, id), P)
<1>1. IsSeq(s) /\ Distinct(s) /\ Names(s) \subseteq At(A, id) /\ Plugins(s) \subseteq P
  BY DEF PLine, Line
<1>2. Len(s) \in Nat
  BY <1>1, SeqDomain
<1>3. \A n \in Names(s) : n[1] \in A /\ n[2] = id /\ n = <<n[1], n[2]>>
  BY <1>1, AtIs
<1>4. \A e \in Els(s) : e.name \in Names(s) /\ e.plugin \in Plugins(s)
  BY ElsOf
<1> QED
  BY <1>1, <1>2, <1>3, <1>4 DEF PLine

\* One or two elements that pass anything, optional or not.
LEMMA PassOne ==
  ASSUME NEW p \in Pass, NEW a, NEW id, NEW b
  PROVE  /\ PLine(<<Element(p, a, id)>>, {a}, id, Pass)
         /\ PLine(If(b, <<Element(p, a, id)>>), {a}, id, Pass)
         /\ Len(<<Element(p, a, id)>>) = 1
<1>1. PLine(<<Element(p, a, id)>>, {a}, id, {p})
  BY POne
<1>2. PLine(<<Element(p, a, id)>>, {a}, id, Pass)
  BY <1>1, PWider
<1>3. PLine(If(b, <<Element(p, a, id)>>), {a}, id, Pass)
  BY <1>2, PIf
<1> QED
  BY <1>2, <1>3, Literal

\* Two elements that pass anything, or none.
LEMMA PassTwo ==
  ASSUME NEW p \in Pass, NEW a, NEW q \in Pass, NEW c, NEW id, NEW b, a # c
  PROVE  /\ PLine(<<Element(p, a, id), Element(q, c, id)>>, {a, c}, id, Pass)
         /\ PLine(If(b, <<Element(p, a, id), Element(q, c, id)>>), {a, c}, id, Pass)
<1>1. PLine(<<Element(p, a, id), Element(q, c, id)>>, {a, c}, id, {p, q})
  BY PTwo
<1>2. PLine(<<Element(p, a, id), Element(q, c, id)>>, {a, c}, id, Pass)
  BY <1>1, PWider
<1>3. PLine(If(b, <<Element(p, a, id), Element(q, c, id)>>), {a, c}, id, Pass)
  BY <1>2, PIf
<1> QED
  BY <1>2, <1>3

\* Two lines that share a set of plug-ins.
LEMMA PJoin ==
  ASSUME NEW s, NEW A, NEW id, NEW P, PLine(s, A, id, P), NEW t, NEW B, PLine(t, B, id, P),
         A \cap B = {}, NEW C, A \cup B \subseteq C
  PROVE  PLine(s \o t, C, id, P) /\ Len(s \o t) = Len(s) + Len(t) /\ Len(s) \in Nat /\ Len(t) \in Nat
<1>1. PLine(s \o t, A \cup B, id, P \cup P)
  BY PConcat
<1>2. PLine(s \o t, C, id, P)
  BY <1>1, PWider
<1>3. IsSeq(s) /\ IsSeq(t) /\ Len(s) \in Nat /\ Len(t) \in Nat
  BY PLineIs
<1> QED
  BY <1>2, <1>3, Concat

-----------------------------------------------------------------------------
(***************************************************************************)
(* The lines of the stages.                                                *)
(***************************************************************************)
ConvertPats == {"video_convert", "deinterlace"}
RatePats    == {"videorate", "videorate_capsfilter"}
VideoPostPats == {"post_proc", "video_convert", "deinterlace", "videoscale", "videoscale_capsfilter",
                  "aspect_ratio", "videorate", "videorate_capsfilter", "videologo", "rsvg_videologo",
                  "video_convert_rsvg_videologo"}
AudioPostPats == {"audio_convert", "audio_convert_capsfilter", "volume"}

\* build_video_convert.
LEMMA VideoConvertLine ==
  ASSUME NEW d, NEW id
  PROVE  PLine(build_video_convert(d, id), ConvertPats, id, Pass) /\ Len(build_video_convert(d, id)) > 0
<1> DEFINE s == <<Element("videoconvert", "video_convert", id)>>
           t == If(d, <<Element("avdeinterlace", "deinterlace", id)>>)
<1>0. "videoconvert" \in Pass /\ "avdeinterlace" \in Pass
  BY DEF Pass
<1>1. PLine(s, {"video_convert"}, id, Pass) /\ Len(s) = 1
  BY <1>0, PassOne
<1>2. PLine(t, {"deinterlace"}, id, Pass)
  BY <1>0, PassOne
<1>3. build_video_convert(d, id) = s \o t
  BY DEF build_video_convert, If
<1> HIDE DEF s, t
<1>4. {"video_convert"} \cap {"deinterlace"} = {} /\ {"video_convert"} \cup {"deinterlace"} \subseteq ConvertPats
  BY DEF ConvertPats
<1> QED
  BY <1>1, <1>2, <1>3, <1>4, PJoin

\* build_video_framerate.
LEMMA FramerateLine ==
  ASSUME NEW id
  PROVE  PLine(build_video_framerate(id), RatePats, id, Pass)
<1>1. "videorate" \in Pass /\ "capsfilter" \in Pass
  BY DEF Pass
<1> QED
  BY <1>1, PassTwo DEF build_video_framerate, RatePats

\* build_video_scale.
LEMMA ScaleLine ==
  ASSUME NEW id
  PROVE  PLine(build_video_scale(id), {"videoscale", "videoscale_capsfilter"}, id, Pass)
<1>1. "videoscale" \in Pass /\ "capsfilter" \in Pass
  BY DEF Pass
<1> QED
  BY <1>1, PassTwo DEF build_video_scale

\* build_audio_converters.
LEMMA AudioConvertersLine ==
  ASSUME NEW v, NEW c, NEW id
  PROVE  /\ PLine(build_audio_converters(v, c, id), AudioPostPats, id, Pass)
         /\ Len(build_audio_converters(v, c, id)) > 0
<1> DEFINE s == <<Element("audioconvert", "audio_convert", id)>>
           t == If(c, <<Element("capsfilter", "audio_convert_capsfilter", id)>>)
           u == If(v, <<Element("volume", "volume", id)>>)
<1>0. "audioconvert" \in Pass /\ "capsfilter" \in Pass /\ "volume" \in Pass
  BY DEF Pass
<1>1. PLine(s, {"audio_convert"}, id, Pass) /\ Len(s) = 1
  BY <1>0, PassOne
<1>2. PLine(t, {"audio_convert_capsfilter"}, id, Pass)
  BY <1>0, PassOne
<1>3. PLine(u, {"volume"}, id, Pass)
  BY <1>0, PassOne
<1>4. build_audio_converters(v, c, id) = (s \o t) \o u
  BY DEF build_audio_converters, If
<1> HIDE DEF s, t, u
<1>5. PLine(s \o t, {"audio_convert", "audio_convert_capsfilter"}, id, Pass) /\ Len(s \o t) > 0
  BY <1>1, <1>2, PJoin
<1>6. PLine((s \o t) \o u, AudioPostPats, id, Pass) /\ Len((s \o t) \o u) > 0
  <2>1. {"audio_convert", "audio_convert_capsfilter"} \cup {"volume"} \subseteq AudioPostPats
    BY DEF AudioPostPats
  <2> QED
    BY <1>3, <1>5, <2>1, PJoin
<1> QED
  BY <1>4, <1>6

LogoPats == {"videologo", "rsvg_videologo", "video_convert_rsvg_videologo"}

\* The overlays of the two logos.
LEMMA LogosLine ==
  ASSUME NEW id
  PROVE  PLine(VideoLogos(id), LogoPats, id, Pass)
<1> DEFINE s == If(Opt("logo"), <<Element("gdkpixbufoverlay", "videologo", id)>>)
           t == If(Opt("rsvg_logo"), <<Element("rsvgoverlay", "rsvg_videologo", id),
                              Element("videoconvert", "video_convert_rsvg_videologo", id)>>)
<1>0. "gdkpixbufoverlay" \in Pass /\ "rsvgoverlay" \in Pass /\ "videoconvert" \in Pass
  BY DEF Pass
<1>1. PLine(s, {"videologo"}, id, Pass)
  BY <1>0, PassOne
<1>2. PLine(t, {"rsvg_videologo", "video_convert_rsvg_videologo"}, id, Pass)
  BY <1>0, PassTwo
<1>3. VideoLogos(id) = s \o t
  BY DEF VideoLogos
<1> HIDE DEF s, t
<1>4. {"videologo"} \cup {"rsvg_videologo", "video_convert_rsvg_videologo"} \subseteq LogoPats
  BY DEF LogoPats
<1> QED
  BY <1>1, <1>2, <1>3, <1>4, PJoin

\* Post-processing passes anything.
LEMMA VideoPostLine ==
  ASSUME NEW id
  PROVE  PLine(BuildVideoPostProc(id), VideoPostPats, id, Pass)
<1> DEFINE g == <<Element(IF IsMfxGpu THEN "mfxvpp" ELSE "vaapipostproc", "post_proc", id)>>
           a == build_video_convert(Opt("deinterlace"), id)
           b == If(Opt("size"), build_video_scale(id))
           c == If(Opt("aspect_ratio"), <<Element("aspectratiocrop", "aspect_ratio", id)>>)
           d == If(Opt("framerate"), build_video_framerate(id))
           w == ((a \o b) \o c) \o d
           x == IF IsGpu THEN g ELSE w
           B == ConvertPats \cup {"videoscale", "videoscale_capsfilter"}
           C == B \cup {"aspect_ratio"}
           F == C \cup RatePats
<1>0. "mfxvpp" \in Pass /\ "vaapipostproc" \in Pass /\ "aspectratiocrop" \in Pass
  BY DEF Pass
<1>1. PLine(g, {"post_proc"}, id, Pass)
  <2>1. (IF IsMfxGpu THEN "mfxvpp" ELSE "vaapipostproc") \in Pass
    BY <1>0
  <2> QED
    BY <2>1, PassOne
<1>2. PLine(a, ConvertPats, id, Pass)
  BY VideoConvertLine
<1>3. PLine(b, {"videoscale", "videoscale_capsfilter"}, id, Pass)
  BY ScaleLine, PIf
<1>4. PLine(c, {"aspect_ratio"}, id, Pass)
  BY <1>0, PassOne
<1>5. PLine(d, RatePats, id, Pass)
  BY FramerateLine, PIf
<1>6. BuildVideoPostProc(id) = If(class # "only_audio", x \o VideoLogos(id))
  BY DEF BuildVideoPostProc
<1> HIDE DEF g, a, b, c, d
<1>7. PLine(a \o b, B, id, Pass)
  BY <1>2, <1>3, PJoin DEF ConvertPats
<1>8. PLine((a \o b) \o c, C, id, Pass)
  BY <1>7, <1>4, PJoin DEF ConvertPats
<1>9. PLine(w, F, id, Pass)
  BY <1>8, <1>5, PJoin DEF ConvertPats, RatePats
<1>10. PLine(x, F \cup {"post_proc"}, id, Pass)
  <2>1. PLine(g, F \cup {"post_proc"}, id, Pass)
    BY <1>1, PWider
  <2>2. PLine(w, F \cup {"post_proc"}, id, Pass)
    BY <1>9, PWider
  <2> QED
    BY <2>1, <2>2
<1> HIDE DEF x
<1>11. PLine(x \o VideoLogos(id), VideoPostPats, id, Pass)
  <2>1. /\ (F \cup {"post_proc"}) \cap LogoPats = {}
        /\ (F \cup {"post_proc"}) \cup LogoPats \subseteq VideoPostPats
    BY DEF ConvertPats, RatePats, LogoPats, VideoPostPats
  <2> QED
    BY <1>10, <2>1, LogosLine, PJoin
<1> QED
  BY <1>6, <1>11, PIf

\* BuildAudioPostProc.
LEMMA AudioPostLine ==
  ASSUME NEW id
  PROVE  PLine(BuildAudioPostProc(id), AudioPostPats, id, Pass)
BY AudioConvertersLine, PIf DEF BuildAudioPostProc

-----------------------------------------------------------------------------
EncoderPats == {"video_codec", "x264enc_capsfilter_profile", "x264enc_capsfilter_stream_format"}

\* The line of an encoder: it takes anything and ends in the encoder or a filter.
LEMMA EncoderLine ==
  ASSUME NEW codec \in VideoEncoders, NEW args, NEW id
  PROVE  LET s == build_video_encoder(codec, args, id)
         IN  /\ PLine(s, EncoderPats, id, {codec, "capsfilter"})
             /\ Len(s) > 0 /\ Linkable(s)
             /\ s[1].plugin = codec /\ Final(s).plugin \in {codec, "capsfilter"}
<1> DEFINE P == {codec, "capsfilter"}
           a == <<Element(codec, "video_codec", id)>>
           b == IF codec # "x264enc" THEN <<>>
                ELSE If("profile" \in args, <<Element("capsfilter", "x264enc_capsfilter_profile", id)>>)
                  \o If("stream-format" \in args, <<Element("capsfilter", "x264enc_capsfilter_stream_format", id)>>)
           c == If("profile" \in args, <<Element("capsfilter", "x264enc_capsfilter_profile", id)>>)
           d == If("stream-format" \in args, <<Element("capsfilter", "x264enc_capsfilter_stream_format", id)>>)
           C == {"x264enc_capsfilter_profile", "x264enc_capsfilter_stream_format"}
<1>1. build_video_encoder(codec, args, id) = a \o b
  BY DEF build_video_encoder, make_video_encoder, setup_encoder_str_params, If
<1>2. PLine(a, {"video_codec"}, id, P) /\ Len(a) = 1 /\ a[1].plugin = codec
  <2>1. PLine(a, {"video_codec"}, id, {codec})
    BY POne
  <2>2. PLine(a, {"video_codec"}, id, P)
    BY <2>1, PWider
  <2> QED
    BY <2>2, ElementIs
<1>3. PLine(b, C, id, {"capsfilter"})
  <2>1. PLine(c, {"x264enc_capsfilter_profile"}, id, {"capsfilter"})
    BY POne, PIf
  <2>2. PLine(d, {"x264enc_capsfilter_stream_format"}, id, {"capsfilter"})
    BY POne, PIf
  <2>3. b = IF codec # "x264enc" THEN <<>> ELSE c \o d
    OBVIOUS
  <2> HIDE DEF b, c, d
  <2>4. PLine(c \o d, C, id, {"capsfilter"})
    BY <2>1, <2>2, PJoin
  <2> QED
    BY <2>3, <2>4, PEmpty
<1> HIDE DEF a, b
<1>4. PLine(b, C, id, P)
  BY <1>3, PWider
<1>5. PLine(a \o b, EncoderPats, id, P) /\ Len(a \o b) > 0
  <2>1. {"video_codec"} \cap C = {} /\ {"video_codec"} \cup C \subseteq EncoderPats
    BY DEF EncoderPats
  <2> HIDE DEF C, P
  <2> QED
    BY <1>2, <1>4, <2>1, PJoin
<1>6. IsSeq(a) /\ IsSeq(b) /\ IsSeq(a \o b)
  BY <1>2, <1>4, <1>5, PLineIs
<1>7. (a \o b)[1].plugin = codec
  BY <1>2, <1>6, ConcatEnds
<1>8. Soft(P)
  BY DEF Soft, VideoEncoders, Takes
<1>9. Linkable(a \o b)
  BY <1>5, <1>8, PLineIs, SoftLine
<1>10. Final(a \o b).plugin \in P
  BY <1>5, <1>6, EndsOf, PLineIs
<1> QED
  BY <1>1, <1>5, <1>7, <1>9, <1>10

\* The three elements of mp3, or the one of aac.
LEMMA AudioEncoderIs ==
  ASSUME NEW id, cfg.aenc \in AudioEncoders
  PROVE  LET s == AudioEncoderLine(id)
             P == {cfg.aenc, "audioresample", "mpegaudioparse"}
         IN  /\ PLine(s, {"audioresample", "audio_codec", "mpegaudioparse"}, id, P)
             /\ Len(s) > 0 /\ Linkable(s)
             /\ s[1].plugin \notin DOMAIN Takes
             /\ Final(s).plugin = IF cfg.aenc = "lamemp3enc" THEN "mpegaudioparse" ELSE cfg.aenc
<1> DEFINE r == Element("audioresample", "audioresample", id)
           e == Element(cfg.aenc, "audio_codec", id)
           p == Element("mpegaudioparse", "mpegaudioparse", id)
           A == {"audioresample", "audio_codec", "mpegaudioparse"}
           P == {cfg.aenc, "audioresample", "mpegaudioparse"}
<1>1. AudioEncoderLine(id) = IF cfg.aenc = "lamemp3enc" THEN <<r, e>> \o <<p>> ELSE <<e>>
  <2>1. <<r, e, p>> = <<r, e>> \o <<p>>
    OBVIOUS
  <2> QED
    BY <2>1 DEF AudioEncoderLine, make_audio_encoder
<1>2. r.plugin = "audioresample" /\ e.plugin = cfg.aenc /\ p.plugin = "mpegaudioparse"
  BY ElementIs
<1>3. PLine(<<e>>, {"audio_codec"}, id, {cfg.aenc}) /\ PLine(<<p>>, {"mpegaudioparse"}, id, {"mpegaudioparse"})
  BY POne
<1>4. PLine(<<r, e>>, {"audioresample", "audio_codec"}, id, {"audioresample", cfg.aenc})
  BY PTwo
<1> HIDE DEF r, e, p
<1>5. CASE cfg.aenc = "lamemp3enc"
  <2> DEFINE s == <<r, e>>
             t == <<p>>
  <2>1. PLine(s \o t, A, id, P)
    <3>1. PLine(s, {"audioresample", "audio_codec"}, id, P) /\ PLine(t, {"mpegaudioparse"}, id, P)
      BY <1>3, <1>4, PWider
    <3> QED
      BY <3>1, PJoin
  <2>2. /\ IsSeq(s) /\ IsSeq(t) /\ Len(s) = 2 /\ Len(t) = 1
        /\ s[1] = r /\ Final(s) = e /\ t[1] = p /\ Final(t) = p
    BY Literal DEF Final
  <2>3. Linkable(t)
    BY LineOne
  <2>4. Linkable(s)
    BY <1>2, <1>5, <2>2 DEF Linkable, CanLink, Takes, Offers
  <2>5. CanLink(e.plugin, p.plugin)
    BY <1>2, <1>5 DEF CanLink, Takes, Offers
  <2> HIDE DEF s, t
  <2>6. Linkable(s \o t)
    BY <2>2, <2>3, <2>4, <2>5, LinkableConcat DEF Final
  <2>7. Len(s \o t) = 3 /\ (s \o t)[1] = r /\ Final(s \o t) = p
    <3>1. Len(s \o t) = Len(s) + Len(t)
      BY <2>2, Concat
    <3>2. Len(s) > 0 /\ Len(t) > 0
      BY <2>2
    <3>3. (s \o t)[1] = s[1] /\ Final(s \o t) = Final(t)
      BY <2>2, <3>2, ConcatEnds
    <3> QED
      BY <2>2, <3>1, <3>3
  <2>8. "audioresample" \notin DOMAIN Takes
    BY DEF Takes
  <2> QED
    BY <1>1, <1>2, <1>5, <2>1, <2>6, <2>7, <2>8 DEF s, t
<1>6. CASE cfg.aenc # "lamemp3enc"
  <2>1. PLine(<<e>>, A, id, P)
    BY <1>3, PWider
  <2>2. Linkable(<<e>>) /\ Len(<<e>>) = 1 /\ <<e>>[1] = e /\ Final(<<e>>) = e
    BY LineOne, Literal DEF Final
  <2>3. cfg.aenc \notin DOMAIN Takes
    BY DEF Takes, AudioEncoders
  <2> QED
    BY <1>1, <1>2, <1>6, <2>1, <2>2, <2>3
<1> QED
  BY <1>5, <1>6

ConvVideoPats == EncoderPats \cup {"video_parser", "video_tee"}
ConvAudioPats == {"audioresample", "audio_codec", "mpegaudioparse", "audio_parser", "audio_tee"}
ConvVideo == BuildVideoConverter(0) \o If(IsH264Encoder(cfg.venc), <<make_h264_parser(0)>>) \o <<VideoTee>>
ConvAudio == BuildAudioConverter(0) \o If(IsAACEncoder(cfg.aenc), <<make_aac_parser(0)>>) \o <<AudioTee>>

\* The parser of h264 fits behind the encoders of h264 and their filters.
LEMMA H264Links ==
  ASSUME NEW codec, IsH264Encoder(codec), NEW p \in {codec, "capsfilter"}
  PROVE  CanLink(p, "h264parse")
BY DEF IsH264Encoder, CanLink, Offers, Takes

\* The converters of a stream that encodes end in the tee of their medium.
LEMMA ConvVideoLine ==
  ASSUME cfg.venc \in VideoEncoders \/ class = "only_audio"
  PROVE  /\ PLine(ConvVideo, ConvVideoPats, 0, VideoEncoders \cup {"capsfilter", "h264parse", "tee"})
         /\ Len(ConvVideo) > 0 /\ Linkable(ConvVideo) /\ Final(ConvVideo) = VideoTee
<1> DEFINE P == VideoEncoders \cup {"capsfilter", "h264parse", "tee"}
           a == BuildVideoConverter(0)
           b == If(IsH264Encoder(cfg.venc), <<make_h264_parser(0)>>)
           t == <<VideoTee>>
           enc == build_video_encoder(cfg.venc, {"profile", "stream-format"} \cap cfg.opts, 0)
<1>1. class # "only_audio" =>
      /\ PLine(enc, EncoderPats, 0, {cfg.venc, "capsfilter"})
      /\ Linkable(enc) /\ Len(enc) > 0 /\ Final(enc).plugin \in {cfg.venc, "capsfilter"}
  BY EncoderLine
<1>2. /\ PLine(a, EncoderPats, 0, P) /\ Linkable(a)
      /\ Len(a) > 0 => Final(a).plugin \in {cfg.venc, "capsfilter"}
  <2>1. a = IF class # "only_audio" THEN enc ELSE <<>>
    BY DEF BuildVideoConverter, If
  <2> HIDE DEF enc, a
  <2>2. class # "only_audio" => PLine(enc, EncoderPats, 0, P)
    <3>1. class # "only_audio" => {cfg.venc, "capsfilter"} \subseteq P
      OBVIOUS
    <3> QED
      BY <1>1, <3>1, PWider
  <2>3. PLine(<<>>, EncoderPats, 0, P) /\ Linkable(<<>>) /\ Len(<<>>) = 0
    BY PEmpty, LineEmpty
  <2> QED
    BY <1>1, <2>1, <2>2, <2>3
<1>3. /\ PLine(b, {"video_parser"}, 0, P) /\ Linkable(b)
      /\ Len(b) > 0 => IsH264Encoder(cfg.venc) /\ b[1].plugin = "h264parse"
  <2> DEFINE h == make_h264_parser(0)
  <2>1. PLine(<<h>>, {"video_parser"}, 0, {"h264parse"}) /\ h.plugin = "h264parse"
    BY POne, ElementIs DEF make_h264_parser
  <2>2. b = IF IsH264Encoder(cfg.venc) THEN <<h>> ELSE <<>>
    BY DEF If
  <2> HIDE DEF h, b
  <2>3. PLine(<<h>>, {"video_parser"}, 0, P) /\ Linkable(<<h>>) /\ <<h>>[1] = h
    BY <2>1, PWider, LineOne
  <2>4. PLine(<<>>, {"video_parser"}, 0, P) /\ Linkable(<<>>) /\ Len(<<>>) = 0
    BY PEmpty, LineEmpty
  <2> QED
    BY <2>1, <2>2, <2>3, <2>4
<1>4. PLine(t, {"video_tee"}, 0, {"tee"}) /\ Linkable(t) /\ Len(t) = 1 /\ Final(t) = VideoTee
  BY POne, LineOne, Literal DEF VideoTee, Final
<1>5. ConvVideo = (a \o b) \o t
  BY DEF ConvVideo
<1> HIDE DEF a, b, t
<1>6. PLine(a \o b, EncoderPats \cup {"video_parser"}, 0, P) /\ Linkable(a \o b)
  <2>1. PLine(a \o b, EncoderPats \cup {"video_parser"}, 0, P)
    <3>1. EncoderPats \cap {"video_parser"} = {}
      BY DEF EncoderPats
    <3> HIDE DEF P
    <3> QED
      BY <1>2, <1>3, <3>1, PJoin
  <2>2. Len(a) > 0 /\ Len(b) > 0 => CanLink(a[Len(a)].plugin, b[1].plugin)
    BY <1>2, <1>3, H264Links DEF Final
  <2>3. IsSeq(a) /\ IsSeq(b)
    BY <1>2, <1>3, PLineIs
  <2> QED
    BY <1>2, <1>3, <2>1, <2>2, <2>3, LinkableConcat
<1>7. PLine((a \o b) \o t, ConvVideoPats, 0, P)
  <2>1. PLine(t, {"video_tee"}, 0, P)
    BY <1>4, PWider
  <2>2. /\ (EncoderPats \cup {"video_parser"}) \cap {"video_tee"} = {}
        /\ (EncoderPats \cup {"video_parser"}) \cup {"video_tee"} \subseteq ConvVideoPats
    BY DEF EncoderPats, ConvVideoPats
  <2> HIDE DEF P
  <2> QED
    BY <1>6, <2>1, <2>2, PJoin
<1>8. IsSeq(a \o b) /\ IsSeq(t)
  BY <1>6, <1>4, PLineIs
<1>9. Linkable((a \o b) \o t)
  <2>1. Soft({"tee"})
    BY DEF Soft, Takes
  <2> QED
    BY <1>4, <1>6, <1>8, <2>1, PLineIs, SoftConcat
<1>10. Len((a \o b) \o t) > 0 /\ Final((a \o b) \o t) = VideoTee
  <2>1. Len((a \o b) \o t) = Len(a \o b) + Len(t) /\ Len(a \o b) \in Nat
    BY <1>8, Concat, SeqDomain
  <2> QED
    BY <2>1, <1>4, <1>8, ConcatEnds
<1> QED
  BY <1>5, <1>7, <1>9, <1>10

\* The line of BuildConverter for audio.
LEMMA ConvAudioLine ==
  ASSUME cfg.aenc \in AudioEncoders \/ class = "only_video"
  PROVE  /\ PLine(ConvAudio, ConvAudioPats, 0, AudioEncoders \cup {"audioresample", "mpegaudioparse", "aacparse", "tee"})
         /\ Len(ConvAudio) > 0 /\ Linkable(ConvAudio) /\ Final(ConvAudio) = AudioTee
<1> DEFINE P == AudioEncoders \cup {"audioresample", "mpegaudioparse", "aacparse", "tee"}
           A == {"audioresample", "audio_codec", "mpegaudioparse"}
           a == BuildAudioConverter(0)
           b == If(IsAACEncoder(cfg.aenc), <<make_aac_parser(0)>>)
           t == <<AudioTee>>
           enc == AudioEncoderLine(0)
<1>1. class # "only_video" =>
      /\ PLine(enc, A, 0, {cfg.aenc, "audioresample", "mpegaudioparse"})
      /\ Linkable(enc) /\ Len(enc) > 0
      /\ Final(enc).plugin = IF cfg.aenc = "lamemp3enc" THEN "mpegaudioparse" ELSE cfg.aenc
  BY AudioEncoderIs
<1>2. /\ PLine(a, A, 0, P) /\ Linkable(a)
      /\ Len(a) > 0 => Final(a).plugin = IF cfg.aenc = "lamemp3enc" THEN "mpegaudioparse" ELSE cfg.aenc
  <2>1. a = IF class # "only_video" THEN enc ELSE <<>>
    BY DEF BuildAudioConverter, If
  <2> HIDE DEF enc, a
  <2>2. class # "only_video" => PLine(enc, A, 0, P)
    <3>1. class # "only_video" => {cfg.aenc, "audioresample", "mpegaudioparse"} \subseteq P
      OBVIOUS
    <3> QED
      BY <1>1, <3>1, PWider
  <2>3. PLine(<<>>, A, 0, P) /\ Linkable(<<>>) /\ Len(<<>>) = 0
    BY PEmpty, LineEmpty
  <2> QED
    BY <1>1, <2>1, <2>2, <2>3
<1>3. /\ PLine(b, {"audio_parser"}, 0, P) /\ Linkable(b)
      /\ Len(b) > 0 => IsAACEncoder(cfg.aenc) /\ b[1].plugin = "aacparse"
  <2> DEFINE h == make_aac_parser(0)
  <2>1. PLine(<<h>>, {"audio_parser"}, 0, {"aacparse"}) /\ h.plugin = "aacparse"
    BY POne, ElementIs DEF make_aac_parser
  <2>2. b = IF IsAACEncoder(cfg.aenc) THEN <<h>> ELSE <<>>
    BY DEF If
  <2> HIDE DEF h, b
  <2>3. PLine(<<h>>, {"audio_parser"}, 0, P) /\ Linkable(<<h>>) /\ <<h>>[1] = h
    BY <2>1, PWider, LineOne
  <2>4. PLine(<<>>, {"audio_parser"}, 0, P) /\ Linkable(<<>>) /\ Len(<<>>) = 0
    BY PEmpty, LineEmpty
  <2> QED
    BY <2>1, <2>2, <2>3, <2>4
<1>4. PLine(t, {"audio_tee"}, 0, {"tee"}) /\ Linkable(t) /\ Len(t) = 1 /\ Final(t) = AudioTee
  BY POne, LineOne, Literal DEF AudioTee, Final
<1>5. ConvAudio = (a \o b) \o t
  BY DEF ConvAudio
<1> HIDE DEF a, b, t
<1>6. PLine(a \o b, A \cup {"audio_parser"}, 0, P) /\ Linkable(a \o b)
  <2>1. PLine(a \o b, A \cup {"audio_parser"}, 0, P)
    <3>1. A \cap {"audio_parser"} = {}
      OBVIOUS
    <3> HIDE DEF P, A
    <3> QED
      BY <1>2, <1>3, <3>1, PJoin
  <2>2. Len(a) > 0 /\ Len(b) > 0 => CanLink(a[Len(a)].plugin, b[1].plugin)
    BY <1>2, <1>3 DEF Final, IsAACEncoder, CanLink, Offers, Takes
  <2>3. IsSeq(a) /\ IsSeq(b)
    BY <1>2, <1>3, PLineIs
  <2> QED
    BY <1>2, <1>3, <2>1, <2>2, <2>3, LinkableConcat
<1>7. PLine((a \o b) \o t, ConvAudioPats, 0, P)
  <2>1. PLine(t, {"audio_tee"}, 0, P)
    BY <1>4, PWider
  <2>2. /\ (A \cup {"audio_parser"}) \cap {"audio_tee"} = {}
        /\ (A \cup {"audio_parser"}) \cup {"audio_tee"} \subseteq ConvAudioPats
    BY DEF ConvAudioPats
  <2> HIDE DEF P, A
  <2> QED
    BY <1>6, <2>1, <2>2, PJoin
<1>8. IsSeq(a \o b) /\ IsSeq(t)
  BY <1>6, <1>4, PLineIs
<1>9. Linkable((a \o b) \o t)
  <2>1. Soft({"tee"})
    BY DEF Soft, Takes
  <2> QED
    BY <1>4, <1>6, <1>8, <2>1, PLineIs, SoftConcat
<1>10. Len((a \o b) \o t) > 0 /\ Final((a \o b) \o t) = AudioTee
  <2>1. Len((a \o b) \o t) = Len(a \o b) + Len(t) /\ Len(a \o b) \in Nat
    BY <1>8, Concat, SeqDomain
  <2> QED
    BY <2>1, <1>4, <1>8, ConcatEnds
<1> QED
  BY <1>5, <1>7, <1>9, <1>10

Pays == {"rtph264pay", "rtph265pay", "rtpmp2tpay", "rtpmp4apay", "rtpac3pay"}
Codecs == {"h264", "h265", "mpeg"}

\* Payloaders offer what the rtp muxer takes; nothing else but it is particular.
LEMMA PayIs ==
  /\ \A p \in Pays : CanLink(p, "rtpmux")
  /\ \A p : p \notin DOMAIN Offers => \A q : CanLink(p, q)
  /\ "queue" \notin DOMAIN Offers /\ "tee" \notin DOMAIN Offers
<1>1. ASSUME NEW p \in Pays PROVE CanLink(p, "rtpmux")
  BY DEF Pays, CanLink, Offers, Takes
<1>2. "queue" \notin DOMAIN Offers /\ "tee" \notin DOMAIN Offers
  BY DEF Offers
<1> QED
  BY <1>1, <1>2 DEF CanLink

\* A line of one element: its ends, and what it holds.
LEMMA SingleIs ==
  ASSUME NEW e, NEW s, s = <<e>>
  PROVE  /\ IsSeq(s) /\ Len(s) = 1 /\ Len(s) > 0 /\ s[1] = e /\ Final(s) = e
         /\ Linkable(s) /\ Els(s) = {e} /\ e.name \in Names(s)
<1>1. IsSeq(s) /\ Len(s) = 1 /\ Els(s) = {e}
  BY Literal
<1>2. s[1] = e
  OBVIOUS
<1>3. Final(s) = e
  BY <1>1, <1>2 DEF Final
<1>4. e.name \in Names(s)
  BY <1>1, ElsOf
<1>5. Linkable(s)
  BY LineOne
<1> QED
  BY <1>1, <1>2, <1>3, <1>4, <1>5

\* A queue and, for udp, a payloader.
Branch(a, p, b, scheme, id) ==
    <<Element("queue", a, id)>> \o IF scheme = "udp" THEN <<Element(p, b, id)>> ELSE <<>>

IsBranch(u, a, p, b, scheme, id) ==
    /\ PLine(u, {a, b}, id, {"queue", p})
    /\ scheme # "udp" => PLine(u, {a}, id, {"queue"})
    /\ Len(u) > 0 /\ Linkable(u) /\ u[1].plugin = "queue"
    /\ Final(u).plugin = IF scheme = "udp" THEN p ELSE "queue"
    /\ scheme = "udp" => <<b, id>> \in Names(u)

\* The names, the plug-ins and the ends of such a branch.
LEMMA BranchLine ==
  ASSUME NEW a, NEW id, NEW scheme, NEW p, NEW b, a # b
  PROVE  IsBranch(Branch(a, p, b, scheme, id), a, p, b, scheme, id)
<1> DEFINE u == Branch(a, p, b, scheme, id)
<1> SUFFICES IsBranch(u, a, p, b, scheme, id)
  OBVIOUS
<1> DEFINE s == <<Element("queue", a, id)>>
           t == IF scheme = "udp" THEN <<Element(p, b, id)>> ELSE <<>>
           e == Element("queue", a, id)
           f == Element(p, b, id)
<1>1. e.plugin = "queue" /\ f.plugin = p /\ f.name = <<b, id>>
  BY ElementIs
<1>2. PLine(s, {a}, id, {"queue"}) /\ PLine(<<f>>, {b}, id, {p})
  BY POne
<1>3. s = <<e>> /\ t = IF scheme = "udp" THEN <<f>> ELSE <<>>
  BY DEF If
<1>9. u = s \o t
  BY DEF Branch
<1> HIDE DEF e, f, s, t, u
<1>4. /\ IsSeq(s) /\ Len(s) = 1 /\ s[1] = e /\ Final(s) = e /\ Linkable(s)
      /\ Len(s) > 0
  BY <1>3, SingleIs
<1>5. CASE scheme = "udp"
  <2>1. t = <<f>> /\ IsSeq(t) /\ Len(t) = 1 /\ t[1] = f /\ Final(t) = f /\ Linkable(t) /\ Len(t) > 0
    BY <1>3, <1>5, SingleIs
  <2>2. PLine(s, {a}, id, {"queue", p}) /\ PLine(t, {b}, id, {"queue", p})
    BY <1>2, <2>1, PWider
  <2>3. PLine(s \o t, {a, b}, id, {"queue", p})
    BY <2>2, PJoin
  <2>4. CanLink(e.plugin, f.plugin)
    BY <1>1, PayIs
  <2>5. Linkable(s \o t)
    BY <1>4, <2>1, <2>4, LinkableConcat DEF Final
  <2>6. (s \o t)[1] = e /\ Final(s \o t) = f
    BY <1>4, <2>1, ConcatEnds
  <2>7. Len(s \o t) = Len(s) + Len(t) /\ Names(s \o t) = Names(s) \cup Names(t)
    BY <1>4, <2>1, Concat
  <2>9. Len(s \o t) > 0
    BY <2>7, <1>4, <2>1
  <2>8. f.name \in Names(t)
    BY <2>1, SingleIs
  <2> QED
    BY <1>1, <1>4, <1>5, <2>1, <2>3, <2>5, <2>6, <2>7, <2>8, <2>9, <1>9 DEF IsBranch
<1>6. CASE scheme # "udp"
  <2>1. t = <<>> /\ IsSeq(t) /\ Len(t) = 0
    BY <1>3, <1>6, Literal
  <2>2. s \o t = s
    BY <1>4, <2>1, ConcatEnds
  <2>3. PLine(s, {a, b}, id, {"queue", p})
    BY <1>2, PWider
  <2> QED
    BY <1>1, <1>2, <1>4, <1>6, <2>2, <2>3, <1>9 DEF IsBranch
<1> QED
  BY <1>5, <1>6

\* VideoBranch, for every scheme.
LEMMA VideoBranchLine ==
  ASSUME NEW i, NEW scheme
  PROVE  LET s == VideoBranch(i, scheme)
         IN  /\ PLine(s, {"video_tee_queue", "video_pay"}, i, {"queue"} \cup Pays)
             /\ Len(s) > 0 /\ Linkable(s) /\ s[1].plugin = "queue"
             /\ scheme = "udp" => Final(s).plugin \in Pays
             /\ scheme = "udp" => <<"video_pay", i>> \in Names(s)
<1> DEFINE u == VideoBranch(i, scheme)
           p == [h264 |-> "rtph264pay", h265 |-> "rtph265pay", mpeg |-> "rtpmp2tpay"][OrElse(VideoCodecType, "h264")]
<1>1. OrElse(VideoCodecType, "h264") \in Codecs
  BY DEF OrElse, VideoCodecType, EncoderVideoCodec, ParserVideoCodec, Codecs
<1>2. p \in Pays
  BY <1>1 DEF Codecs, Pays
<1>3. u = Branch("video_tee_queue", p, "video_pay", scheme, i)
  BY DEF VideoBranch, make_video_pay, If, Branch
<1> HIDE DEF u, p
<1>4. /\ PLine(u, {"video_tee_queue", "video_pay"}, i, {"queue", p})
      /\ Len(u) > 0 /\ Linkable(u)
      /\ u[1].plugin = "queue"
      /\ Final(u).plugin = IF scheme = "udp" THEN p ELSE "queue"
      /\ scheme = "udp" => <<"video_pay", i>> \in Names(u)
  <2>1. IsBranch(u, "video_tee_queue", p, "video_pay", scheme, i)
    BY <1>3, BranchLine
  <2> QED
    BY <2>1 DEF IsBranch
<1>5. PLine(u, {"video_tee_queue", "video_pay"}, i, {"queue"} \cup Pays)
  BY <1>2, <1>4, PWider
<1> QED
  BY <1>2, <1>4, <1>5 DEF u

\* The name of the payloader of audio: that of the video one for mpeg audio.
PayPattern == IF OrElse(AudioCodecType, "mpeg") = "mpeg" THEN "video_pay" ELSE "audio_pay"

\* AudioBranch, for every scheme.
LEMMA AudioBranchLine ==
  ASSUME NEW i, NEW scheme
  PROVE  LET s == AudioBranch(i, scheme)
         IN  /\ PLine(s, {"audio_tee_queue", PayPattern}, i, {"queue"} \cup Pays)
             /\ scheme # "udp" => PLine(s, {"audio_tee_queue"}, i, {"queue"} \cup Pays)
             /\ Len(s) > 0 /\ Linkable(s) /\ s[1].plugin = "queue"
             /\ scheme = "udp" => Final(s).plugin \in Pays
             /\ scheme = "udp" => <<PayPattern, i>> \in Names(s)
<1> DEFINE u == AudioBranch(i, scheme)
           c == OrElse(AudioCodecType, "mpeg")
           p == IF c = "mpeg" THEN "rtpmp2tpay" ELSE [aac |-> "rtpmp4apay", ac3 |-> "rtpac3pay"][c]
<1>1. c \in {"aac", "ac3", "mpeg"}
  BY DEF OrElse, AudioCodecType, EncoderAudioCodec, ParserAudioCodec
<1>2. p \in Pays
  BY <1>1 DEF Pays
<1>3. make_audio_pay(c, i) = Element(p, PayPattern, i)
  BY DEF make_audio_pay, PayPattern
<1>4. u = Branch("audio_tee_queue", p, PayPattern, scheme, i)
  BY <1>3 DEF AudioBranch, If, Branch
<1>5. "audio_tee_queue" # PayPattern
  BY DEF PayPattern
<1> HIDE DEF u, p, c
<1>6. /\ PLine(u, {"audio_tee_queue", PayPattern}, i, {"queue", p})
      /\ scheme # "udp" => PLine(u, {"audio_tee_queue"}, i, {"queue"})
      /\ Len(u) > 0 /\ Linkable(u)
      /\ u[1].plugin = "queue"
      /\ Final(u).plugin = IF scheme = "udp" THEN p ELSE "queue"
      /\ scheme = "udp" => <<PayPattern, i>> \in Names(u)
  <2>1. IsBranch(u, "audio_tee_queue", p, PayPattern, scheme, i)
    BY <1>4, <1>5, BranchLine
  <2> QED
    BY <2>1 DEF IsBranch
<1>7. PLine(u, {"audio_tee_queue", PayPattern}, i, {"queue"} \cup Pays)
  BY <1>2, <1>6, PWider
<1>8. scheme # "udp" => PLine(u, {"audio_tee_queue"}, i, {"queue"} \cup Pays)
  BY <1>6, PWider
<1> QED
  BY <1>2, <1>6, <1>7, <1>8 DEF u

-----------------------------------------------------------------------------
(***************************************************************************)
(* The graph: who is linked to whom.                                       *)
(***************************************************************************)
Srcs(L) == {l[1] : l \in L}
Dsts(L) == {l[2] : l \in L}

\* The elements with more than one source pad, and with more than one sink pad.
ManyOut(els) == {e.name : e \in {x \in Els(els) : x.plugin \in ManySrc}}
ManyIn(els)  == {e.name : e \in {x \in Els(els) : x.plugin \in ManySink}}

\* Nothing is linked twice, on either side, but what is in S or in D.
Once(L, S, D) ==
    \A l, m \in L : l # m => /\ l[1] = m[1] => l[1] \in S
                             /\ l[2] = m[2] => l[2] \in D

SinkNames == {"sink", "video_sink", "audio_sink"}

Behind == {"postproc", "converter", "output", "built"}

\* What the probes report.
ProbeInv ==
    /\ \A p \in probes : p.el \in Names(elements)
    /\ stage # "aborted" =>
         /\ \A p \in probes : p.kind = "output" =>
              /\ class # "test_life" => p.el[2] = p.id /\ p.id < Len(cfg.output)
              /\ class = "test_life" => p.id = 0
         /\ \A e \in Els(elements) : e.name[1] \in SinkNames
              => \E p \in probes : p.el = e.name /\ p.kind = "output"

\* The decodebins, and the connections their pads will be linked to.
BinInv ==
    /\ \A e \in Els(elements) : e.plugin = "decodebin" =>
         /\ class \notin {"test_input", "display_input"}
         /\ e.name[2] = 0 \/ class \in {"device", "mosaic"}
         /\ class # "mosaic" /\ stage \in Behind => \A m \in cfg.have : Udb(m, 0) \in Names(elements)
         /\ class = "mosaic" => \A m \in cfg.have : Udb(m, e.name[2]) \in Names(elements)
    /\ Rtsp /\ stage \in {"udb"} \cup Behind =>
         <<"src", 0>> \in Names(elements) /\ Decodebin(0) \in Els(elements)

\* A connection is in the pipeline, and may be linked once more.
ConnOk(n, medium) ==
    /\ n \in Names(elements) \cup {None}
    /\ medium \in cfg.have => n # None
    /\ n \notin Srcs(links) \/ n \in ManyOut(elements)
    /\ medium \in cfg.have /\ stage \in {"output", "mosaic_output"} /\ ~ Recorder => n \in ManyOut(elements)

ConnInv ==
    \/ stage \in {"postproc", "converter", "output", "mosaic_output"}
    \/ stage = "udb" /\ class \in {"test_input", "display_input"}
    => /\ ConnOk(conn.video, "video") /\ ConnOk(conn.audio, "audio")
       /\ conn.video # None => conn.video # conn.audio

StageInv ==
    /\ stage \in {"input", "udb", "postproc", "converter", "output"} => class # "mosaic"
    /\ stage \in {"mosaic", "mosaic_input", "mosaic_output"} => class = "mosaic"
    /\ stage \in {"factory", "input", "mosaic"} => elements = <<>> /\ links = {} /\ probes = {}
    /\ stage \in {"mosaic_input"} => VideoMixer \in Els(elements) /\ AudioMixer \in Els(elements)
    /\ stage \in {"mosaic_input"} =>
         VideoMixer.name \notin Srcs(links) /\ AudioMixer.name \notin Srcs(links)

LinkInv ==
    /\ Srcs(links) \cup Dsts(links) \subseteq Names(elements)
    /\ stage # "aborted" => /\ Distinct(elements) /\ None \notin Names(elements)
                            /\ Once(links, ManyOut(elements), ManyIn(elements))

GraphInv ==
    /\ cfg \in ConfigType /\ stage \in Stages /\ out \in Nat /\ unexpected \in BOOLEAN
    /\ IsSeq(elements)
    /\ LinkInv /\ ProbeInv
    /\ stage # "aborted" => BinInv /\ ConnInv /\ StageInv

-----------------------------------------------------------------------------
(***************************************************************************)
(* The pads.                                                               *)
(***************************************************************************)
\* A pad of the medium that the configuration allows, among those added.
Tried(medium, b) == \E k \in Candidates(medium, b) : k <= emitted[b]

\* The pads are counted for the decodebins of a pipeline that was built.
CountInv ==
    /\ emitted = <<>> => inited = {} /\ fed = {} /\ rtp = 0 /\ rtpLinked = 0
    /\ emitted # <<>> =>
         /\ stage = "built" /\ Bins # {}
         /\ source \in [Bins -> Seq(Tracks)] /\ emitted \in [Bins -> Nat] /\ meters \in [Bins -> Nat]
         /\ \A b \in Bins : emitted[b] <= Len(Seen(b))
    /\ rtp \in Nat /\ (rtp = 0 => rtpLinked = 0) /\ (rtp > 0 => rtpLinked = 1)
    /\ rtp > 0 => Rtsp /\ emitted # <<>> /\ rtp <= Len(source[0])
    /\ inited \subseteq {"video", "audio"}

\* A pad is linked to the connection of its medium, which takes it.
PadIs(f, medium) ==
    /\ f.bin \in Bins /\ f.dest = Dest(medium, f.bin)
    /\ f.pad \in Candidates(medium, f.bin) /\ f.pad <= emitted[f.bin]
    /\ Accepts(Seen(f.bin)[f.pad])
    /\ class # "mosaic" => /\ medium \in inited
                           /\ \A j \in Candidates(medium, f.bin) : f.pad <= j

FedInv ==
    /\ \A f \in fed : \E medium \in cfg.have : PadIs(f, medium)
    /\ \A f, g \in fed : f.dest = g.dest => f = g

\* One input: a medium is initialized by its first pad, and linked if that fits.
InitedInv ==
    class # "mosaic" => \A medium \in cfg.have :
        /\ (\E b \in Bins : Tried(medium, b)) => medium \in inited
        /\ medium \in inited => \E b \in Bins : \E k \in Candidates(medium, b) :
             /\ \A j \in Candidates(medium, b) : k <= j
             /\ Accepts(Seen(b)[k]) => \E f \in fed : f.dest = Udb(medium, 0) /\ f.bin = b

\* A mosaic: every pad is tried, and the meters of a cell cover what is linked.
CellInv ==
    class = "mosaic" =>
        /\ \A b \in Bins, medium \in cfg.have : Tried(medium, b) => \E f \in fed : f.dest = Udb(medium, b)
        /\ LevelsInRange

PadInv == CountInv /\ (emitted # <<>> => FedInv /\ InitedInv /\ CellInv)

SoundInv == GraphInv /\ PadInv

\* The connections of the two media have different names.
LEMMA UdbIs ==
  ASSUME NEW m \in {"video", "audio"}, NEW n \in {"video", "audio"}, NEW a, NEW b
  PROVE  /\ Udb(m, a) = Udb(n, b) => m = n /\ a = b
         /\ Udb(m, a)[2] = a
         /\ Udb(m, a)[1] = "udb_conn_audio" <=> m = "audio"
BY DEF Udb

\* The media of a configuration.
LEMMA HaveIs ==
  ASSUME cfg \in ConfigType
  PROVE  cfg.have \subseteq {"video", "audio"}
BY DEF ConfigType

\* The decodebins, and that their connections exist.
LEMMA BinIs ==
  ASSUME NEW b \in Bins, BinInv, stage = "built"
  PROVE  /\ class \notin {"device", "mosaic"} => b = 0
         /\ \A m \in cfg.have : Dest(m, b) \in Names(elements)
<1>1. PICK e \in Els(elements) : e.plugin = "decodebin" /\ e.name[2] = b
  BY DEF Bins, Els
<1> QED
  BY <1>1 DEF BinInv, Dest, Behind

\* The first of some pads.
LEMMA FirstIs ==
  ASSUME NEW S \in SUBSET Nat, NEW k \in S, \A j \in S : k <= j
  PROVE  First(S) = k
<1>1. First(S) \in S /\ \A j \in S : First(S) <= j
  <2>1. \E i \in S : \A j \in S : i <= j
    OBVIOUS
  <2> QED
    BY <2>1 DEF First
<1>2. First(S) <= k /\ k <= First(S) /\ First(S) \in Nat /\ k \in Nat
  BY <1>1
<1> QED
  BY <1>2

\* A pad that may be linked is a pad of its decodebin.
LEMMA CandidatesIs ==
  ASSUME NEW m, NEW b, Seen(b) \in Seq(Tracks)
  PROVE  /\ Candidates(m, b) \subseteq Nat
         /\ \A k \in Candidates(m, b) : k \in 1..Len(Seen(b)) /\ Seen(b)[k].medium = m
BY DEF Candidates

\* The tracks a decodebin sees are tracks.
LEMMA SeenIs ==
  ASSUME CountInv, emitted # <<>>, NEW b \in Bins, GraphInv
  PROVE  Seen(b) \in Seq(Tracks)
<1>1. source[b] \in Seq(Tracks)
  BY DEF CountInv
<1>2. CASE ~ Rtsp
  BY <1>1, <1>2 DEF Seen
<1>3. CASE Rtsp /\ rtpLinked = 0
  BY <1>3 DEF Seen
<1>4. CASE Rtsp /\ rtpLinked # 0
  <2>1. stage = "built" /\ rtp \in Nat /\ rtpLinked = 1 /\ rtp > 0 /\ rtp <= Len(source[0])
    BY <1>4 DEF CountInv
  <2>2. b = 0
    <3>1. class \notin {"device", "mosaic"}
      BY <1>4 DEF Rtsp
    <3>2. BinInv
      BY <2>1 DEF GraphInv
    <3> QED
      BY <2>1, <3>1, <3>2, BinIs
  <2>3. source[0] \in Seq(Tracks) /\ 1 \in 1..Len(source[0])
    BY <1>1, <2>1, <2>2
  <2>4. source[0][1] \in Tracks
    BY <2>3
  <2>5. Seen(b) = <<source[0][1]>>
    BY <1>4, <2>1 DEF Seen
  <2> QED
    BY <2>4, <2>5
<1> QED
  BY <1>2, <1>3, <1>4

-----------------------------------------------------------------------------
(***************************************************************************)
(* The invariant implies the property.                                     *)
(***************************************************************************)
\* The invariant implies the types.
LEMMA InvTypes ==
  ASSUME SoundInv
  PROVE  PadTypeOK
<1>1. BuildTypeOK
  BY DEF SoundInv, GraphInv, LinkInv, ProbeInv, BuildTypeOK, Srcs, Dsts
<1>2. inited \subseteq {"video", "audio"} /\ rtpLinked \in 0..rtp
  BY DEF SoundInv, PadInv, CountInv
<1>3. ASSUME NEW f \in fed
      PROVE  f.dest \in Names(elements) /\ f.pad \in 1..emitted[f.bin]
  <2>1. CountInv /\ emitted # <<>> /\ stage = "built" /\ FedInv /\ GraphInv /\ BinInv
    BY DEF SoundInv, PadInv, CountInv, GraphInv
  <2>2. PICK m \in cfg.have : PadIs(f, m)
    BY <2>1 DEF FedInv
  <2>3. f.bin \in Bins /\ f.dest = Dest(m, f.bin) /\ f.pad \in Candidates(m, f.bin) /\ f.pad <= emitted[f.bin]
    BY <2>2 DEF PadIs
  <2>4. f.dest \in Names(elements)
    BY <2>1, <2>3, BinIs
  <2>5. f.pad \in 1..Len(Seen(f.bin)) /\ Seen(f.bin) \in Seq(Tracks)
    BY <2>1, <2>3, SeenIs, CandidatesIs
  <2>6. emitted[f.bin] \in Nat
    BY <2>1, <2>3 DEF CountInv
  <2> QED
    BY <2>3, <2>4, <2>5, <2>6
<1> QED
  BY <1>1, <1>2, <1>3 DEF PadTypeOK

\* The invariant implies that no pad has two peers.
LEMMA InvPeers ==
  ASSUME SoundInv
  PROVE  OnePeerPerPad
<1> SUFFICES ASSUME stage # "aborted", NEW l \in links, NEW k \in links, l # k
             PROVE  /\ l[1] = k[1] => PluginOf(l[1]) \in ManySrc
                    /\ l[2] = k[2] => PluginOf(l[2]) \in ManySink
  BY DEF OnePeerPerPad
<1>1. Distinct(elements) /\ Once(links, ManyOut(elements), ManyIn(elements))
  BY DEF SoundInv, GraphInv, LinkInv
<1>2. ASSUME l[1] = k[1] PROVE PluginOf(l[1]) \in ManySrc
  <2>1. l[1] \in ManyOut(elements)
    BY <1>1, <1>2 DEF Once
  <2>2. PICK e \in Els(elements) : e.name = l[1] /\ e.plugin \in ManySrc
    BY <2>1 DEF ManyOut
  <2> QED
    BY <1>1, <2>2, PluginIs
<1>3. ASSUME l[2] = k[2] PROVE PluginOf(l[2]) \in ManySink
  <2>1. l[2] \in ManyIn(elements)
    BY <1>1, <1>3 DEF Once
  <2>2. PICK e \in Els(elements) : e.name = l[2] /\ e.plugin \in ManySink
    BY <2>1 DEF ManyIn
  <2> QED
    BY <1>1, <2>2, PluginIs
<1> QED
  BY <1>2, <1>3

\* The invariant implies what the probes report, and that every sink has one.
LEMMA InvProbes ==
  ASSUME SoundInv
  PROVE  ProbesReportTheirOutput /\ SinksHaveProbes
<1>1. ProbeInv
  BY DEF SoundInv, GraphInv
<1>2. ProbesReportTheirOutput
  BY <1>1 DEF ProbesReportTheirOutput, ProbeInv
<1>3. SinksHaveProbes
  <2> SUFFICES ASSUME stage = "built", NEW k \in DOMAIN elements, elements[k].name[1] \in SinkNames
               PROVE  \E p \in probes : p.el = elements[k].name /\ p.kind = "output"
    BY DEF SinksHaveProbes, SinkNames
  <2>1. elements[k] \in Els(elements)
    BY DEF Els
  <2> QED
    BY <1>1, <2>1 DEF ProbeInv
<1> QED
  BY <1>2, <1>3

\* The invariant implies, when all tracks are there, that exactly what fits is linked.
LEMMA InvLinked ==
  ASSUME SoundInv
  PROVE  MediaAreLinked
<1> SUFFICES ASSUME Settled, NEW medium \in cfg.have
             PROVE  IF class = "device"
                    THEN (\E b \in Bins : Fits(medium, b)) <=> (\E b \in Bins : Linked(medium, b))
                    ELSE \A b \in Bins : Fits(medium, b) <=> Linked(medium, b)
  BY DEF MediaAreLinked
<1>1. /\ emitted # <<>> /\ stage = "built" /\ GraphInv /\ CountInv /\ FedInv /\ InitedInv /\ CellInv
      /\ BinInv /\ cfg.have \subseteq {"video", "audio"}
  BY HaveIs DEF Settled, SoundInv, PadInv, CountInv, GraphInv
<1>2. ASSUME NEW b \in Bins
      PROVE  /\ Candidates(medium, b) \subseteq Nat
             /\ \A k \in Candidates(medium, b) : k <= emitted[b]
  <2>1. Seen(b) \in Seq(Tracks) /\ emitted[b] = Len(Seen(b)) /\ emitted[b] \in Nat
    BY <1>1, SeenIs DEF Settled, CountInv
  <2> QED
    BY <2>1, CandidatesIs
<1>3. ASSUME NEW b \in Bins, Linked(medium, b) PROVE Fits(medium, b)
  <2>1. PICK f \in fed : f.dest = Dest(medium, b) /\ f.bin = b
    BY <1>3 DEF Linked
  <2>2. PICK m \in cfg.have : PadIs(f, m)
    BY <1>1 DEF FedInv
  <2>3. m = medium
    BY <2>1, <2>2, <1>1, UdbIs DEF PadIs, Dest
  <2>4. /\ f.pad \in Candidates(medium, b) /\ Accepts(Seen(b)[f.pad])
        /\ class # "mosaic" => \A j \in Candidates(medium, b) : f.pad <= j
    BY <2>1, <2>2, <2>3 DEF PadIs
  <2>5. class # "mosaic" => First(Candidates(medium, b)) = f.pad
    BY <2>4, <1>2, FirstIs
  <2> QED
    BY <2>4, <2>5 DEF Fits
<1>4. ASSUME NEW b \in Bins, Fits(medium, b), class = "mosaic" PROVE Linked(medium, b)
  <2>1. Tried(medium, b)
    BY <1>2, <1>4 DEF Fits, Tried
  <2>2. PICK f \in fed : f.dest = Udb(medium, b)
    BY <1>1, <1>4, <2>1 DEF CellInv
  <2>3. PICK m \in cfg.have : PadIs(f, m)
    BY <1>1 DEF FedInv
  <2>4. f.bin = b
    <3>1. Udb(m, f.bin) = Udb(medium, b)
      BY <2>2, <2>3, <1>4 DEF PadIs, Dest
    <3> QED
      BY <3>1, <1>1, UdbIs
  <2> QED
    BY <1>4, <2>2, <2>4 DEF Linked, Dest
<1>5. ASSUME NEW b \in Bins, Fits(medium, b), class # "mosaic"
      PROVE  \E c \in Bins : /\ class # "device" => c = b
                             /\ Linked(medium, c)
  <2>0. Tried(medium, b)
    <3>1. Candidates(medium, b) # {}
      BY <1>5 DEF Fits
    <3> QED
      BY <1>2, <3>1 DEF Tried
  <2>1. medium \in inited
    BY <1>1, <1>5, <2>0 DEF InitedInv
  <2>6. PICK c \in Bins : \E k \in Candidates(medium, c) :
          /\ \A j \in Candidates(medium, c) : k <= j
          /\ Accepts(Seen(c)[k]) => \E f \in fed : f.dest = Udb(medium, 0) /\ f.bin = c
    BY <1>1, <1>5, <2>1 DEF InitedInv
  <2>2. PICK k \in Candidates(medium, c) :
          /\ \A j \in Candidates(medium, c) : k <= j
          /\ Accepts(Seen(c)[k]) => \E f \in fed : f.dest = Udb(medium, 0) /\ f.bin = c
    BY <2>6
  <2>3. class # "device" => c = 0 /\ b = 0
    BY <1>1, <1>5, BinIs
  <2>4. Accepts(Seen(c)[k])
    <3>1. CASE class = "device"
      BY <3>1 DEF Accepts, Encodes
    <3>2. CASE class # "device"
      <4>1. First(Candidates(medium, c)) = k
        BY <2>2, <1>2, FirstIs
      <4> QED
        BY <1>5, <3>2, <2>3, <4>1 DEF Fits
    <3> QED
      BY <3>1, <3>2
  <2> QED
    BY <1>5, <2>2, <2>3, <2>4 DEF Linked, Dest
<1> QED
  BY <1>3, <1>4, <1>5

\* The invariant implies that cells are not mixed and levels stay in range.
LEMMA InvCells ==
  ASSUME SoundInv
  PROVE  CellsAreNotMixed /\ LevelsInRange
<1> SUFFICES ASSUME NEW f \in fed
             PROVE  /\ \A g \in fed : f.dest = g.dest => f = g
                    /\ class = "mosaic" => f.bin = f.dest[2]
                    /\ LevelsInRange
  BY DEF CellsAreNotMixed, LevelsInRange
<1>1. FedInv /\ CellInv /\ GraphInv /\ cfg.have \subseteq {"video", "audio"}
  BY HaveIs DEF SoundInv, PadInv, CountInv, GraphInv
<1>2. PICK m \in cfg.have : PadIs(f, m)
  BY <1>1 DEF FedInv
<1>3. class = "mosaic" => f.bin = f.dest[2]
  BY <1>1, <1>2, UdbIs DEF PadIs, Dest
<1>4. LevelsInRange
  BY <1>1 DEF CellInv, LevelsInRange
<1> QED
  BY <1>1, <1>3, <1>4 DEF FedInv

\* The invariant implies the property.
LEMMA InvSound ==
  ASSUME SoundInv
  PROVE  GraphIsSound
BY InvTypes, InvPeers, InvProbes, InvLinked, InvCells DEF GraphIsSound

\* Nothing is built after the building has ended.
LEMMA BuildEnds ==
  ASSUME Build
  PROVE  stage \notin Ended
BY DEF Build, CreateStream, BuildInput, BuildRtspRelayInput, BuildRtspEncodingInput, RtspInput,
       BuildDeviceInput, BuildTestInput, BuildDisplayInput, RawInput, BuildUdbConnections,
       BuildRelayUdbConnections, UdbConnections, KeepConnections, BuildPostProc, BuildConverter,
       BuildRelayConverter, BuildOutput, BuildTestOutput, BuildRecorderOutput, BuildDone, InitMosaic,
       MosaicInput, MosaicMix, BuildMosaicOutput, MosaicDone, GstDeclines, Ended

\* No pad is added before the pipeline was built.
LEMMA PadsWait ==
  ASSUME PadInv, Build, UNCHANGED pad_vars
  PROVE  PadInv'
<1>1. emitted = <<>>
  BY BuildEnds DEF PadInv, CountInv, Ended
<1> QED
  BY <1>1 DEF PadInv, CountInv, pad_vars

\* The pads leave the pipeline that was built alone, but for the probe of an rtsp source.
LEMMA GraphKept ==
  ASSUME GraphInv, UNCHANGED <<cfg, class, stage, elements, links, conn, out, unexpected>>,
         probes' = probes \/ (<<"src", 0>> \in Names(elements) /\ probes' = probes \cup {Probe(make_rtsp_src(0), 0, "input")})
  PROVE  GraphInv'
<1>1. (cfg \in ConfigType /\ stage \in Stages /\ out \in Nat /\ unexpected \in BOOLEAN /\ IsSeq(elements))'
  BY DEF GraphInv, IsSeq, Els
<1>2. Names(elements)' = Names(elements) /\ Els(elements)' = Els(elements)
  BY DEF Names, Els
<1>3. LinkInv'
  BY <1>2 DEF GraphInv, LinkInv, Srcs, Dsts, Distinct, Once, ManyOut, ManyIn
<1>4. ProbeInv'
  <2> DEFINE q == Probe(make_rtsp_src(0), 0, "input")
  <2>1. q.el = <<"src", 0>> /\ q.kind = "input"
    BY DEF Probe, make_rtsp_src, Element
  <2>2. ProbeInv
    BY DEF GraphInv
  <2> HIDE DEF q
  <2>3. probes \subseteq probes' /\ \A p \in probes' : p \in probes \/ (p = q /\ q.el \in Names(elements))
    BY <2>1 DEF q
  <2>4. \A p \in probes' : p.el \in Names(elements)
    BY <2>2, <2>3 DEF ProbeInv
  <2>5. ASSUME stage # "aborted", NEW p \in probes', p.kind = "output"
        PROVE  /\ class # "test_life" => p.el[2] = p.id /\ p.id < Len(cfg.output)
               /\ class = "test_life" => p.id = 0
    <3>1. p \in probes
      BY <2>1, <2>3, <2>5
    <3> QED
      BY <3>1, <2>2, <2>5 DEF ProbeInv
  <2>6. ASSUME stage # "aborted", NEW e \in Els(elements), e.name[1] \in SinkNames
        PROVE  \E p \in probes' : p.el = e.name /\ p.kind = "output"
    BY <2>2, <2>3, <2>6 DEF ProbeInv
  <2> QED
    BY <1>2, <2>4, <2>5, <2>6 DEF ProbeInv
<1>5. (stage # "aborted" => BinInv)'
  BY <1>2 DEF GraphInv, BinInv, Udb, Rtsp
<1>6. (stage # "aborted" => ConnInv)'
  <2>1. ManyOut(elements)' = ManyOut(elements) /\ Srcs(links)' = Srcs(links) /\ Recorder' = Recorder
    BY <1>2 DEF ManyOut, Srcs, Recorder
  <2> QED
    BY <1>2, <2>1 DEF GraphInv, ConnInv, ConnOk
<1>7. (stage # "aborted" => StageInv)'
  <2>1. Srcs(links)' = Srcs(links) /\ VideoMixer' = VideoMixer /\ AudioMixer' = AudioMixer
    BY DEF Srcs, VideoMixer, AudioMixer
  <2>2. probes' = probes \/ elements # <<>>
    BY DEF Names
  <2> QED
    BY <1>2, <2>1, <2>2 DEF GraphInv, StageInv
<1> QED
  BY <1>1, <1>3, <1>4, <1>5, <1>6, <1>7 DEF GraphInv

\* The tracks are found.
LEMMA PrerollKeeps ==
  ASSUME PadInv, Preroll
  PROVE  PadInv'
<1>1. /\ emitted = <<>> /\ inited = {} /\ fed = {} /\ rtp = 0 /\ rtpLinked = 0
      /\ inited' = {} /\ fed' = {} /\ rtp' = 0 /\ rtpLinked' = 0
      /\ stage' = stage /\ stage = "built" /\ Bins # {}
      /\ source' \in [Bins -> Sources] /\ emitted' = [b \in Bins |-> 0] /\ meters' = [b \in Bins |-> 0]
  BY DEF PadInv, CountInv, Preroll, build_vars
<1>2. Bins' = Bins /\ class' = class
  BY DEF Preroll, build_vars, Bins
<1>3. \A b \in Bins : Seen(b)' \in Seq(Tracks)
  <2> TAKE b \in Bins
  <2>1. source'[b] \in Seq(Tracks)
    BY <1>1, SourcesAssumption
  <2> QED
    BY <1>1, <2>1 DEF Seen
<1>4. CountInv'
  <2>1. \A b \in Bins : emitted'[b] <= Len(Seen(b)')
    BY <1>1, <1>3
  <2>2. source' \in [Bins -> Seq(Tracks)] /\ emitted' \in [Bins -> Nat] /\ meters' \in [Bins -> Nat]
    BY <1>1, SourcesAssumption
  <2> QED
    BY <1>1, <1>2, <2>1, <2>2 DEF CountInv
<1>5. FedInv'
  BY <1>1 DEF FedInv
<1>6. \A medium : \A b \in Bins : ~ Tried(medium, b)'
  <2> TAKE medium
  <2> TAKE b \in Bins
  <2>1. \A k \in Candidates(medium, b)' : k \in 1..Len(Seen(b)')
    BY <1>3 DEF Candidates
  <2> QED
    BY <1>1, <1>3, <2>1 DEF Tried
<1>7. InitedInv'
  BY <1>1, <1>2, <1>6 DEF InitedInv
<1>8. CellInv'
  BY <1>1, <1>2, <1>6 DEF CellInv, LevelsInRange
<1> QED
  BY <1>4, <1>5, <1>7, <1>8 DEF PadInv

\* A pad of an rtsp source: what the decodebin sees begins with the first of them.
LEMMA RtspPadKeeps ==
  ASSUME SoundInv, Rtsp, RtspPad
  PROVE  SoundInv'
<1>1. /\ emitted # <<>> /\ stage = "built" /\ rtp \in Nat /\ rtp < Len(source[0])
      /\ rtp' = rtp + 1 /\ rtpLinked' = IF rtpLinked = 0 THEN rtp + 1 ELSE rtpLinked
      /\ UNCHANGED <<cfg, class, stage, elements, links, conn, out, unexpected, source, emitted, inited, fed, meters>>
      /\ GraphInv /\ CountInv /\ FedInv /\ InitedInv /\ BinInv
  BY DEF SoundInv, PadInv, RtspPad, CountInv, GraphInv
<1>2. GraphInv'
  <2>1. <<"src", 0>> \in Names(elements)
    BY <1>1 DEF BinInv, Behind
  <2> QED
    BY <1>1, <2>1, GraphKept DEF RtspPad
<1>3. Bins' = Bins /\ class' = class /\ class # "mosaic" /\ Rtsp'
  BY <1>1 DEF Bins, Rtsp
<1>4. rtpLinked' = 1 /\ rtp' \in Nat /\ rtp' > 0 /\ rtp' <= Len(source[0]) /\ rtp' # 0
  <2>1. \A b \in Bins : b = 0
    BY <1>1, BinIs DEF Rtsp
  <2>2. Bins # {} /\ source \in [Bins -> Seq(Tracks)]
    BY <1>1 DEF CountInv
  <2>3. Len(source[0]) \in Nat
    BY <2>1, <2>2
  <2> QED
    BY <1>1, <2>3 DEF CountInv
<1>5. ASSUME NEW b \in Bins
      PROVE  \/ emitted[b] = 0 /\ Len(Seen(b)') = 1
             \/ Seen(b)' = Seen(b)
  <2>1. CASE rtpLinked = 0
    <3>1. Seen(b) = <<>> /\ Seen(b)' = <<source[0][1]>>
      BY <1>1, <1>3, <1>4, <2>1 DEF Seen
    <3>2. emitted[b] <= Len(Seen(b)) /\ emitted[b] \in Nat
      BY <1>1 DEF CountInv
    <3>3. Len(Seen(b)) = 0 /\ Len(Seen(b)') = 1
      BY <3>1
    <3> QED
      BY <3>2, <3>3
  <2>2. CASE rtpLinked # 0
    <3>1. rtpLinked' = rtpLinked
      BY <1>1, <2>2
    <3> QED
      BY <1>1, <1>3, <2>2, <3>1 DEF Seen
  <2> QED
    BY <2>1, <2>2
<1>6. CountInv'
  <2>1. \A b \in Bins : emitted[b] <= Len(Seen(b)')
    <3> TAKE b \in Bins
    <3>1. emitted[b] <= Len(Seen(b))
      BY <1>1 DEF CountInv
    <3> QED
      BY <3>1, <1>5
  <2> QED
    BY <1>1, <1>3, <1>4, <2>1 DEF CountInv
\* Where a pad was added nothing has changed.
<1>7. ASSUME NEW b \in Bins, emitted[b] # 0
      PROVE  /\ Seen(b)' = Seen(b)
             /\ \A m : Candidates(m, b)' = Candidates(m, b)
             /\ \A t : Accepts(t)' = Accepts(t)
  <2>1. Seen(b)' = Seen(b)
    BY <1>5, <1>7
  <2>2. \A t, k : Selected(t, k)' = Selected(t, k)
    BY <1>1 DEF Selected
  <2>3. \A t : Accepts(t)' = Accepts(t)
    BY <1>1 DEF Accepts, Encodes, Exposed, Continue
  <2> QED
    BY <2>1, <2>2, <2>3 DEF Candidates
<1>8. ASSUME NEW b \in Bins, NEW m, NEW k \in Candidates(m, b), k <= emitted[b]
      PROVE  emitted[b] # 0
  <2>1. Seen(b) \in Seq(Tracks) /\ emitted[b] \in Nat
    BY <1>1, SeenIs DEF CountInv
  <2>2. k \in 1..Len(Seen(b))
    BY <2>1, <1>8, CandidatesIs
  <2> QED
    BY <2>1, <2>2, <1>8
<1>9. FedInv'
  <2>1. ASSUME NEW f \in fed PROVE \E m \in cfg.have : PadIs(f, m)'
    <3>1. PICK m \in cfg.have : PadIs(f, m)
      BY <1>1 DEF FedInv
    <3>2. f.bin \in Bins /\ emitted[f.bin] # 0
      BY <3>1, <1>8 DEF PadIs
    <3>3. PadIs(f, m)'
      <4>1. Dest(m, f.bin)' = Dest(m, f.bin)
        BY <1>1 DEF Dest
      <4> QED
        BY <1>1, <1>3, <1>7, <3>1, <3>2, <4>1 DEF PadIs
    <3> QED
      BY <3>3
  <2> QED
    BY <1>1, <2>1 DEF FedInv
<1>10. InitedInv'
  <2> SUFFICES ASSUME NEW medium \in cfg.have
               PROVE  /\ (\E b \in Bins : Tried(medium, b)') => medium \in inited
                      /\ medium \in inited => \E b \in Bins : \E k \in Candidates(medium, b)' :
                           /\ \A j \in Candidates(medium, b)' : k <= j
                           /\ Accepts(Seen(b)[k])' => \E f \in fed : f.dest = Udb(medium, 0) /\ f.bin = b
    BY <1>1, <1>3 DEF InitedInv, Udb
  <2>1. ASSUME NEW b \in Bins, Tried(medium, b)' PROVE medium \in inited
    <3>1. PICK k \in Candidates(medium, b)' : k <= emitted[b]
      BY <2>1, <1>1 DEF Tried
    <3>2. emitted[b] \in Nat /\ Len(Seen(b)') \in Nat /\ k \in 1..Len(Seen(b)') /\ emitted[b] # 0
      <4>1. Seen(b)' = <<source[0][1]>>
        BY <1>1, <1>3, <1>4 DEF Seen
      <4>2. Len(Seen(b)') = 1 /\ DOMAIN Seen(b)' = 1..1
        BY <4>1
      <4>3. k \in 1..Len(Seen(b)')
        BY <4>2 DEF Candidates
      <4>4. emitted[b] \in Nat
        BY <1>1 DEF CountInv
      <4> QED
        BY <4>2, <4>3, <4>4, <3>1
    <3>3. k \in Candidates(medium, b)
      BY <3>1, <3>2, <1>7
    <3> QED
      BY <3>1, <3>3, <1>1, <1>3 DEF Tried, InitedInv
  <2>2. ASSUME medium \in inited
        PROVE  \E b \in Bins : \E k \in Candidates(medium, b)' :
                           /\ \A j \in Candidates(medium, b)' : k <= j
                           /\ Accepts(Seen(b)[k])' => \E f \in fed : f.dest = Udb(medium, 0) /\ f.bin = b
    <3>1. PICK b \in Bins : \E k \in Candidates(medium, b) :
                           /\ \A j \in Candidates(medium, b) : k <= j
                           /\ Accepts(Seen(b)[k]) => \E f \in fed : f.dest = Udb(medium, 0) /\ f.bin = b
      BY <2>2, <1>1, <1>3 DEF InitedInv
    <3>2. PICK k \in Candidates(medium, b) :
                           /\ \A j \in Candidates(medium, b) : k <= j
                           /\ Accepts(Seen(b)[k]) => \E f \in fed : f.dest = Udb(medium, 0) /\ f.bin = b
      BY <3>1
    <3>3. Seen(b)' = Seen(b)
      <4>1. Seen(b) \in Seq(Tracks)
        BY <1>1, SeenIs
      <4>2. k \in 1..Len(Seen(b))
        BY <4>1, CandidatesIs
      <4>3. rtpLinked # 0
        <5> SUFFICES ASSUME rtpLinked = 0 PROVE FALSE
          OBVIOUS
        <5>1. Seen(b) = <<>>
          BY DEF Seen
        <5> QED
          BY <5>1, <4>2
      <4> QED
        BY <1>1, <1>3, <4>3 DEF Seen
    <3>4. Candidates(medium, b)' = Candidates(medium, b)
      BY <1>1, <3>3 DEF Candidates, Selected
    <3>5. Accepts(Seen(b)[k])' = Accepts(Seen(b)[k])
      BY <1>1, <3>3 DEF Accepts, Encodes, Exposed, Continue
    <3> QED
      BY <3>2, <3>4, <3>5
  <2> QED
    BY <2>1, <2>2
<1>11. CellInv'
  BY <1>3 DEF CellInv
<1> QED
  BY <1>2, <1>6, <1>9, <1>10, <1>11 DEF SoundInv, PadInv

\* What one more pad changes.
LEMMA PadAddedIs ==
  ASSUME SoundInv, NEW b \in Bins, PadAdded(b)
  PROVE  LET k == emitted[b] + 1
             t == Seen(b)[k]
         IN  /\ GraphInv /\ CountInv /\ FedInv /\ InitedInv /\ CellInv /\ stage = "built"
             /\ cfg.have \subseteq {"video", "audio"} /\ emitted \in [Bins -> Nat] /\ meters \in [Bins -> Nat]
             /\ k \in 1..Len(Seen(b)) /\ Seen(b) \in Seq(Tracks) /\ t \in Tracks
             /\ emitted' = [emitted EXCEPT ![b] = k] /\ emitted # <<>> /\ emitted' # <<>>
             /\ EncodingPadAdded(b, k, t) \/ RelayPadAdded(b, k, t) \/ MosaicPadAdded(b, k, t)
             /\ UNCHANGED <<build_vars, source, rtp, rtpLinked>>
<1>1. /\ GraphInv /\ CountInv /\ FedInv /\ InitedInv /\ CellInv /\ stage = "built" /\ emitted # <<>>
      /\ emitted[b] < Len(Seen(b))
      /\ emitted \in [Bins -> Nat] /\ meters \in [Bins -> Nat]
  BY DEF SoundInv, PadInv, CountInv, PadAdded
<1>2. Seen(b) \in Seq(Tracks)
  BY <1>1, SeenIs
<1>3. emitted[b] + 1 \in 1..Len(Seen(b))
  BY <1>1, <1>2
<1>4. Seen(b)[emitted[b] + 1] \in Tracks
  BY <1>2, <1>3
<1>5. emitted' = [emitted EXCEPT ![b] = emitted[b] + 1]
  BY DEF PadAdded
<1>6. emitted' # <<>>
  <2>1. b \in DOMAIN emitted'
    BY <1>1, <1>5
  <2>2. DOMAIN <<>> = {}
    OBVIOUS
  <2> QED
    BY <2>1, <2>2
<1>7. cfg.have \subseteq {"video", "audio"}
  BY <1>1, HaveIs DEF GraphInv
<1> QED
  BY <1>1, <1>2, <1>3, <1>4, <1>5, <1>6, <1>7 DEF PadAdded

\* What it leaves alone.
LEMMA SameTracks ==
  ASSUME UNCHANGED <<build_vars, source, rtp, rtpLinked>>
  PROVE  /\ Bins' = Bins /\ Rtsp' = Rtsp /\ HasVideo' = HasVideo
         /\ \A b : Seen(b)' = Seen(b)
         /\ \A m, b : Candidates(m, b)' = Candidates(m, b)
         /\ \A t : Accepts(t)' = Accepts(t)
         /\ \A m, b : Dest(m, b)' = Dest(m, b) /\ Udb(m, b)' = Udb(m, b)
         /\ UNCHANGED <<cfg, class, stage, elements, links, probes, conn, out, unexpected>>
<1>1. UNCHANGED <<cfg, class, stage, elements, links, probes, conn, out, unexpected>>
  BY DEF build_vars
<1>2. Bins' = Bins /\ Rtsp' = Rtsp /\ HasVideo' = HasVideo
  BY <1>1 DEF Bins, Rtsp, HasVideo
<1>3. \A b : Seen(b)' = Seen(b)
  BY <1>2 DEF Seen
<1>4. \A t, k : Selected(t, k)' = Selected(t, k)
  BY <1>1 DEF Selected
<1>5. \A m, b : Candidates(m, b)' = Candidates(m, b)
  BY <1>3, <1>4 DEF Candidates
<1>6. \A t : Accepts(t)' = Accepts(t)
  BY <1>1 DEF Accepts, Encodes, Exposed, Continue
<1>7. \A m, b : Dest(m, b)' = Dest(m, b) /\ Udb(m, b)' = Udb(m, b)
  BY <1>1 DEF Dest, Udb
<1> QED
  BY <1>1, <1>2, <1>3, <1>5, <1>6, <1>7

\* One more pad counts.
LEMMA PadCounts ==
  ASSUME SoundInv, NEW b \in Bins, PadAdded(b), inited' \subseteq {"video", "audio"},
         meters' \in [Bins -> Nat]
  PROVE  CountInv'
<1>1. /\ CountInv /\ stage = "built" /\ emitted' = [emitted EXCEPT ![b] = emitted[b] + 1]
      /\ emitted \in [Bins -> Nat] /\ emitted # <<>> /\ emitted' # <<>>
      /\ emitted[b] + 1 \in 1..Len(Seen(b)) /\ UNCHANGED <<build_vars, source, rtp, rtpLinked>>
  BY PadAddedIs
<1>2. /\ Bins' = Bins /\ Rtsp' = Rtsp /\ \A c : Seen(c)' = Seen(c)
      /\ UNCHANGED <<stage, source, rtp, rtpLinked>>
  BY <1>1, SameTracks
<1>3. \A c \in Bins : emitted'[c] <= Len(Seen(c)')
  <2> TAKE c \in Bins
  <2>1. emitted[c] <= Len(Seen(c))
    BY <1>1 DEF CountInv
  <2> QED
    BY <1>1, <1>2, <2>1
<1>4. emitted' \in [Bins -> Nat]
  BY <1>1
<1> QED
  BY <1>1, <1>2, <1>3, <1>4 DEF CountInv

\* The pads before stay linked as they are.
LEMMA PadKept ==
  ASSUME SoundInv, NEW b \in Bins, PadAdded(b), NEW f, NEW m, PadIs(f, m), inited \subseteq inited'
  PROVE  PadIs(f, m)'
<1>1. /\ emitted' = [emitted EXCEPT ![b] = emitted[b] + 1] /\ emitted \in [Bins -> Nat]
      /\ UNCHANGED <<build_vars, source, rtp, rtpLinked>> /\ GraphInv /\ CountInv /\ emitted # <<>>
  BY PadAddedIs
<1>2. /\ Bins' = Bins /\ \A c : Seen(c)' = Seen(c)
      /\ \A n, c : Candidates(n, c)' = Candidates(n, c)
      /\ \A t : Accepts(t)' = Accepts(t)
      /\ \A n, c : Dest(n, c)' = Dest(n, c)
      /\ class' = class
  BY <1>1, SameTracks
<1>3. f.bin \in Bins /\ f.pad \in Candidates(m, f.bin) /\ f.pad <= emitted[f.bin]
  BY DEF PadIs
<1>4. f.pad \in Nat
  BY <1>1, <1>3, SeenIs, CandidatesIs
<1>5. f.pad <= emitted'[f.bin]
  BY <1>1, <1>3, <1>4
<1> QED
  BY <1>2, <1>3, <1>5 DEF PadIs

\* The pads tried so far, with the new one.
LEMMA TriedIs ==
  ASSUME SoundInv, NEW b \in Bins, PadAdded(b), NEW m, NEW c \in Bins, Tried(m, c)'
  PROVE  \/ Tried(m, c)
         \/ c = b /\ emitted[b] + 1 \in Candidates(m, b)
<1>1. /\ emitted' = [emitted EXCEPT ![b] = emitted[b] + 1] /\ emitted \in [Bins -> Nat]
      /\ UNCHANGED <<build_vars, source, rtp, rtpLinked>> /\ GraphInv /\ CountInv /\ emitted # <<>>
  BY PadAddedIs
<1>2. PICK k \in Candidates(m, c) : k <= emitted'[c]
  BY <1>1, SameTracks DEF Tried
<1>3. k \in Nat
  BY <1>1, SeenIs, CandidatesIs
<1>4. CASE k <= emitted[c]
  BY <1>4, <1>2 DEF Tried
<1>5. CASE ~ (k <= emitted[c])
  <2>1. c = b /\ k = emitted[b] + 1
    BY <1>1, <1>2, <1>3, <1>5
  <2> QED
    BY <1>2, <2>1
<1> QED
  BY <1>4, <1>5

\* HandleDecodeBinPadAdded of the streams with one input.
LEMMA LinkFirstKeeps ==
  ASSUME SoundInv, NEW b \in Bins, PadAdded(b), class # "mosaic",
         NEW k, k = emitted[b] + 1, NEW t, t = Seen(b)[k], LinkFirst(b, k, t)
  PROVE  PadInv'
<1> DEFINE new == [bin |-> b, pad |-> k, dest |-> Udb(t.medium, 0)]
<1>1. /\ GraphInv /\ CountInv /\ FedInv /\ InitedInv /\ stage = "built" /\ emitted # <<>>
      /\ cfg.have \subseteq {"video", "audio"} /\ emitted \in [Bins -> Nat] /\ meters \in [Bins -> Nat]
      /\ k \in 1..Len(Seen(b)) /\ Seen(b) \in Seq(Tracks) /\ t \in Tracks
      /\ emitted' = [emitted EXCEPT ![b] = k]
      /\ UNCHANGED <<build_vars, source, rtp, rtpLinked>>
  BY PadAddedIs
<1>2. /\ Bins' = Bins /\ \A c : Seen(c)' = Seen(c)
      /\ \A m, c : Candidates(m, c)' = Candidates(m, c)
      /\ \A x : Accepts(x)' = Accepts(x)
      /\ \A m, c : Dest(m, c)' = Dest(m, c) /\ Udb(m, c)' = Udb(m, c)
      /\ class' = class /\ cfg' = cfg
  BY <1>1, SameTracks
<1>3. meters' = meters
  BY DEF LinkFirst
<1>4. k \in Candidates(t.medium, b) <=> Selected(t, k)
  BY <1>1 DEF Candidates
<1>5. \A m : k \in Candidates(m, b) => m = t.medium
  BY DEF Candidates
<1>6. inited \subseteq {"video", "audio"}
  BY <1>1 DEF CountInv
<1>10. CASE ~ (t.medium \in cfg.have /\ t.medium \notin inited /\ Selected(t, k))
  <2>1. fed' = fed /\ inited' = inited
    BY <1>10 DEF LinkFirst
  <2>2. CountInv'
    BY <1>1, <1>3, <1>6, <2>1, PadCounts
  <2>3. FedInv'
    <3>1. \A f \in fed : \E m \in cfg.have : PadIs(f, m)'
      BY <1>1, <2>1, PadKept DEF FedInv
    <3> QED
      BY <1>1, <1>2, <2>1, <3>1 DEF FedInv
  <2>4. InitedInv'
    <3>1. ASSUME NEW m \in cfg.have, NEW c \in Bins, Tried(m, c)' PROVE m \in inited
      <4>1. CASE Tried(m, c)
        BY <1>1, <3>1, <4>1 DEF InitedInv
      <4>2. CASE c = b /\ k \in Candidates(m, b)
        BY <1>4, <1>5, <1>10, <4>2, <3>1
      <4> QED
        BY <4>1, <4>2, <3>1, TriedIs
    <3>2. ASSUME NEW m \in cfg.have, m \in inited
          PROVE  \E c \in Bins : \E j \in Candidates(m, c) :
                   /\ \A i \in Candidates(m, c) : j <= i
                   /\ Accepts(Seen(c)[j]) => \E f \in fed : f.dest = Udb(m, 0) /\ f.bin = c
      BY <1>1, <3>2 DEF InitedInv
    <3>3. \A m, c, j : Accepts(Seen(c)[j])' = Accepts(Seen(c)[j])
      BY <1>1 DEF Accepts, Encodes, Exposed, Continue, Seen, Rtsp, build_vars
    <3> QED
      BY <1>2, <2>1, <3>1, <3>2, <3>3 DEF InitedInv
  <2>5. CellInv'
    BY <1>2 DEF CellInv
  <2> QED
    BY <2>2, <2>3, <2>4, <2>5 DEF PadInv
<1>20. CASE t.medium \in cfg.have /\ t.medium \notin inited /\ Selected(t, k)
  <2> DEFINE m1 == t.medium
  <2>1. /\ inited' = inited \cup {m1} /\ m1 \in {"video", "audio"} /\ m1 \in cfg.have
        /\ fed' = IF (\E f \in fed : f.dest = Udb(m1, 0)) \/ ~ Accepts(t) THEN fed ELSE fed \cup {new}
    BY <1>20, <1>1 DEF LinkFirst, LinkPad
  <2>2. CountInv'
    BY <1>1, <1>3, <1>6, <2>1, PadCounts
  \* No pad of the medium came before: this is the first one.
  <2>3. \A c \in Bins : ~ Tried(m1, c)
    BY <1>1, <1>20 DEF InitedInv
  <2>4. k \in Candidates(m1, b) /\ \A j \in Candidates(m1, b) : k <= j
    <3>1. \A j \in Candidates(m1, b) : ~ (j <= emitted[b]) /\ j \in Nat
      BY <2>3, <1>1, CandidatesIs DEF Tried
    <3>2. emitted[b] \in Nat
      BY <1>1
    <3> QED
      BY <1>4, <1>20, <3>1, <3>2
  <2>5. \A f \in fed : f.dest # Udb(m1, 0)
    <3> SUFFICES ASSUME NEW f \in fed, f.dest = Udb(m1, 0) PROVE FALSE
      OBVIOUS
    <3>1. PICK m \in cfg.have : PadIs(f, m)
      BY <1>1 DEF FedInv
    <3>2. Udb(m, 0) = Udb(m1, 0) /\ m \in inited
      BY <3>1 DEF PadIs, Dest
    <3>3. m = m1
      BY <3>2, <2>1, <1>1, UdbIs
    <3> QED
      BY <3>2, <3>3, <1>20
  <2>6. /\ Accepts(t) => fed' = fed \cup {new}
        /\ ~ Accepts(t) => fed' = fed
    BY <2>1, <2>5
  <2>7. Accepts(t) => PadIs(new, m1)'
    <3>1. new.bin = b /\ new.pad = k /\ new.dest = Udb(m1, 0)
      OBVIOUS
    <3>2. Dest(m1, b)' = Udb(m1, 0)
      BY <1>2 DEF Dest
    <3>3. k <= emitted'[b]
      BY <1>1
    <3>4. Accepts(Seen(b)[k])' = Accepts(t)
      BY <1>1 DEF Accepts, Encodes, Exposed, Continue, Seen, Rtsp, build_vars
    <3> HIDE DEF new
    <3> QED
      BY <1>2, <2>1, <2>4, <3>1, <3>2, <3>3, <3>4 DEF PadIs
  <2>8. FedInv'
    <3>1. \A f \in fed : \E m \in cfg.have : PadIs(f, m)'
      <4>1. inited \subseteq inited'
        BY <2>1
      <4> QED
        BY <1>1, <4>1, PadKept DEF FedInv
    <3>2. \A f \in fed' : \E m \in cfg.have : PadIs(f, m)'
      BY <2>1, <2>6, <2>7, <3>1
    <3>3. \A f, g \in fed' : f.dest = g.dest => f = g
      <4>1. new.dest = Udb(m1, 0)
        OBVIOUS
      <4> HIDE DEF new
      <4> QED
        BY <1>1, <2>5, <2>6, <4>1 DEF FedInv
    <3> QED
      BY <1>2, <3>2, <3>3 DEF FedInv
  <2>9. InitedInv'
    <3>0. \A c, j : Accepts(Seen(c)[j])' = Accepts(Seen(c)[j])
      BY <1>1 DEF Accepts, Encodes, Exposed, Continue, Seen, Rtsp, build_vars
    <3>1. ASSUME NEW m \in cfg.have, NEW c \in Bins, Tried(m, c)' PROVE m \in inited'
      <4>1. CASE Tried(m, c)
        BY <1>1, <3>1, <4>1, <2>1 DEF InitedInv
      <4>2. CASE c = b /\ k \in Candidates(m, b)
        BY <1>5, <4>2, <2>1
      <4> QED
        BY <4>1, <4>2, <3>1, TriedIs
    <3>2. ASSUME NEW m \in cfg.have, m \in inited'
          PROVE  \E c \in Bins : \E j \in Candidates(m, c) :
                   /\ \A i \in Candidates(m, c) : j <= i
                   /\ Accepts(Seen(c)[j]) => \E f \in fed' : f.dest = Udb(m, 0) /\ f.bin = c
      <4>1. CASE m \in inited
        <5>1. fed \subseteq fed'
          BY <2>1
        <5>2. \E c \in Bins : \E j \in Candidates(m, c) :
                   /\ \A i \in Candidates(m, c) : j <= i
                   /\ Accepts(Seen(c)[j]) => \E f \in fed : f.dest = Udb(m, 0) /\ f.bin = c
          BY <1>1, <4>1 DEF InitedInv
        <5> HIDE DEF new
        <5> QED
          BY <5>1, <5>2
      <4>2. CASE m = m1
        <5>1. Accepts(Seen(b)[k]) => \E f \in fed' : f.dest = Udb(m, 0) /\ f.bin = b
          <6>1. new.dest = Udb(m1, 0) /\ new.bin = b
            OBVIOUS
          <6>2. Accepts(Seen(b)[k]) => new \in fed'
            BY <2>6
          <6> QED
            BY <4>2, <6>1, <6>2
        <5> QED
          BY <5>1, <2>4, <4>2
      <4> QED
        BY <4>1, <4>2, <3>2, <2>1
    <3> QED
      BY <1>2, <3>0, <3>1, <3>2 DEF InitedInv
  <2>10. CellInv'
    BY <1>2 DEF CellInv
  <2> QED
    BY <2>2, <2>8, <2>9, <2>10 DEF PadInv
<1> QED
  BY <1>10, <1>20

\* HandleDecodeBinPadAdded of a mosaic.
LEMMA MosaicKeeps ==
  ASSUME SoundInv, NEW b \in Bins, PadAdded(b), class = "mosaic",
         NEW k, k = emitted[b] + 1, NEW t, t = Seen(b)[k], MosaicPadAdded(b, k, t)
  PROVE  PadInv'
<1> DEFINE m1 == t.medium
           new == [bin |-> b, pad |-> k, dest |-> Udb(t.medium, b)]
<1>1. /\ GraphInv /\ CountInv /\ FedInv /\ CellInv /\ stage = "built" /\ emitted # <<>>
      /\ cfg.have \subseteq {"video", "audio"} /\ emitted \in [Bins -> Nat] /\ meters \in [Bins -> Nat]
      /\ k \in 1..Len(Seen(b)) /\ Seen(b) \in Seq(Tracks) /\ t \in Tracks
      /\ emitted' = [emitted EXCEPT ![b] = k]
      /\ UNCHANGED <<build_vars, source, rtp, rtpLinked>>
  BY PadAddedIs
<1>2. /\ Bins' = Bins /\ \A c : Seen(c)' = Seen(c)
      /\ \A m, c : Candidates(m, c)' = Candidates(m, c)
      /\ \A x : Accepts(x)' = Accepts(x)
      /\ \A m, c : Dest(m, c)' = Dest(m, c) /\ Udb(m, c)' = Udb(m, c)
      /\ class' = class /\ cfg' = cfg /\ HasVideo' = HasVideo
  BY <1>1, SameTracks
<1>3. k \in Candidates(m1, b) /\ \A m : k \in Candidates(m, b) => m = m1
  BY <1>1 DEF Candidates, Selected
<1>4. \A x : Accepts(x)
  BY DEF Accepts
<1>5. t.channels \in Nat
  BY <1>1 DEF Tracks
<1>6. inited' = inited /\ inited \subseteq {"video", "audio"}
  BY <1>1 DEF CountInv, MosaicPadAdded
<1>7. /\ meters' \in [Bins -> Nat]
      /\ \A c \in Bins : meters[c] <= meters'[c]
      /\ m1 = "audio" /\ HasAudio /\ HasVideo => t.channels <= meters'[b]
  <2>1. CASE m1 = "audio" /\ HasAudio /\ HasVideo
    <3>1. meters' = [meters EXCEPT ![b] = @ + t.channels]
      BY <2>1 DEF MosaicPadAdded
    <3> QED
      BY <3>1, <1>1, <1>5
  <2>2. CASE ~ (m1 = "audio" /\ HasAudio /\ HasVideo)
    <3>1. meters' = meters
      BY <2>2 DEF MosaicPadAdded
    <3> QED
      BY <3>1, <1>1, <2>2
  <2> QED
    BY <2>1, <2>2
<1>8. CountInv'
  BY <1>6, <1>7, PadCounts
<1>9. \A f \in fed : \E m \in cfg.have : PadIs(f, m)'
  BY <1>1, <1>6, PadKept DEF FedInv
<1>10. m1 \in cfg.have => PadIs(new, m1)'
  <2>1. new.bin = b /\ new.pad = k /\ new.dest = Udb(m1, b)
    OBVIOUS
  <2>2. Dest(m1, b)' = Udb(m1, b)
    BY <1>2 DEF Dest
  <2>3. k <= emitted'[b]
    BY <1>1
  <2>4. Accepts(Seen(b)[k])'
    BY <1>2 DEF Accepts
  <2> HIDE DEF new
  <2> QED
    BY <1>2, <1>3, <2>1, <2>2, <2>3, <2>4 DEF PadIs
<1>11. /\ \A f \in fed' : f \in fed \/ (m1 \in cfg.have /\ f = new)
       /\ \A f, g \in fed' : f.dest = g.dest => f = g
       /\ fed \subseteq fed'
       /\ m1 \in cfg.have => \E f \in fed' : f.dest = Udb(m1, b)
  <2>1. CASE m1 \in cfg.have
    <3>1. fed' = IF (\E f \in fed : f.dest = Udb(m1, b)) \/ ~ Accepts(t) THEN fed ELSE fed \cup {new}
      BY <2>1 DEF MosaicPadAdded, LinkPad
    <3>2. new.dest = Udb(m1, b)
      OBVIOUS
    <3> HIDE DEF new
    <3>3. CASE \E f \in fed : f.dest = Udb(m1, b)
      BY <1>1, <3>1, <3>3 DEF FedInv
    <3>4. CASE \A f \in fed : f.dest # Udb(m1, b)
      <4>1. fed' = fed \cup {new}
        BY <1>4, <3>1, <3>4
      <4> QED
        BY <1>1, <2>1, <3>2, <3>4, <4>1 DEF FedInv
    <3> QED
      BY <3>3, <3>4
  <2>2. CASE m1 \notin cfg.have
    <3>1. fed' = fed
      BY <2>2 DEF MosaicPadAdded
    <3> QED
      BY <1>1, <3>1, <2>2 DEF FedInv
  <2> QED
    BY <2>1, <2>2
<1> HIDE DEF new
<1>12. FedInv'
  BY <1>2, <1>9, <1>10, <1>11 DEF FedInv
<1>13. ASSUME NEW c \in Bins, NEW m \in cfg.have, Tried(m, c)'
       PROVE  \E f \in fed' : f.dest = Udb(m, c)
  <2>1. CASE Tried(m, c)
    BY <1>1, <1>11, <2>1 DEF CellInv
  <2>2. CASE c = b /\ k \in Candidates(m, b)
    BY <1>3, <1>11, <2>2
  <2> QED
    BY <2>1, <2>2, <1>13, TriedIs
<1>14. LevelsInRange'
  <2> SUFFICES ASSUME NEW f \in fed', f.dest[1] = "udb_conn_audio"
               PROVE  LevelValues(f)' <= meters'[f.bin]
    BY DEF LevelsInRange
  <2>0. LevelValues(f)' = IF HasVideo THEN Seen(f.bin)[f.pad].channels ELSE 0
    BY <1>2 DEF LevelValues
  <2>1. PICK m \in cfg.have : PadIs(f, m)'
    BY <1>2, <1>12 DEF FedInv
  <2>2. f.bin \in Bins
    BY <1>2, <2>1 DEF PadIs
  <2>3. meters'[f.bin] \in Nat /\ meters[f.bin] \in Nat /\ meters[f.bin] <= meters'[f.bin]
    BY <1>1, <1>7, <2>2
  <2>4. CASE f \in fed
    <3>1. LevelValues(f) <= meters[f.bin]
      BY <1>1, <2>4 DEF CellInv, LevelsInRange
    <3>2. LevelValues(f)' = LevelValues(f)
      BY <2>0 DEF LevelValues
    <3>3. LevelValues(f) \in Nat
      <4>1. PICK n \in cfg.have : PadIs(f, n)
        BY <1>1, <2>4 DEF FedInv
      <4>2. Seen(f.bin) \in Seq(Tracks)
        BY <1>1, <2>2, SeenIs
      <4>3. Seen(f.bin)[f.pad] \in Tracks
        BY <4>1, <4>2, CandidatesIs DEF PadIs
      <4>4. Seen(f.bin)[f.pad].channels \in Nat
        BY <4>3 DEF Tracks
      <4> QED
        BY <4>4 DEF LevelValues
    <3> QED
      BY <2>3, <3>1, <3>2, <3>3
  <2>5. CASE f \notin fed
    <3>1. f = new /\ m1 \in cfg.have
      BY <1>11, <2>5
    <3>2. f.bin = b /\ f.pad = k /\ f.dest = Udb(m1, b)
      BY <3>1 DEF new
    <3>3. m1 = "audio" /\ HasAudio
      BY <1>1, <3>1, <3>2, UdbIs DEF HasAudio
    <3> QED
      BY <1>7, <2>0, <2>3, <3>2, <3>3
  <2> QED
    BY <2>4, <2>5
<1>15. CellInv'
  BY <1>2, <1>13, <1>14 DEF CellInv
<1>16. InitedInv'
  BY <1>2 DEF InitedInv
<1> QED
  BY <1>8, <1>12, <1>15, <1>16 DEF PadInv

\* Any pad.
LEMMA PadKeeps ==
  ASSUME SoundInv, NEW b \in Bins, PadAdded(b)
  PROVE  SoundInv'
<1>1. PICK k : k = emitted[b] + 1
  OBVIOUS
<1>2. PICK t : t = Seen(b)[k]
  OBVIOUS
<1>3. EncodingPadAdded(b, k, t) \/ RelayPadAdded(b, k, t) \/ MosaicPadAdded(b, k, t)
  BY <1>1, <1>2, PadAddedIs
<1>4. PadInv'
  <2>1. CASE MosaicPadAdded(b, k, t)
    BY <1>1, <1>2, <2>1, MosaicKeeps DEF MosaicPadAdded
  <2>2. CASE EncodingPadAdded(b, k, t) \/ RelayPadAdded(b, k, t)
    <3>1. LinkFirst(b, k, t) /\ class # "mosaic"
      BY <2>2 DEF EncodingPadAdded, RelayPadAdded, Encodes
    <3> QED
      BY <1>1, <1>2, <3>1, LinkFirstKeeps
  <2> QED
    BY <1>3, <2>1, <2>2
<1>5. GraphInv'
  <2>1. UNCHANGED <<cfg, class, stage, elements, links, probes, conn, out, unexpected>> /\ GraphInv
    BY PadAddedIs, SameTracks
  <2> QED
    BY <2>1, GraphKept
<1> QED
  BY <1>4, <1>5 DEF SoundInv

-----------------------------------------------------------------------------
(***************************************************************************)
(* Adding lines to the graph.                                              *)
(***************************************************************************)
\* What has distinct names has them in its parts, and none in both.
LEMMA DistinctParts ==
  ASSUME NEW s, NEW t, IsSeq(s), IsSeq(t), Distinct(s \o t)
  PROVE  Distinct(s) /\ Distinct(t) /\ Names(s) \cap Names(t) = {}
<1>1. PICK m \in Nat, n \in Nat : Len(s) = m /\ Len(t) = n
  BY SeqDomain
<1>2. /\ IsSeq(s \o t) /\ Len(s \o t) = m + n
      /\ \A k \in 1..m : (s \o t)[k] = s[k]
      /\ \A k \in 1..n : (s \o t)[m + k] = t[k]
  <2>1. /\ IsSeq(s \o t) /\ Len(s \o t) = Len(s) + Len(t)
        /\ \A k \in 1..Len(s) : (s \o t)[k] = s[k]
        /\ \A k \in 1..Len(t) : (s \o t)[Len(s) + k] = t[k]
    BY Concat
  <2> QED
    BY <1>1, <2>1
<1>3. DOMAIN s = 1..m /\ DOMAIN t = 1..n /\ DOMAIN (s \o t) = 1..(m + n)
  BY <1>1, <1>2, SeqDomain
<1>4. \A j, k \in 1..(m + n) : (s \o t)[j].name = (s \o t)[k].name => j = k
  BY <1>3 DEF Distinct
<1>5. ASSUME NEW j \in 1..m, NEW k \in 1..m, s[j].name = s[k].name PROVE j = k
  <2>1. j \in 1..(m + n) /\ k \in 1..(m + n)
    OBVIOUS
  <2> QED
    BY <1>2, <1>4, <1>5, <2>1
<1>6. ASSUME NEW j \in 1..n, NEW k \in 1..n, t[j].name = t[k].name PROVE j = k
  <2>1. m + j \in 1..(m + n) /\ m + k \in 1..(m + n)
    OBVIOUS
  <2>2. m + j = m + k
    BY <1>2, <1>4, <1>6, <2>1
  <2> QED
    BY <2>2
<1>7. ASSUME NEW j \in 1..m, NEW k \in 1..n, s[j].name = t[k].name PROVE FALSE
  <2>1. j \in 1..(m + n) /\ m + k \in 1..(m + n) /\ j # m + k
    OBVIOUS
  <2> QED
    BY <1>2, <1>4, <1>7, <2>1
<1> QED
  BY <1>3, <1>5, <1>6, <1>7 DEF Distinct, Names

\* Two sets of links that share only what may be linked more than once.
LEMMA OnceUnion ==
  ASSUME NEW L, NEW M, NEW S, NEW D, Once(L, S, D), Once(M, S, D),
         Srcs(L) \cap Srcs(M) \subseteq S, Dsts(L) \cap Dsts(M) \subseteq D
  PROVE  Once(L \cup M, S, D)
<1> SUFFICES ASSUME NEW l \in L \cup M, NEW m \in L \cup M, l # m
             PROVE  /\ l[1] = m[1] => l[1] \in S
                    /\ l[2] = m[2] => l[2] \in D
  BY DEF Once
<1>1. /\ l \in L => l[1] \in Srcs(L) /\ l[2] \in Dsts(L)
      /\ m \in L => m[1] \in Srcs(L) /\ m[2] \in Dsts(L)
      /\ l \in M => l[1] \in Srcs(M) /\ l[2] \in Dsts(M)
      /\ m \in M => m[1] \in Srcs(M) /\ m[2] \in Dsts(M)
  BY DEF Srcs, Dsts
<1>2. CASE (l \in L /\ m \in L) \/ (l \in M /\ m \in M)
  BY <1>2 DEF Once
<1>3. CASE (l \in L /\ m \in M) \/ (l \in M /\ m \in L)
  BY <1>1, <1>3
<1> QED
  BY <1>2, <1>3

\* More elements that may be linked more than once.
LEMMA OnceWider ==
  ASSUME NEW L, NEW S, NEW D, NEW T, NEW E, Once(L, S, D), S \subseteq T, D \subseteq E
  PROVE  Once(L, T, E)
BY DEF Once

\* The ends of two sets of links.
LEMMA LinksUnion ==
  ASSUME NEW L, NEW M
  PROVE  Srcs(L \cup M) = Srcs(L) \cup Srcs(M) /\ Dsts(L \cup M) = Dsts(L) \cup Dsts(M)
BY DEF Srcs, Dsts

\* More elements, more of them with several pads.
LEMMA ManyWider ==
  ASSUME NEW s, NEW t, Els(s) \subseteq Els(t)
  PROVE  ManyOut(s) \subseteq ManyOut(t) /\ ManyIn(s) \subseteq ManyIn(t)
BY DEF ManyOut, ManyIn

\* The links of one line.
LEMMA JoinedGraph ==
  ASSUME NEW s, IsSeq(s), NEW from, NEW to
  PROVE  /\ Srcs(Joined(from, s, to)) \subseteq Names(s) \cup ({from} \ {None})
         /\ Dsts(Joined(from, s, to)) \subseteq Names(s) \cup ({to} \ {None})
         /\ Distinct(s) /\ from \notin Names(s) /\ to \notin Names(s)
              => \A S, D : Once(Joined(from, s, to), S, D)
<1>1. \A l \in Joined(from, s, to) : l[1] \in Names(s) \cup ({from} \ {None}) /\ l[2] \in Names(s) \cup ({to} \ {None})
  BY JoinedEnds
<1>2. ASSUME Distinct(s), from \notin Names(s), to \notin Names(s), NEW S, NEW D
      PROVE  Once(Joined(from, s, to), S, D)
  BY <1>2, JoinedOnce DEF Once
<1> QED
  BY <1>1, <1>2 DEF Srcs, Dsts

\* A line with nothing behind it: its last element is not linked any further.
LEMMA JoinedTail ==
  ASSUME NEW s, IsSeq(s), NEW from, Distinct(s), from \notin Names(s), None \notin Names(s)
  PROVE  /\ Len(s) > 0 => /\ Tail1(from, s) \in Names(s)
                          /\ Tail1(from, s) \notin Srcs(Joined(from, s, None))
         /\ Len(s) = 0 => Tail1(from, s) = from /\ Joined(from, s, None) = {}
<1>1. ASSUME Len(s) > 0
      PROVE  /\ Tail1(from, s) \in Names(s)
             /\ Tail1(from, s) \notin Srcs(Joined(from, s, None))
  <2>1. Tail1(from, s) = Final(s).name /\ Final(s) \in Els(s)
    BY <1>1, EndsOf
  <2>2. \A l \in Joined(from, s, None) : l[1] # s[Len(s)].name
    BY <1>1, JoinedOnce
  <2> QED
    BY <2>1, <2>2, ElsOf DEF Srcs, Final
<1>2. ASSUME Len(s) = 0 PROVE Tail1(from, s) = from /\ Joined(from, s, None) = {}
  <2>1. Tail1(from, s) = from
    BY <1>2, NoTail
  <2>2. ASSUME NEW l \in Joined(from, s, None) PROVE FALSE
    BY <1>2, <2>2, JoinedIs
  <2> QED
    BY <2>1, <2>2
<1> QED
  BY <1>1, <1>2

\* New links, which begin and end at new elements or at pads that are free.
LEMMA AddLinks ==
  ASSUME IsSeq(elements), LinkInv, stage # "aborted", NEW line, IsSeq(line), None \notin Names(line),
         NEW lks, NEW prb, NEW next, Add(line, lks, prb, next),
         Srcs(lks) \cup Dsts(lks) \subseteq Names(elements) \cup Names(line),
         stage' # "aborted" => /\ Once(lks, ManyOut(elements'), ManyIn(elements'))
                               /\ Srcs(links) \cap Srcs(lks) \subseteq ManyOut(elements')
                               /\ Names(elements) \cap Dsts(lks) \subseteq ManyIn(elements')
  PROVE  LinkInv'
<1>1. /\ elements' = elements \o line /\ IsSeq(elements') /\ links' = links \cup lks
      /\ Els(elements') = Els(elements) \cup Els(line)
      /\ Names(elements') = Names(elements) \cup Names(line)
      /\ stage' # "aborted" => Distinct(elements')
  BY AddIs
<1>2. Srcs(links') = Srcs(links) \cup Srcs(lks) /\ Dsts(links') = Dsts(links) \cup Dsts(lks)
  BY <1>1, LinksUnion
<1>3. Srcs(links) \cup Dsts(links) \subseteq Names(elements) /\ None \notin Names(elements)
  BY DEF LinkInv
<1>4. ASSUME stage' # "aborted" PROVE Once(links', ManyOut(elements'), ManyIn(elements'))
  <2>1. ManyOut(elements) \subseteq ManyOut(elements') /\ ManyIn(elements) \subseteq ManyIn(elements')
    BY <1>1, ManyWider
  <2>2. Once(links, ManyOut(elements'), ManyIn(elements'))
    BY <2>1, OnceWider DEF LinkInv
  <2>3. Once(links \cup lks, ManyOut(elements'), ManyIn(elements'))
    BY <1>3, <1>4, <2>2, OnceUnion
  <2> QED
    BY <1>1, <2>3
<1> QED
  BY <1>1, <1>2, <1>3, <1>4 DEF LinkInv

\* May be linked once more.
Open(n) == n \notin Srcs(links) \/ n \in ManyOut(elements)

\* Two lines behind two connections.
LEMMA TwoLines ==
  ASSUME IsSeq(elements), LinkInv, stage # "aborted", NEW v, NEW a, IsSeq(v), IsSeq(a),
         None \notin Names(v), None \notin Names(a),
         NEW c, NEW d, c \in Names(elements) \cup {None}, d \in Names(elements) \cup {None},
         c # None => c # d, Open(c), Open(d), NEW prb, NEW next,
         Add(v \o a, Joined(c, v, None) \cup Joined(d, a, None), prb, next)
  PROVE  /\ LinkInv'
         /\ stage' # "aborted" =>
              /\ Tail1(c, v) \in Names(elements') \cup {None} /\ Open(Tail1(c, v))'
              /\ Tail1(d, a) \in Names(elements') \cup {None} /\ Open(Tail1(d, a))'
              /\ Tail1(c, v) # None => Tail1(c, v) # Tail1(d, a)
<1> DEFINE line == v \o a
           J == Joined(c, v, None)
           K == Joined(d, a, None)
<1>1. IsSeq(line) /\ Names(line) = Names(v) \cup Names(a) /\ Els(line) = Els(v) \cup Els(a)
  BY Concat
<1>2. Add(line, J \cup K, prb, next)
  OBVIOUS
<1> HIDE DEF line
<1>3. /\ elements' = elements \o line /\ IsSeq(elements') /\ links' = links \cup (J \cup K)
      /\ Els(elements') = Els(elements) \cup Els(line)
      /\ Names(elements') = Names(elements) \cup Names(line)
      /\ stage' # "aborted" => Distinct(elements')
  BY <1>1, <1>2, AddIs
<1>4. /\ Srcs(J) \subseteq Names(v) \cup ({c} \ {None}) /\ Dsts(J) \subseteq Names(v)
      /\ Srcs(K) \subseteq Names(a) \cup ({d} \ {None}) /\ Dsts(K) \subseteq Names(a)
  BY JoinedGraph
<1>5. Srcs(J \cup K) = Srcs(J) \cup Srcs(K) /\ Dsts(J \cup K) = Dsts(J) \cup Dsts(K)
  BY LinksUnion
<1>6. Srcs(links) \subseteq Names(elements) /\ None \notin Names(elements)
  BY DEF LinkInv
<1>7. ASSUME stage' # "aborted"
      PROVE  /\ Distinct(v) /\ Distinct(a)
             /\ Names(v) \cap Names(a) = {} /\ Names(elements) \cap Names(v) = {} /\ Names(elements) \cap Names(a) = {}
  <2>1. Distinct(line) /\ Names(elements) \cap Names(line) = {}
    BY <1>1, <1>3, <1>7, DistinctParts
  <2>2. Distinct(v) /\ Distinct(a) /\ Names(v) \cap Names(a) = {}
    BY <2>1, DistinctParts DEF line
  <2> QED
    BY <1>1, <2>1, <2>2
<1>8. ManyOut(elements) \subseteq ManyOut(elements')
  BY <1>3, ManyWider
<1>9. LinkInv'
  <2>1. ASSUME stage' # "aborted"
        PROVE  /\ Once(J \cup K, ManyOut(elements'), ManyIn(elements'))
               /\ Srcs(links) \cap Srcs(J \cup K) \subseteq ManyOut(elements')
               /\ Names(elements) \cap Dsts(J \cup K) \subseteq ManyIn(elements')
    <3>1. Once(J, ManyOut(elements'), ManyIn(elements'))
      BY <1>6, <1>7, <2>1, JoinedGraph
    <3>2. Once(K, ManyOut(elements'), ManyIn(elements'))
      BY <1>6, <1>7, <2>1, JoinedGraph
    <3>3. Srcs(J) \cap Srcs(K) = {} /\ Dsts(J) \cap Dsts(K) = {}
      BY <1>4, <1>6, <1>7, <2>1
    <3>4. Once(J \cup K, ManyOut(elements'), ManyIn(elements'))
      BY <3>1, <3>2, <3>3, OnceUnion
    <3>5. Srcs(links) \cap Srcs(J \cup K) \subseteq ManyOut(elements')
      BY <1>4, <1>5, <1>6, <1>7, <1>8, <2>1 DEF Open
    <3>6. Names(elements) \cap Dsts(J \cup K) \subseteq ManyIn(elements')
      BY <1>4, <1>5, <1>7, <2>1
    <3> QED
      BY <3>4, <3>5, <3>6
  <2>2. Srcs(J \cup K) \cup Dsts(J \cup K) \subseteq Names(elements) \cup Names(line)
    BY <1>1, <1>4, <1>5
  <2>3. None \notin Names(line)
    BY <1>1
  <2> HIDE DEF J, K
  <2> QED
    BY <1>1, <1>2, <2>1, <2>2, <2>3, AddLinks
<1>10. ASSUME stage' # "aborted"
       PROVE  /\ Tail1(c, v) \in Names(elements') \cup {None} /\ Open(Tail1(c, v))'
              /\ Tail1(d, a) \in Names(elements') \cup {None} /\ Open(Tail1(d, a))'
              /\ Tail1(c, v) # None => Tail1(c, v) # Tail1(d, a)
  <2>0. Len(v) \in Nat /\ Len(a) \in Nat
    BY SeqDomain
  <2>1. /\ Len(v) > 0 => Tail1(c, v) \in Names(v) /\ Tail1(c, v) \notin Srcs(J)
        /\ Len(v) = 0 => Tail1(c, v) = c /\ J = {}
    BY <1>6, <1>7, <1>10, JoinedTail
  <2>2. /\ Len(a) > 0 => Tail1(d, a) \in Names(a) /\ Tail1(d, a) \notin Srcs(K)
        /\ Len(a) = 0 => Tail1(d, a) = d /\ K = {}
    BY <1>6, <1>7, <1>10, JoinedTail
  <2>3. Srcs(links') = Srcs(links) \cup (Srcs(J) \cup Srcs(K))
    <3> HIDE DEF J, K
    <3>1. Srcs(links \cup (J \cup K)) = Srcs(links) \cup Srcs(J \cup K)
      BY LinksUnion
    <3> QED
      BY <1>3, <1>5, <3>1
  <2>4. Srcs({}) = {}
    BY DEF Srcs
  <2> HIDE DEF J, K
  <2>5. PICK n : n = Tail1(c, v)
    OBVIOUS
  <2>6. PICK m : m = Tail1(d, a)
    OBVIOUS
  <2>7. n \in Names(elements') \cup {None} /\ m \in Names(elements') \cup {None} /\ (n # None => n # m)
    BY <1>1, <1>3, <1>6, <1>7, <1>10, <2>0, <2>1, <2>2, <2>5, <2>6
  <2>8. Open(n)'
    <3>1. n \notin Srcs(links') \/ n \in ManyOut(elements')
      <4>1. CASE Len(v) > 0
        BY <1>4, <1>6, <1>7, <1>10, <2>1, <2>3, <2>5, <4>1
      <4>2. CASE Len(v) = 0
        <5>1. n = c /\ Srcs(J) = {}
          BY <2>1, <2>4, <2>5, <4>2
        <5>2. n \notin Srcs(K)
          BY <1>4, <1>6, <1>7, <1>10, <5>1
        <5> QED
          BY <1>8, <2>3, <5>1, <5>2 DEF Open
      <4> QED
        BY <2>0, <4>1, <4>2
    <3> QED
      BY <3>1 DEF Open
  <2>9. Open(m)'
    <3>1. m \notin Srcs(links') \/ m \in ManyOut(elements')
      <4>1. CASE Len(a) > 0
        BY <1>4, <1>6, <1>7, <1>10, <2>2, <2>3, <2>6, <4>1
      <4>2. CASE Len(a) = 0
        <5>1. m = d /\ Srcs(K) = {}
          BY <2>2, <2>4, <2>6, <4>2
        <5>2. m \notin Srcs(J)
          BY <1>4, <1>6, <1>7, <1>10, <5>1
        <5> QED
          BY <1>8, <2>3, <5>1, <5>2 DEF Open
      <4> QED
        BY <2>0, <4>1, <4>2
    <3> QED
      BY <3>1 DEF Open
  <2> QED
    BY <2>5, <2>6, <2>7, <2>8, <2>9
<1> QED
  BY <1>9, <1>10

\* A line without sinks and decodebins.
Plain(s) ==
    /\ IsSeq(s)
    /\ \A e \in Els(s) : e.name[1] \notin SinkNames \cup {"none"} /\ e.plugin # "decodebin"

\* No element of such a line has the name of none.
LEMMA PlainNone ==
  ASSUME NEW s, Plain(s)
  PROVE  IsSeq(s) /\ None \notin Names(s)
<1>1. None[1] = "none"
  BY DEF None
<1> QED
  BY <1>1, ElsOf DEF Plain

\* A line whose patterns are no sinks.
LEMMA PlainLine ==
  ASSUME NEW s, NEW A, NEW id, NEW P, PLine(s, A, id, P),
         A \cap (SinkNames \cup {"none"}) = {}, "decodebin" \notin P
  PROVE  Plain(s)
BY PLineIs DEF Plain

\* Two such lines.
LEMMA PlainConcat ==
  ASSUME NEW s, NEW t, Plain(s), Plain(t)
  PROVE  Plain(s \o t)
BY Concat DEF Plain

\* An optional one, and the empty one.
LEMMA PlainIf ==
  ASSUME NEW s, NEW b, Plain(s)
  PROVE  Plain(If(b, s)) /\ Plain(<<>>)
BY Literal DEF Plain, If

\* One element.
LEMMA PlainOne ==
  ASSUME NEW e, e.name[1] \notin SinkNames \cup {"none"}, e.plugin # "decodebin"
  PROVE  Plain(<<e>>) /\ Len(<<e>>) = 1 /\ <<e>>[1] = e
BY SingleIs DEF Plain

\* The optional line of a medium.
LEMMA IfIs ==
  ASSUME NEW b, NEW s
  PROVE  (b => If(b, s) = s) /\ (~b => If(b, s) = <<>>)
BY DEF If

-----------------------------------------------------------------------------
\* A step that adds a line keeps what is known of the probes.
LEMMA AddProbes ==
  ASSUME IsSeq(elements), ProbeInv, stage # "aborted", NEW line, IsSeq(line), NEW lks, NEW prb, NEW next,
         Add(line, lks, prb, next), UNCHANGED <<cfg, class>>,
         \A p \in prb : p.el \in Names(elements) \cup Names(line),
         stage' # "aborted" =>
           /\ \A p \in prb : p.kind = "output" =>
                /\ class # "test_life" => p.el[2] = p.id /\ p.id < Len(cfg.output)
                /\ class = "test_life" => p.id = 0
           /\ \A e \in Els(line) : e.name[1] \in SinkNames => \E p \in prb : p.el = e.name /\ p.kind = "output"
  PROVE  ProbeInv'
<1>1. /\ Els(elements') = Els(elements) \cup Els(line)
      /\ Names(elements') = Names(elements) \cup Names(line)
      /\ probes' = probes \cup prb
  BY AddIs
<1>2. \A p \in probes' : p.el \in Names(elements')
  BY <1>1 DEF ProbeInv
<1>3. ASSUME stage' # "aborted", NEW p \in probes', p.kind = "output"
      PROVE  /\ class # "test_life" => p.el[2] = p.id /\ p.id < Len(cfg.output)
             /\ class = "test_life" => p.id = 0
  BY <1>1, <1>3 DEF ProbeInv
<1>4. ASSUME stage' # "aborted", NEW e \in Els(elements'), e.name[1] \in SinkNames
      PROVE  \E p \in probes' : p.el = e.name /\ p.kind = "output"
  <2>1. CASE e \in Els(elements)
    BY <1>1, <1>4, <2>1 DEF ProbeInv
  <2>2. CASE e \in Els(line)
    BY <1>1, <1>4, <2>2
  <2> QED
    BY <1>1, <1>4, <2>1, <2>2
<1> QED
  BY <1>2, <1>3, <1>4 DEF ProbeInv

\* Elements that are no decodebins.
LEMMA AddBins ==
  ASSUME IsSeq(elements), BinInv, stage # "aborted", NEW line, IsSeq(line),
         \A e \in Els(line) : e.plugin # "decodebin", NEW lks, NEW prb, NEW next,
         Add(line, lks, prb, next), UNCHANGED <<cfg, class>>,
         next \in {"udb"} \cup Behind => stage \in {"udb"} \cup Behind,
         next \in Behind => \/ stage \in Behind \/ class = "mosaic"
                            \/ \A m \in cfg.have : Udb(m, 0) \in Names(elements) \cup Names(line)
  PROVE  stage' # "aborted" => BinInv'
<1>1. /\ Els(elements') = Els(elements) \cup Els(line)
      /\ Names(elements') = Names(elements) \cup Names(line)
      /\ stage' = "aborted" \/ stage' = next
  BY AddIs
<1>2. \A m, b : Udb(m, b)' = Udb(m, b)
  BY DEF Udb
<1>3. Rtsp' = Rtsp
  BY DEF Rtsp
<1>4. Decodebin(0)' = Decodebin(0)
  BY DEF Decodebin
<1> SUFFICES ASSUME stage' = next PROVE BinInv'
  BY <1>1
<1>5. ASSUME NEW e \in Els(elements'), e.plugin = "decodebin"
      PROVE  /\ class \notin {"test_input", "display_input"}
             /\ e.name[2] = 0 \/ class \in {"device", "mosaic"}
             /\ class # "mosaic" /\ stage' \in Behind => \A m \in cfg.have : Udb(m, 0) \in Names(elements')
             /\ class = "mosaic" => \A m \in cfg.have : Udb(m, e.name[2]) \in Names(elements')
  <2>1. e \in Els(elements)
    BY <1>1, <1>5
  <2> QED
    BY <1>1, <1>5, <2>1 DEF BinInv
<1>6. Rtsp /\ stage' \in {"udb"} \cup Behind => <<"src", 0>> \in Names(elements') /\ Decodebin(0) \in Els(elements')
  BY <1>1 DEF BinInv
<1> QED
  BY <1>2, <1>3, <1>4, <1>5, <1>6 DEF BinInv

\* The types, after a step that adds a line.
LEMMA AddTypes ==
  ASSUME GraphInv, NEW line, IsSeq(line), NEW lks, NEW prb, NEW next,
         Add(line, lks, prb, next), next \in Stages, cfg' = cfg
  PROVE  cfg' \in ConfigType /\ stage' \in Stages /\ IsSeq(elements')
<1>1. IsSeq(elements') /\ (stage' = "aborted" \/ stage' = next)
  BY AddIs DEF GraphInv
<1> QED
  BY <1>1 DEF GraphInv, Stages, Ended

\* The last element of a line that has one.
LEMMA TailIs ==
  ASSUME NEW s, IsSeq(s), None \notin Names(s), NEW from, Len(s) > 0 \/ from # None
  PROVE  Tail1(from, s) # None
<1>1. CASE Len(s) > 0
  BY <1>1, EndsOf, ElsOf
<1>2. CASE ~ (Len(s) > 0)
  <2>1. Len(s) = 0
    BY <1>2, SeqDomain
  <2> QED
    BY <1>2, <2>1, NoTail
<1> QED
  BY <1>1, <1>2

\* Behind a tee.
LEMMA TeeIs ==
  ASSUME NEW s, IsSeq(s), Len(s) > 0, Final(s).plugin = "tee", NEW els, Els(s) \subseteq Els(els), NEW from
  PROVE  Tail1(from, s) \in ManyOut(els)
<1>1. Tail1(from, s) = Final(s).name /\ Final(s) \in Els(els)
  BY EndsOf
<1>2. "tee" \in ManySrc
  BY DEF ManySrc
<1> QED
  BY <1>1, <1>2 DEF ManyOut

\* BuildPostProc and BuildConverter.
LEMMA ExtendKeeps ==
  ASSUME GraphInv, stage \in {"postproc", "converter"}, NEW video, NEW audio, Plain(video), Plain(audio),
         NEW next \in {"converter", "output"}, Extend(video, audio, next),
         next = "output" /\ ~ Recorder => /\ Len(video) > 0 /\ Final(video).plugin = "tee"
                                          /\ Len(audio) > 0 /\ Final(audio).plugin = "tee"
  PROVE  GraphInv'
<1>0. PICK c, d : c = conn.video /\ d = conn.audio
  OBVIOUS
<1>1. PICK v, a : v = If(HasVideo, video) /\ a = If(HasAudio, audio)
  OBVIOUS
<1>2. /\ Add(v \o a, Joined(c, v, None) \cup Joined(d, a, None), {}, next)
      /\ conn' = [video |-> Tail1(c, v), audio |-> Tail1(d, a)]
      /\ UNCHANGED <<cfg, class, out, unexpected>>
  BY <1>0, <1>1 DEF Extend
<1>3. Plain(v) /\ Plain(a) /\ IsSeq(v) /\ IsSeq(a) /\ None \notin Names(v) /\ None \notin Names(a)
  BY <1>1, PlainIf, PlainNone
<1>4. /\ IsSeq(elements) /\ LinkInv /\ ProbeInv /\ BinInv /\ ConnInv /\ StageInv /\ stage # "aborted"
      /\ ConnOk(c, "video") /\ ConnOk(d, "audio") /\ (c # None => c # d)
  BY <1>0 DEF GraphInv, ConnInv
<1>5. /\ c \in Names(elements) \cup {None} /\ d \in Names(elements) \cup {None} /\ Open(c) /\ Open(d)
      /\ (HasVideo => c # None) /\ (HasAudio => d # None)
  BY <1>4 DEF ConnOk, Open, HasVideo, HasAudio
<1>6. /\ LinkInv'
      /\ stage' # "aborted" =>
              /\ Tail1(c, v) \in Names(elements') \cup {None} /\ Open(Tail1(c, v))'
              /\ Tail1(d, a) \in Names(elements') \cup {None} /\ Open(Tail1(d, a))'
              /\ Tail1(c, v) # None => Tail1(c, v) # Tail1(d, a)
  BY <1>2, <1>3, <1>4, <1>5, TwoLines
<1>7. PICK line : line = v \o a
  OBVIOUS
<1>8. Plain(line) /\ IsSeq(line) /\ Els(v) \subseteq Els(line) /\ Els(a) \subseteq Els(line)
  BY <1>3, <1>7, PlainConcat, Concat DEF Plain
<1>9. PICK lks : Add(line, lks, {}, next)
  BY <1>2, <1>7
<1>10. ProbeInv'
  BY <1>2, <1>4, <1>8, <1>9, AddProbes DEF Plain
<1>11. stage' # "aborted" => BinInv'
  BY <1>2, <1>4, <1>8, <1>9, AddBins DEF Plain, Behind
<1>12. /\ cfg' \in ConfigType /\ stage' \in Stages /\ IsSeq(elements') /\ out' \in Nat /\ unexpected' \in BOOLEAN
       /\ (stage' = "aborted" \/ stage' = next)
       /\ Els(line) \subseteq Els(elements')
  BY <1>2, <1>4, <1>8, <1>9, AddTypes, AddIs DEF GraphInv, Stages
<1>13. ASSUME stage' = next PROVE ConnInv'
  <2>1. stage' # "aborted" /\ Recorder' = Recorder
    BY <1>2, <1>13 DEF Recorder
  <2>2. HasVideo => /\ v = video /\ Tail1(c, v) # None
                    /\ next = "output" /\ ~ Recorder => Tail1(c, v) \in ManyOut(elements')
    <3> HAVE HasVideo
    <3>1. v = video
      BY <1>1, IfIs
    <3>2. Tail1(c, v) # None
      BY <1>3, <1>5, TailIs
    <3>3. ASSUME next = "output", ~ Recorder PROVE Tail1(c, v) \in ManyOut(elements')
      BY <1>3, <1>8, <1>12, <3>1, <3>3, TeeIs
    <3> QED
      BY <3>1, <3>2, <3>3
  <2>3. HasAudio => /\ a = audio /\ Tail1(d, a) # None
                    /\ next = "output" /\ ~ Recorder => Tail1(d, a) \in ManyOut(elements')
    <3> HAVE HasAudio
    <3>1. a = audio
      BY <1>1, IfIs
    <3>2. Tail1(d, a) # None
      BY <1>3, <1>5, TailIs
    <3>3. ASSUME next = "output", ~ Recorder PROVE Tail1(d, a) \in ManyOut(elements')
      BY <1>3, <1>8, <1>12, <3>1, <3>3, TeeIs
    <3> QED
      BY <3>1, <3>2, <3>3
  <2>4. ConnOk(conn.video, "video")'
    BY <1>2, <1>6, <1>13, <2>1, <2>2 DEF ConnOk, Open, HasVideo
  <2>5. ConnOk(conn.audio, "audio")'
    BY <1>2, <1>6, <1>13, <2>1, <2>3 DEF ConnOk, Open, HasAudio
  <2> QED
    BY <1>2, <1>6, <2>1, <2>4, <2>5 DEF ConnInv
<1>14. ASSUME stage' = next PROVE StageInv'
  BY <1>2, <1>4, <1>14 DEF StageInv
<1> QED
  BY <1>6, <1>10, <1>11, <1>12, <1>13, <1>14 DEF GraphInv

\* CreateStream keeps the graph.
LEMMA CreateKeeps ==
  ASSUME GraphInv, CreateStream
  PROVE  GraphInv'
<1>1. /\ stage = "factory" /\ UNCHANGED <<cfg, elements, links, probes, conn, out>>
      /\ stage' = IF class' = "null" THEN "refused" ELSE IF class' = "mosaic" THEN "mosaic" ELSE "input"
      /\ unexpected' \in BOOLEAN
  BY DEF CreateStream
<1>2. elements = <<>> /\ links = {} /\ probes = {} /\ StageInv
  BY <1>1 DEF GraphInv, StageInv
<1>3. Els(elements') = {} /\ Names(elements') = {} /\ IsSeq(elements')
  BY <1>1, <1>2, Literal, ElsOf
<1>4. LinkInv'
  <2>1. Srcs(links') = {} /\ Dsts(links') = {}
    BY <1>1, <1>2 DEF Srcs, Dsts
  <2>2. Distinct(elements') /\ Once(links', ManyOut(elements'), ManyIn(elements'))
    BY <1>1, <1>2 DEF Distinct, Once
  <2> QED
    BY <1>3, <2>1, <2>2 DEF LinkInv
<1>5. ProbeInv'
  BY <1>1, <1>2, <1>3 DEF ProbeInv
<1>6. BinInv'
  BY <1>1, <1>3 DEF BinInv, Behind
<1>7. ConnInv'
  BY <1>1 DEF ConnInv
<1>8. StageInv'
  BY <1>1, <1>2 DEF StageInv
<1>9. (cfg \in ConfigType /\ stage \in Stages /\ out \in Nat)'
  BY <1>1 DEF GraphInv, Stages, Ended
<1> QED
  BY <1>1, <1>3, <1>4, <1>5, <1>6, <1>7, <1>8, <1>9 DEF GraphInv

\* Raw sources are their own connections.
LEMMA KeepKeeps ==
  ASSUME GraphInv, KeepConnections
  PROVE  GraphInv'
<1>1. /\ stage = "udb" /\ class \in {"test_input", "display_input"} /\ stage' = "postproc"
      /\ UNCHANGED <<cfg, class, elements, links, probes, conn, out, unexpected>>
  BY DEF KeepConnections
<1>2. Els(elements)' = Els(elements) /\ Names(elements)' = Names(elements) /\ Srcs(links)' = Srcs(links)
      /\ ManyOut(elements)' = ManyOut(elements) /\ Recorder' = Recorder /\ Rtsp' = Rtsp
  BY <1>1 DEF Els, Names, Srcs, ManyOut, Recorder, Rtsp
<1>3. (cfg \in ConfigType /\ stage \in Stages /\ out \in Nat /\ unexpected \in BOOLEAN /\ IsSeq(elements))'
  BY <1>1, <1>2 DEF GraphInv, IsSeq, Stages
<1>4. LinkInv'
  BY <1>1, <1>2 DEF GraphInv, LinkInv, Dsts, Distinct, Once, ManyIn
<1>5. ProbeInv'
  BY <1>1, <1>2 DEF GraphInv, ProbeInv
<1>6. BinInv'
  BY <1>1, <1>2 DEF GraphInv, BinInv, Udb, Rtsp
<1>7. ConnInv'
  BY <1>1, <1>2 DEF GraphInv, ConnInv, ConnOk
<1>8. StageInv'
  BY <1>1, <1>2 DEF GraphInv, StageInv
<1> QED
  BY <1>3, <1>4, <1>5, <1>6, <1>7, <1>8 DEF GraphInv

\* None is no connection, and open.
LEMMA NoneOpen ==
  ASSUME LinkInv, stage # "aborted"
  PROVE  Open(None) /\ None \notin Names(elements)
BY DEF LinkInv, Open

\* The null element.
LEMMA NullIs ==
  NullElement.name = <<"null", 0>> /\ NullElement.plugin = "null"
BY DEF NullElement

\* The connections behind the decodebins of one input, or null for an unknown parser.
LEMMA UdbKeeps ==
  ASSUME GraphInv, NEW e, NEW audio, Plain(<<e>>), Plain(audio), Len(audio) > 0,
         e = NullElement \/ e.name = Udb("video", 0),
         audio[1] = NullElement \/ audio[1].name = Udb("audio", 0),
         class \notin {"test_input", "display_input"},
         UdbConnections(<<e>>, audio)
  PROVE  GraphInv'
<1>1. PICK v, a : v = If(HasVideo, <<e>>) /\ a = If(HasAudio, audio)
  OBVIOUS
<1>2. /\ stage = "udb" /\ Add(v \o a, Joined(None, a, None), {}, "postproc")
      /\ conn' = [video |-> Tail1(None, v), audio |-> Tail1(None, a)]
      /\ UNCHANGED <<cfg, class, out, unexpected>>
  BY <1>1 DEF UdbConnections
<1>3. Plain(v) /\ Plain(a) /\ IsSeq(v) /\ IsSeq(a) /\ None \notin Names(v) /\ None \notin Names(a)
  BY <1>1, PlainIf, PlainNone
<1>4. /\ IsSeq(elements) /\ LinkInv /\ ProbeInv /\ BinInv /\ StageInv /\ stage # "aborted"
      /\ class # "mosaic"
  BY <1>2 DEF GraphInv, StageInv
<1>5. Joined(None, v, None) = {}
  <2>1. Len(v) \in {0, 1}
    BY <1>1, IfIs, SingleIs, Literal
  <2>2. ASSUME NEW l \in Joined(None, v, None) PROVE FALSE
    <3>1. \E k \in 1..(Len(v) - 1) : l = <<v[k].name, v[k + 1].name>>
      BY <1>3, <2>2, JoinedIs
    <3> QED
      BY <2>1, <3>1
  <2> QED
    BY <2>2
<1>6. Add(v \o a, Joined(None, v, None) \cup Joined(None, a, None), {}, "postproc")
  BY <1>2, <1>5
<1>7. /\ LinkInv'
      /\ stage' # "aborted" =>
              /\ Tail1(None, v) \in Names(elements') \cup {None} /\ Open(Tail1(None, v))'
              /\ Tail1(None, a) \in Names(elements') \cup {None} /\ Open(Tail1(None, a))'
              /\ Tail1(None, v) # None => Tail1(None, v) # Tail1(None, a)
  BY <1>3, <1>4, <1>6, NoneOpen, TwoLines
<1>8. PICK line : line = v \o a
  OBVIOUS
<1>9. Plain(line) /\ IsSeq(line) /\ Names(line) = Names(v) \cup Names(a)
  BY <1>3, <1>8, PlainConcat, Concat DEF Plain
<1>10. PICK lks : Add(line, lks, {}, "postproc")
  BY <1>2, <1>8
<1>11. ProbeInv'
  BY <1>2, <1>4, <1>9, <1>10, AddProbes DEF Plain
<1>12. ASSUME stage' # "aborted" PROVE \A m \in cfg.have : Udb(m, 0) \in Names(line)
  <2>0. NullElement \notin Els(v) \cup Els(a)
    <3>1. NullElement \notin Els(line)
      BY <1>4, <1>9, <1>10, <1>12, AddIs
    <3> QED
      BY <1>3, <1>8, <3>1, Concat
  <2>1. cfg.have \subseteq {"video", "audio"}
    BY HaveIs DEF GraphInv
  <2>2. "video" \in cfg.have => Udb("video", 0) \in Names(line)
    <3> HAVE "video" \in cfg.have
    <3>1. v = <<e>>
      BY <1>1, IfIs DEF HasVideo
    <3> QED
      BY <1>9, <2>0, <3>1, SingleIs
  <2>3. "audio" \in cfg.have => Udb("audio", 0) \in Names(line)
    <3> HAVE "audio" \in cfg.have
    <3>1. a = audio
      BY <1>1, IfIs DEF HasAudio
    <3>2. audio[1] \in Els(audio)
      BY <1>3, <3>1, EndsOf
    <3> QED
      BY <1>9, <2>0, <3>1, <3>2, ElsOf
  <2> QED
    BY <2>1, <2>2, <2>3
<1>13. stage' # "aborted" => BinInv'
  BY <1>2, <1>4, <1>9, <1>10, <1>12, AddBins DEF Plain, Behind
<1>14. /\ cfg' \in ConfigType /\ stage' \in Stages /\ IsSeq(elements') /\ out' \in Nat /\ unexpected' \in BOOLEAN
       /\ (stage' = "aborted" \/ stage' = "postproc")
  <2>1. "postproc" \in Stages
    BY DEF Stages
  <2> QED
    BY <1>2, <1>4, <1>9, <1>10, <2>1, AddTypes, AddIs DEF GraphInv
<1>15. ASSUME stage' = "postproc" PROVE ConnInv'
  <2>1. HasVideo => Tail1(None, v) # None
    <3> HAVE HasVideo
    <3>1. v = <<e>> /\ Len(v) > 0
      BY <1>1, IfIs, SingleIs
    <3> QED
      BY <1>3, <3>1, TailIs
  <2>2. HasAudio => Tail1(None, a) # None
    <3> HAVE HasAudio
    <3>1. a = audio
      BY <1>1, IfIs
    <3> QED
      BY <1>3, <3>1, TailIs
  <2>3. ConnOk(conn.video, "video")'
    BY <1>2, <1>7, <1>15, <2>1 DEF ConnOk, Open, HasVideo
  <2>4. ConnOk(conn.audio, "audio")'
    BY <1>2, <1>7, <1>15, <2>2 DEF ConnOk, Open, HasAudio
  <2> QED
    BY <1>2, <1>7, <1>15, <2>3, <2>4 DEF ConnInv
<1>16. ASSUME stage' = "postproc" PROVE StageInv'
  BY <1>2, <1>4, <1>16 DEF StageInv
<1> QED
  BY <1>7, <1>11, <1>13, <1>14, <1>15, <1>16 DEF GraphInv

\* BuildUdbConnections keeps the graph, in an encoding stream and in a relay.
LEMMA UdbActionsKeep ==
  ASSUME GraphInv, BuildUdbConnections \/ BuildRelayUdbConnections
  PROVE  GraphInv'
<1>1. CASE BuildUdbConnections
  <2> DEFINE e == Element("queue", "udb_conn_video", 0)
             f == Element("queue", "udb_conn_audio", 0)
  <2>1. /\ e.name = <<"udb_conn_video", 0>> /\ e.plugin = "queue"
        /\ f.name = <<"udb_conn_audio", 0>> /\ f.plugin = "queue"
    BY ElementIs
  <2>2. class \notin {"test_input", "display_input"} /\ UdbConnections(<<e>>, <<f>>)
    BY <1>1 DEF BuildUdbConnections
  <2> HIDE DEF e, f
  <2>3. Plain(<<e>>) /\ Plain(<<f>>) /\ Len(<<f>>) > 0 /\ <<f>>[1] = f
    BY <2>1, PlainOne DEF SinkNames
  <2>4. e.name = Udb("video", 0) /\ <<f>>[1].name = Udb("audio", 0)
    BY <2>1, <2>3 DEF Udb
  <2> QED
    BY <2>2, <2>3, <2>4, UdbKeeps
<1>2. CASE BuildRelayUdbConnections
  <2> DEFINE e == make_video_parser(cfg.vparser, "udb_conn_video", 0)
             f == make_audio_parser(cfg.aparser, "udb_conn_audio", 0)
             g == make_aac_encoder(0)
             w == If(cfg.aparser = "rawaudioparse", <<g>>)
  <2>1. /\ e = NullElement \/ (e.name = <<"udb_conn_video", 0>> /\ e.plugin \in VideoParsers)
        /\ f = NullElement \/ (f.name = <<"udb_conn_audio", 0>> /\ f.plugin \in AudioParsers)
        /\ g.name = <<"audio_codec", 0>> /\ g.plugin = "faac"
    BY ElementIs DEF make_video_parser, make_audio_parser, make_aac_encoder
  <2>2. class \notin {"test_input", "display_input"} /\ UdbConnections(<<e>>, <<f>> \o w)
    BY <1>2 DEF BuildRelayUdbConnections, Encodes
  <2> HIDE DEF e, f, g
  <2>3. Plain(<<e>>) /\ Plain(<<f>>) /\ Len(<<f>>) = 1 /\ <<f>>[1] = f
    <3>1. /\ e.name[1] \in {"null", "udb_conn_video"} /\ e.plugin # "decodebin"
          /\ f.name[1] \in {"null", "udb_conn_audio"} /\ f.plugin # "decodebin"
      BY <2>1, NullIs DEF VideoParsers, AudioParsers
    <3> QED
      BY <3>1, PlainOne DEF SinkNames
  <2>4. Plain(w)
    BY <2>1, PlainOne, PlainIf DEF SinkNames
  <2> HIDE DEF w
  <2>5. PICK audio : audio = <<f>> \o w
    OBVIOUS
  <2>6. Plain(audio) /\ Len(audio) > 0 /\ audio[1] = f
    <3>1. IsSeq(<<f>>) /\ IsSeq(w) /\ Len(w) \in Nat /\ Len(<<f>>) > 0
      BY <2>3, <2>4, SeqDomain DEF Plain
    <3>2. Len(audio) = Len(<<f>>) + Len(w) /\ audio[1] = <<f>>[1]
      BY <2>5, <3>1, Concat, ConcatEnds
    <3> QED
      BY <2>3, <2>4, <2>5, <3>1, <3>2, PlainConcat
  <2>7. /\ e = NullElement \/ e.name = Udb("video", 0)
        /\ audio[1] = NullElement \/ audio[1].name = Udb("audio", 0)
    BY <2>1, <2>6 DEF Udb
  <2> QED
    BY <2>2, <2>3, <2>5, <2>6, <2>7, UdbKeeps
<1> QED
  BY <1>1, <1>2

-----------------------------------------------------------------------------
\* BuildPostProc keeps the graph.
LEMMA PostProcKeeps ==
  ASSUME GraphInv, BuildPostProc
  PROVE  GraphInv'
<1>1. stage = "postproc" /\ "converter" # "output"
  BY DEF BuildPostProc
<1>2. Pass \cap {"decodebin"} = {}
  BY DEF Pass
<1>3. Plain(BuildVideoPostProc(0))
  <2>1. VideoPostPats \cap (SinkNames \cup {"none"}) = {}
    BY DEF VideoPostPats, SinkNames
  <2> QED
    BY <1>2, <2>1, VideoPostLine, PlainLine
<1>4. Plain(BuildAudioPostProc(0))
  <2>1. AudioPostPats \cap (SinkNames \cup {"none"}) = {}
    BY DEF AudioPostPats, SinkNames
  <2> QED
    BY <1>2, <2>1, AudioPostLine, PlainLine
<1>5. Plain(<<>>)
  BY <1>3, PlainIf
<1>6. CASE Encodes
  <2>1. Extend(BuildVideoPostProc(0), BuildAudioPostProc(0), "converter")
    BY <1>6 DEF BuildPostProc
  <2> QED
    BY <1>1, <1>3, <1>4, <2>1, ExtendKeeps
<1>7. CASE ~ Encodes
  <2>1. Extend(<<>>, <<>>, "converter")
    BY <1>7 DEF BuildPostProc
  <2> QED
    BY <1>1, <1>5, <2>1, ExtendKeeps
<1> QED
  BY <1>6, <1>7

\* The line of an encoder has no sink in it, even if the encoder is not known.
LEMMA EncodersPlain ==
  ASSUME NEW i
  PROVE  /\ Plain(build_video_encoder(cfg.venc, {"profile", "stream-format"} \cap cfg.opts, i))
         /\ Plain(AudioEncoderLine(i))
<1>0. Plain(<<NullElement>>)
  BY NullIs, PlainOne DEF SinkNames
<1>1. Plain(build_video_encoder(cfg.venc, {"profile", "stream-format"} \cap cfg.opts, i))
  <2> DEFINE enc == build_video_encoder(cfg.venc, {"profile", "stream-format"} \cap cfg.opts, i)
  <2>1. CASE cfg.venc \in VideoEncoders
    <3>1. PLine(enc, EncoderPats, i, {cfg.venc, "capsfilter"})
      BY <2>1, EncoderLine
    <3>2. EncoderPats \cap (SinkNames \cup {"none"}) = {} /\ "decodebin" \notin {cfg.venc, "capsfilter"}
      BY <2>1 DEF EncoderPats, SinkNames, VideoEncoders
    <3> QED
      BY <3>1, <3>2, PlainLine
  <2>2. CASE cfg.venc \notin VideoEncoders
    <3>1. cfg.venc # "x264enc"
      BY <2>2 DEF VideoEncoders
    <3>2. enc = <<NullElement>> \o <<>>
      BY <2>2, <3>1 DEF build_video_encoder, make_video_encoder, setup_encoder_str_params
    <3> QED
      BY <1>0, <3>2, PlainConcat, PlainIf
  <2> QED
    BY <2>1, <2>2
<1>2. Plain(AudioEncoderLine(i))
  <2>1. CASE cfg.aenc \in AudioEncoders
    <3> DEFINE A == {"audioresample", "audio_codec", "mpegaudioparse"}
               Q == {cfg.aenc, "audioresample", "mpegaudioparse"}
    <3>1. PLine(AudioEncoderLine(i), A, i, Q)
      BY <2>1, AudioEncoderIs
    <3>2. A \cap (SinkNames \cup {"none"}) = {} /\ "decodebin" \notin Q
      BY <2>1 DEF SinkNames, AudioEncoders
    <3> QED
      BY <3>1, <3>2, PlainLine
  <2>2. CASE cfg.aenc \notin AudioEncoders
    <3>1. cfg.aenc # "lamemp3enc"
      BY <2>2 DEF AudioEncoders
    <3>2. AudioEncoderLine(i) = <<NullElement>>
      BY <2>2, <3>1 DEF AudioEncoderLine, make_audio_encoder
    <3> QED
      BY <1>0, <3>2
  <2> QED
    BY <2>1, <2>2
<1> QED
  BY <1>1, <1>2

\* Nor has the front of a converter.
LEMMA ConvertersPlain ==
  Plain(BuildVideoConverter(0)) /\ Plain(BuildAudioConverter(0))
BY EncodersPlain, PlainIf DEF BuildVideoConverter, BuildAudioConverter

\* The converters of a stream that encodes end in the tees.
LEMMA ConvEnds ==
  /\ Plain(ConvVideo) /\ Len(ConvVideo) > 0 /\ Final(ConvVideo) = VideoTee
  /\ Plain(ConvAudio) /\ Len(ConvAudio) > 0 /\ Final(ConvAudio) = AudioTee
<1>1. ASSUME NEW front, NEW parser, NEW tee, NEW b, Plain(front),
             parser.name[1] \in {"video_parser", "audio_parser"}, parser.plugin \in {"h264parse", "aacparse"},
             tee.name[1] \in {"video_tee", "audio_tee"}, tee.plugin = "tee"
      PROVE  LET u == front \o If(b, <<parser>>) \o <<tee>>
             IN  Plain(u) /\ Len(u) > 0 /\ Final(u) = tee
  <2>1. Plain(<<parser>>) /\ Plain(<<tee>>)
    BY <1>1, PlainOne DEF SinkNames
  <2>2. PICK w : w = front \o If(b, <<parser>>)
    OBVIOUS
  <2>3. Plain(w)
    BY <1>1, <2>1, <2>2, PlainIf, PlainConcat
  <2>4. PICK t : t = <<tee>>
    OBVIOUS
  <2>5. IsSeq(w) /\ IsSeq(t) /\ Len(t) = 1 /\ Len(t) > 0 /\ Final(t) = tee
    BY <2>3, <2>4, SingleIs DEF Plain
  <2>6. Len(w \o t) = Len(w) + Len(t) /\ Len(w) \in Nat /\ Final(w \o t) = Final(t)
    BY <2>5, Concat, SeqDomain, ConcatEnds
  <2>7. Plain(w \o t)
    BY <2>1, <2>3, <2>4, PlainConcat
  <2> QED
    BY <2>2, <2>4, <2>5, <2>6, <2>7
<1>2. /\ make_h264_parser(0).name[1] = "video_parser" /\ make_h264_parser(0).plugin = "h264parse"
      /\ make_aac_parser(0).name[1] = "audio_parser" /\ make_aac_parser(0).plugin = "aacparse"
      /\ VideoTee.name[1] = "video_tee" /\ VideoTee.plugin = "tee"
      /\ AudioTee.name[1] = "audio_tee" /\ AudioTee.plugin = "tee"
  BY ElementIs DEF make_h264_parser, make_aac_parser, VideoTee, AudioTee
<1>3. PICK p, q, x, y : p = make_h264_parser(0) /\ q = make_aac_parser(0) /\ x = VideoTee /\ y = AudioTee
  OBVIOUS
<1>4. PICK g, h : g = BuildVideoConverter(0) /\ h = BuildAudioConverter(0)
  OBVIOUS
<1>5. LET u == g \o If(IsH264Encoder(cfg.venc), <<p>>) \o <<x>>
      IN  Plain(u) /\ Len(u) > 0 /\ Final(u) = x
  BY <1>1, <1>2, <1>3, <1>4, ConvertersPlain
<1>6. LET u == h \o If(IsAACEncoder(cfg.aenc), <<q>>) \o <<y>>
      IN  Plain(u) /\ Len(u) > 0 /\ Final(u) = y
  BY <1>1, <1>2, <1>3, <1>4, ConvertersPlain
<1> QED
  BY <1>3, <1>4, <1>5, <1>6 DEF ConvVideo, ConvAudio

\* BuildConverter keeps the graph, and ends in the tees.
LEMMA ConverterKeeps ==
  ASSUME GraphInv, BuildConverter \/ BuildRelayConverter
  PROVE  GraphInv'
<1>1. VideoTee.plugin = "tee" /\ AudioTee.plugin = "tee" /\ VideoTee.name = <<"video_tee", 0>> /\ AudioTee.name = <<"audio_tee", 0>>
  BY ElementIs DEF VideoTee, AudioTee
<1>2. CASE BuildConverter
  <2>1. stage = "converter" /\ Extend(ConvVideo, ConvAudio, "output")
    BY <1>2 DEF BuildConverter, ConvVideo, ConvAudio
  <2> QED
    BY <1>1, <2>1, ConvEnds, ExtendKeeps
<1>3. CASE BuildRelayConverter
  <2>1. Plain(<<VideoTee>>) /\ Plain(<<AudioTee>>)
    BY <1>1, PlainOne DEF SinkNames
  <2>2. Plain(<<>>)
    BY <2>1, PlainIf
  <2>3. /\ Len(<<VideoTee>>) > 0 /\ Final(<<VideoTee>>) = VideoTee
        /\ Len(<<AudioTee>>) > 0 /\ Final(<<AudioTee>>) = AudioTee
    BY SingleIs
  <2>4. CASE Recorder
    <3>1. stage = "converter" /\ Extend(<<>>, <<>>, "output")
      BY <1>3, <2>4 DEF BuildRelayConverter
    <3> QED
      BY <2>2, <2>4, <3>1, ExtendKeeps
  <2>5. CASE ~ Recorder
    <3>1. stage = "converter" /\ Extend(<<VideoTee>>, <<AudioTee>>, "output")
      BY <1>3, <2>5 DEF BuildRelayConverter
    <3> QED
      BY <1>1, <2>1, <2>3, <3>1, ExtendKeeps
  <2> QED
    BY <2>4, <2>5
<1> QED
  BY <1>2, <1>3

\* The state in which an input is added.
LEMMA AtInput ==
  ASSUME GraphInv, stage = "input"
  PROVE  /\ IsSeq(elements) /\ LinkInv /\ ProbeInv /\ BinInv /\ StageInv /\ stage # "aborted"
         /\ elements = <<>> /\ links = {} /\ probes = {} /\ class # "mosaic"
         /\ Els(elements) = {} /\ Names(elements) = {} /\ Open(None)
<1>1. /\ IsSeq(elements) /\ LinkInv /\ ProbeInv /\ BinInv /\ StageInv
      /\ elements = <<>> /\ links = {} /\ probes = {} /\ class # "mosaic"
  BY DEF GraphInv, StageInv
<1>2. Els(elements) = {} /\ Names(elements) = {}
  BY <1>1, Literal, ElsOf
<1> QED
  BY <1>1, <1>2, NoneOpen

\* An input of one decodebin, or of one for each medium.
LEMMA InputKeeps ==
  ASSUME GraphInv, stage = "input", NEW v, NEW a, IsSeq(v), IsSeq(a),
         \A e \in Els(v) \cup Els(a) : /\ e.name[1] \notin SinkNames \cup {"none"}
                                       /\ e.plugin = "decodebin" => e.name[2] = 0 \/ class = "device",
         class \notin {"test_input", "display_input"},
         Rtsp => <<"src", 0>> \in Names(v) /\ Decodebin(0) \in Els(v),
         NEW lks, lks = {} \/ lks = Joined(None, v, None) \cup Joined(None, a, None),
         NEW prb, \A p \in prb : p.kind = "input" /\ p.el \in Names(v \o a),
         Add(v \o a, lks, prb, "udb"), UNCHANGED <<cfg, class, out>>, unexpected' \in BOOLEAN
  PROVE  GraphInv'
<1>1. /\ IsSeq(elements) /\ LinkInv /\ ProbeInv /\ stage # "aborted"
      /\ links = {} /\ probes = {} /\ class # "mosaic"
      /\ Els(elements) = {} /\ Names(elements) = {} /\ Open(None)
  BY AtInput
<1>2. PICK line : line = v \o a
  OBVIOUS
<1>3. IsSeq(line) /\ Names(line) = Names(v) \cup Names(a) /\ Els(line) = Els(v) \cup Els(a)
  BY <1>2, Concat
<1>4. Add(line, lks, prb, "udb")
  BY <1>2
<1>5. None \notin Names(v) /\ None \notin Names(a) /\ None \notin Names(line)
  <2>1. None[1] = "none"
    BY DEF None
  <2> QED
    BY <1>3, <2>1, ElsOf
<1>6. LinkInv'
  <2>1. CASE lks = {}
    <3>1. Srcs({}) = {} /\ Dsts({}) = {} /\ \A S, D : Once({}, S, D)
      BY DEF Srcs, Dsts, Once
    <3> QED
      BY <1>1, <1>3, <1>4, <1>5, <2>1, <3>1, AddLinks
  <2>2. CASE lks = Joined(None, v, None) \cup Joined(None, a, None)
    BY <1>1, <1>5, <2>2, TwoLines
  <2> QED
    BY <2>1, <2>2
<1>7. ProbeInv'
  <2>1. \A p \in prb : p.kind # "output" /\ p.el \in Names(line)
    BY <1>2
  <2>2. \A e \in Els(line) : e.name[1] \notin SinkNames
    BY <1>3
  <2> QED
    BY <1>1, <1>3, <1>4, <2>1, <2>2, AddProbes
<1>8. /\ cfg' \in ConfigType /\ stage' \in Stages /\ IsSeq(elements') /\ out' \in Nat
      /\ (stage' = "aborted" \/ stage' = "udb")
      /\ Els(elements') = Els(line) /\ Names(elements') = Names(line)
  <2>1. "udb" \in Stages
    BY DEF Stages
  <2> QED
    BY <1>1, <1>3, <1>4, <2>1, AddTypes, AddIs DEF GraphInv
<1>9. ASSUME stage' = "udb" PROVE BinInv'
  <2>1. Decodebin(0)' = Decodebin(0) /\ Rtsp' = Rtsp
    BY DEF Decodebin, Rtsp
  <2>2. Rtsp => <<"src", 0>> \in Names(elements') /\ Decodebin(0) \in Els(elements')
    BY <1>3, <1>8
  <2>3. \A e \in Els(elements') : e.plugin = "decodebin" => e.name[2] = 0 \/ class \in {"device", "mosaic"}
    BY <1>3, <1>8
  <2> QED
    BY <1>1, <1>9, <2>1, <2>2, <2>3 DEF BinInv, Behind
<1>10. ASSUME stage' = "udb" PROVE ConnInv' /\ StageInv'
  BY <1>1, <1>10 DEF ConnInv, StageInv
<1> QED
  BY <1>6, <1>7, <1>8, <1>9, <1>10 DEF GraphInv

\* A source is called src, or it is null.
LEMMA SrcIs ==
  ASSUME NEW scheme, NEW id
  PROVE  /\ make_src(scheme, id).name[1] \in {"src", "null"}
         /\ make_src(scheme, id).plugin # "decodebin"
BY DEF make_src, make_file_src, make_http_src, make_udp_src, make_rtmp_src, make_tcp_server_src,
       make_srt_src, Element, NullElement

\* The name of a decodebin.
LEMMA BinName ==
  ASSUME NEW i
  PROVE  Decodebin(i).name = <<"decodebin", i>> /\ Decodebin(i).plugin = "decodebin"
BY ElementIs DEF Decodebin

\* A source and a decodebin.
LEMMA InputLine ==
  ASSUME NEW src, NEW i
  PROVE  LET s == <<src, Decodebin(i)>>
         IN  IsSeq(s) /\ Els(s) = {src, Decodebin(i)} /\ src.name \in Names(s)
<1>1. PICK d : d = Decodebin(i)
  OBVIOUS
<1>2. IsSeq(<<src, d>>) /\ Els(<<src, d>>) = {src, d}
  BY Literal
<1> QED
  BY <1>1, <1>2, ElsOf

\* The lines of two media, one of them or none.
LEMMA NoLine ==
  /\ IsSeq(<<>>) /\ Els(<<>>) = {} /\ Names(<<>>) = {}
  /\ Joined(None, <<>>, None) = {}
<1>1. IsSeq(<<>>) /\ Els(<<>>) = {} /\ Len(<<>>) = 0
  BY Literal
<1>2. Names(<<>>) = {}
  BY <1>1, ElsOf
<1>3. Distinct(<<>>)
  BY <1>1 DEF Distinct
<1>4. Joined(None, <<>>, None) = {}
  BY <1>1, <1>2, <1>3, JoinedTail
<1> QED
  BY <1>1, <1>2, <1>4

\* BuildInput keeps the graph.
LEMMA BuildInputKeeps ==
  ASSUME GraphInv, BuildInput
  PROVE  GraphInv'
<1> DEFINE src == CASE class \in {"playlist_relay", "playlist_encode"} -> BuildPlaylistSrc
                    [] class = "timeshift_player" -> BuildMultiFileSrc
                    [] OTHER -> BuildInputSrc
           prb == IF class = "timeshift_player" THEN {} ELSE {Probe(src, 0, "input")}
           v == <<src, Decodebin(0)>>
<1>1. /\ stage = "input" /\ class \notin {"rtsp_relay", "rtsp_encode", "device", "test_input", "display_input"}
      /\ Add(v, Joined(None, v, None), prb, "udb") /\ unexpected' \in BOOLEAN
      /\ UNCHANGED <<cfg, class, conn, out>>
  BY DEF BuildInput
<1>2. src.name[1] \in {"src", "null"} /\ src.plugin # "decodebin"
  <2>1. /\ make_app_src(0).name[1] = "src" /\ make_app_src(0).plugin = "appsrc"
        /\ make_multifile_src(0).name[1] = "src" /\ make_multifile_src(0).plugin = "multifilesrc"
    BY DEF make_app_src, make_multifile_src, Element
  <2>2. make_src(cfg.input[1], 0).name[1] \in {"src", "null"} /\ make_src(cfg.input[1], 0).plugin # "decodebin"
    BY SrcIs
  <2> QED
    BY <2>1, <2>2 DEF BuildPlaylistSrc, BuildMultiFileSrc, BuildInputSrc
<1>3. \A p \in prb : p.kind = "input" /\ p.el = src.name
  BY DEF Probe
<1> HIDE DEF src, prb
<1>4. IsSeq(v) /\ Els(v) = {src, Decodebin(0)} /\ src.name \in Names(v)
  BY InputLine
<1>5. Decodebin(0).name[1] = "decodebin" /\ Decodebin(0).name[2] = 0
  BY BinName
<1> HIDE DEF v
<1>6. IsSeq(<<>>) /\ Els(<<>>) = {} /\ v \o <<>> = v /\ Joined(None, <<>>, None) = {}
  BY <1>4, NoLine, Literal, ConcatEnds
<1>7. Add(v \o <<>>, Joined(None, v, None) \cup Joined(None, <<>>, None), prb, "udb")
  BY <1>1, <1>6
<1>8. \A p \in prb : p.kind = "input" /\ p.el \in Names(v \o <<>>)
  BY <1>3, <1>4, <1>6
<1>9. \A e \in Els(v) \cup Els(<<>>) : /\ e.name[1] \notin SinkNames \cup {"none"}
                                       /\ e.plugin = "decodebin" => e.name[2] = 0 \/ class = "device"
  BY <1>2, <1>4, <1>5, <1>6 DEF SinkNames
<1>10. ~ Rtsp
  BY <1>1 DEF Rtsp
<1>11. PICK lks : lks = Joined(None, v, None) \cup Joined(None, <<>>, None)
  OBVIOUS
<1>12. Add(v \o <<>>, lks, prb, "udb")
  BY <1>7, <1>11
<1> QED
  BY <1>1, <1>4, <1>6, <1>8, <1>9, <1>10, <1>11, <1>12, InputKeeps

\* The inputs of the rtsp streams keep the graph.
LEMMA RtspInputKeeps ==
  ASSUME GraphInv, BuildRtspRelayInput \/ BuildRtspEncodingInput
  PROVE  GraphInv'
<1> DEFINE src == make_rtsp_src(0)
           v == <<src, Decodebin(0)>>
<1>1. /\ stage = "input" /\ class \in {"rtsp_relay", "rtsp_encode"}
      /\ Add(v, {}, {}, "udb") /\ UNCHANGED <<cfg, class, conn, out, unexpected>>
  BY DEF BuildRtspRelayInput, BuildRtspEncodingInput, RtspInput
<1>2. src.name = <<"src", 0>> /\ src.plugin = "rtspsrc"
  BY ElementIs DEF make_rtsp_src
<1> HIDE DEF src
<1>4. IsSeq(v) /\ Els(v) = {src, Decodebin(0)} /\ src.name \in Names(v)
  BY InputLine
<1>5. Decodebin(0).name[1] = "decodebin" /\ Decodebin(0).name[2] = 0
  BY BinName
<1> HIDE DEF v
<1>6. IsSeq(<<>>) /\ Els(<<>>) = {} /\ v \o <<>> = v
  BY <1>4, NoLine, Literal, ConcatEnds
<1>7. Add(v \o <<>>, {}, {}, "udb")
  BY <1>1, <1>6
<1>9. \A e \in Els(v) \cup Els(<<>>) : /\ e.name[1] \notin SinkNames \cup {"none"}
                                       /\ e.plugin = "decodebin" => e.name[2] = 0 \/ class = "device"
  BY <1>2, <1>4, <1>5, <1>6 DEF SinkNames
<1>10. unexpected' \in BOOLEAN
  BY <1>1 DEF GraphInv
<1>11. <<"src", 0>> \in Names(v) /\ Decodebin(0) \in Els(v)
  BY <1>2, <1>4
<1> QED
  BY <1>1, <1>4, <1>6, <1>7, <1>9, <1>10, <1>11, InputKeeps

\* BuildDeviceInput keeps the graph.
LEMMA DeviceInputKeeps ==
  ASSUME GraphInv, BuildDeviceInput
  PROVE  GraphInv'
<1> DEFINE s == make_v4l2_src(0)
           t == make_alsa_src(1)
           v == If(HasVideo, <<s, Decodebin(0)>>)
           a == If(HasAudio, <<t, Decodebin(1)>>)
           prb == {p \in {Probe(s, 0, "input"), Probe(t, 1, "input")} : p.el \in Names(v \o a)}
<1>1. /\ stage = "input" /\ class = "device"
      /\ Add(v \o a, Joined(None, v, None) \cup Joined(None, a, None), prb, "udb")
      /\ unexpected' \in BOOLEAN /\ UNCHANGED <<cfg, class, conn, out>>
  BY DEF BuildDeviceInput, GraphInv
<1>2. s.name[1] = "src" /\ t.name[1] = "src"
  BY DEF make_v4l2_src, make_alsa_src, Element
<1>3. \A p \in prb : p.kind = "input" /\ p.el \in Names(v \o a)
  BY DEF Probe
<1> HIDE DEF prb, s, t
<1>4. IsSeq(v) /\ Els(v) \subseteq {s, Decodebin(0)}
  BY InputLine, NoLine DEF If
<1>5. IsSeq(a) /\ Els(a) \subseteq {t, Decodebin(1)}
  BY InputLine, NoLine DEF If
<1>6. Decodebin(0).name[1] = "decodebin" /\ Decodebin(1).name[1] = "decodebin"
  BY BinName
<1> HIDE DEF v, a
<1>7. \A e \in Els(v) \cup Els(a) : /\ e.name[1] \notin SinkNames \cup {"none"}
                                    /\ e.plugin = "decodebin" => e.name[2] = 0 \/ class = "device"
  BY <1>1, <1>2, <1>4, <1>5, <1>6 DEF SinkNames
<1>8. ~ Rtsp
  BY <1>1 DEF Rtsp
<1>9. PICK lks : lks = Joined(None, v, None) \cup Joined(None, a, None)
  OBVIOUS
<1>10. Add(v \o a, lks, prb, "udb")
  BY <1>1, <1>9
<1> QED
  BY <1>1, <1>3, <1>4, <1>5, <1>7, <1>8, <1>9, <1>10, InputKeeps

\* The test and the display source.
LEMMA RawKeeps ==
  ASSUME GraphInv, class \in {"test_input", "display_input"}, NEW e, NEW f, RawInput(e, f),
         e.name # f.name, Plain(<<e>>), Plain(<<f>>)
  PROVE  GraphInv'
<1>1. PICK v, a : v = If(HasVideo, <<e>>) /\ a = If(HasAudio, <<f>>)
  OBVIOUS
<1>2. PICK line : line = v \o a
  OBVIOUS
<1>3. PICK prb : prb = {Probe(line[k], 0, "input") : k \in DOMAIN line}
  OBVIOUS
<1>4. /\ stage = "input" /\ Add(line, {}, prb, "udb")
      /\ conn' = [video |-> IF HasVideo THEN e.name ELSE None, audio |-> IF HasAudio THEN f.name ELSE None]
      /\ UNCHANGED <<cfg, class, out, unexpected>>
  BY <1>1, <1>2, <1>3 DEF RawInput
<1>5. /\ IsSeq(elements) /\ LinkInv /\ ProbeInv /\ BinInv /\ StageInv /\ stage # "aborted"
      /\ elements = <<>> /\ links = {} /\ probes = {} /\ class # "mosaic"
      /\ Els(elements) = {} /\ Names(elements) = {}
  BY <1>4, AtInput
<1>6. Plain(v) /\ Plain(a) /\ Plain(line) /\ IsSeq(line) /\ None \notin Names(line)
  <2>1. Plain(v) /\ Plain(a)
    BY <1>1, PlainIf
  <2>2. Plain(line)
    BY <1>2, <2>1, PlainConcat
  <2> QED
    BY <2>1, <2>2, PlainNone
<1>7. Names(line) = Names(v) \cup Names(a)
  BY <1>2, <1>6, Concat DEF Plain
<1>8. \A p \in prb : p.kind = "input" /\ p.el \in Names(line)
  BY <1>3 DEF Probe, Names
<1>9. Srcs({}) = {} /\ Dsts({}) = {} /\ \A S, D : Once({}, S, D)
  BY DEF Srcs, Dsts, Once
<1>10. LinkInv'
  BY <1>4, <1>5, <1>6, <1>9, AddLinks
<1>11. ProbeInv'
  BY <1>4, <1>5, <1>6, <1>8, AddProbes DEF Plain
<1>12. /\ cfg' \in ConfigType /\ stage' \in Stages /\ IsSeq(elements') /\ out' \in Nat /\ unexpected' \in BOOLEAN
       /\ (stage' = "aborted" \/ stage' = "udb")
       /\ Els(elements') = Els(line) /\ Names(elements') = Names(line) /\ links' = {}
  <2>1. "udb" \in Stages
    BY DEF Stages
  <2> QED
    BY <1>4, <1>5, <1>6, <2>1, AddTypes, AddIs DEF GraphInv
<1>13. ASSUME stage' = "udb" PROVE BinInv'
  <2>1. \A x \in Els(elements') : x.plugin # "decodebin"
    BY <1>6, <1>12 DEF Plain
  <2>2. ~ Rtsp'
    BY <1>4 DEF Rtsp
  <2> QED
    BY <2>1, <2>2 DEF BinInv
<1>14. ASSUME stage' = "udb" PROVE ConnInv'
  <2>1. Srcs(links') = {}
    BY <1>9, <1>12
  <2>2. e.name # None /\ f.name # None
    <3>1. e.name \in Names(<<e>>) /\ f.name \in Names(<<f>>)
      BY SingleIs
    <3> QED
      BY <3>1, PlainNone
  <2>3. (HasVideo => e.name \in Names(line)) /\ (HasAudio => f.name \in Names(line))
    <3>1. HasVideo => e.name \in Names(v)
      BY <1>1, IfIs, SingleIs
    <3>2. HasAudio => f.name \in Names(a)
      BY <1>1, IfIs, SingleIs
    <3> QED
      BY <1>7, <3>1, <3>2
  <2>4. ConnOk(conn.video, "video")'
    BY <1>4, <1>12, <1>14, <2>1, <2>2, <2>3 DEF ConnOk, HasVideo
  <2>5. ConnOk(conn.audio, "audio")'
    BY <1>4, <1>12, <1>14, <2>1, <2>2, <2>3 DEF ConnOk, HasAudio
  <2>6. conn'.video # None => conn'.video # conn'.audio
    BY <1>4
  <2> QED
    BY <2>4, <2>5, <2>6 DEF ConnInv
<1>15. ASSUME stage' = "udb" PROVE StageInv'
  BY <1>4, <1>5, <1>15 DEF StageInv
<1> QED
  BY <1>10, <1>11, <1>12, <1>13, <1>14, <1>15 DEF GraphInv

\* BuildTestInput and BuildDisplayInput keep the graph.
LEMMA RawInputsKeep ==
  ASSUME GraphInv, BuildTestInput \/ BuildDisplayInput
  PROVE  GraphInv'
<1>1. CASE BuildTestInput
  <2> DEFINE e == Element("videotestsrc", "video_src", 0)
             f == Element("audiotestsrc", "audio_src", 0)
  <2>1. /\ e.name = <<"video_src", 0>> /\ e.plugin = "videotestsrc"
        /\ f.name = <<"audio_src", 0>> /\ f.plugin = "audiotestsrc"
    BY ElementIs
  <2>2. class = "test_input" /\ RawInput(e, f)
    BY <1>1 DEF BuildTestInput
  <2> HIDE DEF e, f
  <2>3. Plain(<<e>>) /\ Plain(<<f>>) /\ e.name # f.name
    BY <2>1, PlainOne DEF SinkNames
  <2> QED
    BY <2>2, <2>3, RawKeeps
<1>2. CASE BuildDisplayInput
  <2> DEFINE e == Element("ximagesrc", "src", 0)
             f == Element("audiotestsrc", "src", 1)
  <2>1. /\ e.name = <<"src", 0>> /\ e.plugin = "ximagesrc"
        /\ f.name = <<"src", 1>> /\ f.plugin = "audiotestsrc"
    BY ElementIs
  <2>2. class = "display_input" /\ RawInput(e, f)
    BY <1>2 DEF BuildDisplayInput
  <2> HIDE DEF e, f
  <2>3. Plain(<<e>>) /\ Plain(<<f>>) /\ e.name # f.name
    BY <2>1, PlainOne DEF SinkNames
  <2> QED
    BY <2>2, <2>3, RawKeeps
<1> QED
  BY <1>1, <1>2

\* The muxer and the sink of an output.
LEMMA MuxerIs ==
  ASSUME NEW scheme, NEW i
  PROVE  LET mux == make_muxer(scheme, i)
         IN  \/ mux = NullElement
             \/ mux.name = <<"muxer", i>> /\ mux.plugin \in {"flvmux", "rtpmux", "mpegtsmux"}
BY DEF make_muxer, Element

\* The sink of an output is named after it, or null.
LEMMA SinkIs ==
  ASSUME NEW scheme, NEW i
  PROVE  LET sink == build_output(scheme, i)
         IN  \/ sink = NullElement
             \/ /\ sink.name = <<"sink", i>>
                /\ sink.plugin \in {"udpsink", "tcpserversink", "rtmpsink", "hlssink", "srtsink"}
BY DEF build_output, make_udp_sink, make_tcp_server_sink, make_rtmp_sink, make_http_sink, make_srt_sink, Element

\* A connection stays one while links are added elsewhere.
LEMMA ConnKept ==
  ASSUME NEW n, NEW m, ConnOk(n, m), LinkInv, stage # "aborted", UNCHANGED <<cfg, class>>, stage' = stage,
         Names(elements) \subseteq Names(elements'), ManyOut(elements) \subseteq ManyOut(elements'),
         NEW lks, Srcs(links') = Srcs(links) \cup Srcs(lks), n \in Srcs(lks) => n \in ManyOut(elements')
  PROVE  ConnOk(n, m)'
<1>1. Recorder' = Recorder
  BY DEF Recorder
<1> QED
  BY <1>1 DEF ConnOk

\* The line of an output: the muxer, the branches of the media, the sink.
IsOutput(line, mux, v, a, sink) == line = <<mux>> \o v \o a \o <<sink>>

\* What the line of an output holds, and what it means that its names are distinct.
LEMMA OutputLine ==
  ASSUME NEW mux, NEW v, NEW a, NEW sink, IsSeq(v), IsSeq(a), NEW line, IsOutput(line, mux, v, a, sink)
  PROVE  /\ IsSeq(line) /\ Els(line) = {mux, sink} \cup Els(v) \cup Els(a)
         /\ Names(line) = {mux.name, sink.name} \cup Names(v) \cup Names(a)
         /\ Distinct(line) =>
                  /\ Distinct(v) /\ Distinct(a) /\ Names(v) \cap Names(a) = {} /\ mux.name # sink.name
                  /\ mux.name \notin Names(v) \cup Names(a) /\ sink.name \notin Names(v) \cup Names(a)
<1> DEFINE x == <<mux>>
           y == <<sink>>
<1>1. IsSeq(x) /\ Els(x) = {mux} /\ IsSeq(y) /\ Els(y) = {sink}
  BY Literal
<1>2. Names(x) = {mux.name} /\ Names(y) = {sink.name}
  BY <1>1, ElsOf
<1> HIDE DEF x, y
<1> DEFINE p == x \o v
<1>3. IsSeq(p) /\ Els(p) = Els(x) \cup Els(v) /\ Names(p) = Names(x) \cup Names(v)
  BY <1>1, Concat
<1>4. Distinct(p) => Distinct(v) /\ Names(x) \cap Names(v) = {}
  BY <1>1, DistinctParts
<1> HIDE DEF p
<1> DEFINE q == p \o a
<1>5. IsSeq(q) /\ Els(q) = Els(p) \cup Els(a) /\ Names(q) = Names(p) \cup Names(a)
  BY <1>3, Concat
<1>6. Distinct(q) => Distinct(p) /\ Distinct(a) /\ Names(p) \cap Names(a) = {}
  BY <1>3, DistinctParts
<1> HIDE DEF q
<1> DEFINE r == q \o y
<1>7. IsSeq(r) /\ Els(r) = Els(q) \cup Els(y) /\ Names(r) = Names(q) \cup Names(y)
  BY <1>1, <1>5, Concat
<1>8. Distinct(r) => Distinct(q) /\ Names(q) \cap Names(y) = {}
  BY <1>1, <1>5, DistinctParts
<1>9. line = r
  BY DEF IsOutput, r, q, p, x, y
<1> HIDE DEF r
<1>10. Els(r) = {mux, sink} \cup Els(v) \cup Els(a)
  BY <1>1, <1>3, <1>5, <1>7
<1>11. Names(r) = {mux.name, sink.name} \cup Names(v) \cup Names(a)
  BY <1>2, <1>3, <1>5, <1>7
<1>12. Distinct(r) => /\ Distinct(v) /\ Distinct(a) /\ Names(v) \cap Names(a) = {} /\ mux.name # sink.name
                      /\ mux.name \notin Names(v) \cup Names(a) /\ sink.name \notin Names(v) \cup Names(a)
  BY <1>2, <1>3, <1>4, <1>5, <1>6, <1>8
<1> QED
  BY <1>7, <1>9, <1>10, <1>11, <1>12

\* BuildOutput and BuildMosaicOutput.
LEMMA OutputKeeps ==
  ASSUME GraphInv, stage \in {"output", "mosaic_output"}, class # "test_life", ~ Recorder,
         NEW i, i = out, out < Len(cfg.output), NEW url, NEW video, NEW audio, Plain(video), Plain(audio),
         AddOutput(i, url, video, audio), UNCHANGED <<cfg, class, conn>>, out' = out + 1,
         unexpected' \in BOOLEAN
  PROVE  GraphInv'
<1>0. PICK c, d : c = conn.video /\ d = conn.audio
  OBVIOUS
<1>1. PICK mux, sink : mux = make_muxer(SchemeOf(url), i) /\ sink = build_output(url, i)
  OBVIOUS
<1>2. PICK v, a : v = If(HasVideo, video) /\ a = If(HasAudio, audio)
  OBVIOUS
<1>3. PICK line : line = <<mux>> \o v \o a \o <<sink>>
  OBVIOUS
<1>4. PICK J, K, L : /\ J = IF HasVideo THEN Joined(c, v, mux.name) ELSE {}
                     /\ K = IF HasAudio THEN Joined(d, a, mux.name) ELSE {}
                     /\ L = {<<mux.name, sink.name>>}
  OBVIOUS
<1>5. PICK prb : prb = {Probe(sink, i, "output")}
  OBVIOUS
<1>6. PICK st : st = stage
  OBVIOUS
<1>7. Add(line, J \cup K \cup L, prb, st)
  BY <1>0, <1>1, <1>2, <1>3, <1>4, <1>5, <1>6 DEF AddOutput
<1>8. Plain(v) /\ Plain(a) /\ IsSeq(v) /\ IsSeq(a) /\ None \notin Names(v) /\ None \notin Names(a)
  BY <1>2, PlainIf, PlainNone
<1>9. /\ IsSeq(elements) /\ LinkInv /\ ProbeInv /\ BinInv /\ ConnInv /\ StageInv /\ stage # "aborted"
      /\ ConnOk(c, "video") /\ ConnOk(d, "audio") /\ (c # None => c # d)
      /\ None \notin Names(elements)
      /\ Srcs(links) \subseteq Names(elements)
  BY <1>0 DEF GraphInv, ConnInv, LinkInv
<1>10. /\ c \in Names(elements) \cup {None} /\ d \in Names(elements) \cup {None}
       /\ (HasVideo => c \in ManyOut(elements) /\ c # None) /\ (HasAudio => d \in ManyOut(elements) /\ d # None)
  BY <1>9 DEF ConnOk, HasVideo, HasAudio
<1>11. /\ IsSeq(line) /\ Els(line) = {mux, sink} \cup Els(v) \cup Els(a)
       /\ Names(line) = {mux.name, sink.name} \cup Names(v) \cup Names(a)
       /\ Distinct(line) =>
                  /\ Distinct(v) /\ Distinct(a) /\ Names(v) \cap Names(a) = {} /\ mux.name # sink.name
                  /\ mux.name \notin Names(v) \cup Names(a) /\ sink.name \notin Names(v) \cup Names(a)
  <2>1. IsOutput(line, mux, v, a, sink)
    BY <1>3 DEF IsOutput
  <2> QED
    BY <1>8, <2>1, OutputLine
<1>12. /\ mux = NullElement \/ (mux.name = <<"muxer", i>> /\ mux.plugin \in {"flvmux", "rtpmux", "mpegtsmux"})
       /\ sink = NullElement \/ (/\ sink.name = <<"sink", i>>
                                 /\ sink.plugin \in {"udpsink", "tcpserversink", "rtmpsink", "hlssink", "srtsink"})
  BY <1>1, MuxerIs, SinkIs
<1>13. /\ mux.name[1] \in {"muxer", "null"} /\ sink.name[1] \in {"sink", "null"}
       /\ mux.plugin # "decodebin" /\ sink.plugin # "decodebin"
  BY <1>12, NullIs
<1>14. None # mux.name /\ None # sink.name /\ None \notin Names(line)
  <2>1. None[1] = "none"
    BY DEF None
  <2> QED
    BY <1>8, <1>11, <1>13, <2>1
<1>15. /\ Srcs(J) \subseteq Names(v) \cup (IF HasVideo THEN {c} ELSE {}) /\ Dsts(J) \subseteq Names(v) \cup {mux.name}
       /\ Srcs(K) \subseteq Names(a) \cup (IF HasAudio THEN {d} ELSE {}) /\ Dsts(K) \subseteq Names(a) \cup {mux.name}
       /\ Srcs(L) = {mux.name} /\ Dsts(L) = {sink.name}
  <2>1. Srcs({}) = {} /\ Dsts({}) = {}
    BY DEF Srcs, Dsts
  <2>2. Srcs(L) = {mux.name} /\ Dsts(L) = {sink.name}
    BY <1>4 DEF Srcs, Dsts
  <2>3. Srcs(J) \subseteq Names(v) \cup (IF HasVideo THEN {c} ELSE {}) /\ Dsts(J) \subseteq Names(v) \cup {mux.name}
    BY <1>4, <1>8, <2>1, JoinedGraph
  <2>4. Srcs(K) \subseteq Names(a) \cup (IF HasAudio THEN {d} ELSE {}) /\ Dsts(K) \subseteq Names(a) \cup {mux.name}
    BY <1>4, <1>8, <2>1, JoinedGraph
  <2> QED
    BY <2>2, <2>3, <2>4
<1>16. PICK lks : lks = J \cup K \cup L
  OBVIOUS
<1>17. /\ Srcs(lks) = Srcs(J) \cup Srcs(K) \cup Srcs(L)
       /\ Dsts(lks) = Dsts(J) \cup Dsts(K) \cup Dsts(L)
  BY <1>16 DEF Srcs, Dsts
<1>18. Add(line, lks, prb, st)
  BY <1>7, <1>16
<1>19. /\ elements' = elements \o line /\ Els(elements') = Els(elements) \cup Els(line)
       /\ Names(elements') = Names(elements) \cup Names(line) /\ links' = links \cup lks
       /\ stage' = "aborted" \/ stage' = st
       /\ stage' # "aborted" => Distinct(elements') /\ NullElement \notin Els(line)
  BY <1>6, <1>9, <1>11, <1>18, AddIs
<1>20. ManyOut(elements) \subseteq ManyOut(elements') /\ ManyIn(elements) \subseteq ManyIn(elements')
  BY <1>19, ManyWider
<1>21. ASSUME stage' # "aborted"
       PROVE  /\ Distinct(line) /\ Names(elements) \cap Names(line) = {}
              /\ mux.name \in ManyIn(elements')
              /\ sink.name = <<"sink", i>>
  <2>1. Distinct(line) /\ Names(elements) \cap Names(line) = {}
    BY <1>9, <1>11, <1>19, <1>21, DistinctParts
  <2>2. mux # NullElement /\ sink # NullElement /\ mux \in Els(elements')
    BY <1>11, <1>19, <1>21
  <2>3. mux.plugin \in ManySink
    BY <1>12, <2>2 DEF ManySink
  <2> QED
    BY <1>12, <2>1, <2>2, <2>3 DEF ManyIn
<1>22. LinkInv'
  <2>1. ASSUME stage' # "aborted"
        PROVE  /\ Once(lks, ManyOut(elements'), ManyIn(elements'))
               /\ Srcs(links) \cap Srcs(lks) \subseteq ManyOut(elements')
               /\ Names(elements) \cap Dsts(lks) \subseteq ManyIn(elements')
    <3>0. PICK S, D : S = ManyOut(elements') /\ D = ManyIn(elements')
      OBVIOUS
    <3>1. /\ Distinct(v) /\ Distinct(a) /\ Names(v) \cap Names(a) = {} /\ mux.name # sink.name
          /\ mux.name \notin Names(v) \cup Names(a) /\ sink.name \notin Names(v) \cup Names(a)
          /\ Names(elements) \cap Names(line) = {}
          /\ c \notin Names(line) /\ d \notin Names(line)
      BY <1>10, <1>11, <1>14, <1>21, <2>1
    <3>2. Once({}, S, D) /\ Once(L, S, D)
      BY <1>4 DEF Once
    <3>3. Once(J, S, D)
      BY <1>4, <1>8, <1>11, <3>1, <3>2, JoinedGraph
    <3>4. Once(K, S, D)
      BY <1>4, <1>8, <1>11, <3>1, <3>2, JoinedGraph
    <3>5. Once(J \cup K, S, D)
      <4>1. Srcs(J) \cap Srcs(K) \subseteq S
        <5> SUFFICES ASSUME NEW n \in Srcs(J), n \in Srcs(K) PROVE FALSE
          OBVIOUS
        <5>1. n \in Names(v) \/ (HasVideo /\ n = c)
          BY <1>15
        <5>2. n \in Names(a) \/ (HasAudio /\ n = d)
          BY <1>15
        <5>3. HasVideo => c \notin Names(a)
          BY <1>11, <3>1
        <5>4. HasAudio => d \notin Names(v)
          BY <1>11, <3>1
        <5>5. HasVideo => c # d
          BY <1>9, <1>10
        <5> QED
          BY <3>1, <5>1, <5>2, <5>3, <5>4, <5>5
      <4>2. Dsts(J) \cap Dsts(K) \subseteq D
        BY <1>15, <1>21, <2>1, <3>0, <3>1
      <4> QED
        BY <3>3, <3>4, <4>1, <4>2, OnceUnion
    <3>6. Srcs(J \cup K) = Srcs(J) \cup Srcs(K) /\ Dsts(J \cup K) = Dsts(J) \cup Dsts(K)
      BY LinksUnion
    <3>7. Once(lks, S, D)
      <4>0. mux.name \in Names(line) /\ sink.name \in Names(line)
        BY <1>11
      <4>1. Srcs(J \cup K) \cap Srcs(L) = {} /\ Dsts(J \cup K) \cap Dsts(L) = {}
        <5>1. mux.name \notin Srcs(J) /\ sink.name \notin Dsts(J)
          BY <1>15, <3>1, <4>0
        <5>2. mux.name \notin Srcs(K) /\ sink.name \notin Dsts(K)
          BY <1>15, <3>1, <4>0
        <5> QED
          BY <1>15, <3>6, <5>1, <5>2
      <4> QED
        BY <1>16, <3>2, <3>5, <4>1, OnceUnion
    <3>8. Srcs(links) \cap Srcs(lks) \subseteq ManyOut(elements')
      BY <1>9, <1>10, <1>11, <1>15, <1>17, <1>20, <3>1
    <3>9. Names(elements) \cap Dsts(lks) = {}
      BY <1>11, <1>15, <1>17, <3>1
    <3> QED
      BY <3>0, <3>7, <3>8, <3>9
  <2>2. Srcs(lks) \cup Dsts(lks) \subseteq Names(elements) \cup Names(line)
    <3>1. (HasVideo => c \in Names(elements)) /\ (HasAudio => d \in Names(elements))
      BY <1>10
    <3> QED
      BY <1>11, <1>15, <1>17, <3>1
  <2> QED
    BY <1>9, <1>11, <1>14, <1>18, <2>1, <2>2, AddLinks
<1>23. ProbeInv'
  <2>1. \A p \in prb : p.el = sink.name /\ p.kind = "output" /\ p.id = i
    BY <1>5 DEF Probe
  <2>2. \E p \in prb : p.el = sink.name /\ p.kind = "output"
    BY <1>5 DEF Probe
  <2>3. \A e \in Els(line) : e.name[1] \in SinkNames => e = sink
    BY <1>8, <1>11, <1>13 DEF Plain, SinkNames
  <2>4. ASSUME stage' # "aborted"
        PROVE  \A p \in prb : p.el[2] = p.id /\ p.id < Len(cfg.output)
    BY <1>21, <2>1, <2>4
  <2>5. \A p \in prb : p.el \in Names(elements) \cup Names(line)
    BY <1>11, <2>1
  <2> QED
    BY <1>9, <1>11, <1>18, <2>2, <2>3, <2>4, <2>5, AddProbes
<1>24. stage' # "aborted" => BinInv'
  <2>1. \A e \in Els(line) : e.plugin # "decodebin"
    BY <1>8, <1>11, <1>13 DEF Plain
  <2>2. st \in Behind => stage \in Behind
    BY <1>6
  <2>3. st \in {"udb"} \cup Behind => stage \in {"udb"} \cup Behind
    BY <1>6
  <2> QED
    BY <1>9, <1>11, <1>18, <2>1, <2>2, <2>3, AddBins
<1>25. cfg' \in ConfigType /\ stage' \in Stages /\ IsSeq(elements') /\ out' \in Nat
  <2>1. st \in Stages
    BY <1>6 DEF GraphInv
  <2> QED
    BY <1>9, <1>11, <1>18, <2>1, AddTypes DEF GraphInv
<1>26. ASSUME stage' = st, stage' # "aborted" PROVE ConnInv' /\ StageInv'
  <2>1. Srcs(links') = Srcs(links) \cup Srcs(lks)
    BY <1>19, LinksUnion
  <2>2. c \in Srcs(lks) => c \in ManyOut(elements')
    BY <1>9, <1>10, <1>11, <1>14, <1>15, <1>17, <1>20, <1>21, <1>26
  <2>3. d \in Srcs(lks) => d \in ManyOut(elements')
    BY <1>9, <1>10, <1>11, <1>14, <1>15, <1>17, <1>20, <1>21, <1>26
  <2>4. ConnOk(c, "video")'
    BY <1>6, <1>9, <1>19, <1>20, <1>26, <2>1, <2>2, ConnKept
  <2>5. ConnOk(d, "audio")'
    BY <1>6, <1>9, <1>19, <1>20, <1>26, <2>1, <2>3, ConnKept
  <2>6. conn'.video = c /\ conn'.audio = d
    BY <1>0
  <2>7. ConnOk(conn.video, "video")' /\ ConnOk(conn.audio, "audio")'
    BY <2>4, <2>5, <2>6 DEF ConnOk
  <2> QED
    BY <1>6, <1>9, <1>26, <2>6, <2>7 DEF ConnInv, StageInv
<1> QED
  BY <1>19, <1>22, <1>23, <1>24, <1>25, <1>26 DEF GraphInv

\* A step that adds nothing: an output is skipped, the building ends.
LEMMA StageOnly ==
  ASSUME GraphInv, stage # "aborted", UNCHANGED <<cfg, class, elements, links, probes, conn>>,
         out' \in Nat, unexpected' \in BOOLEAN,
         \/ stage' = stage \/ stage' \in {"failed", "aborted", "declined"}
         \/ stage' = "built" /\ stage \in {"output", "mosaic_output"}
  PROVE  GraphInv'
<1>1. /\ Els(elements)' = Els(elements) /\ Names(elements)' = Names(elements) /\ Srcs(links)' = Srcs(links)
      /\ ManyOut(elements)' = ManyOut(elements) /\ Recorder' = Recorder /\ Rtsp' = Rtsp
  BY DEF Els, Names, Srcs, ManyOut, Recorder, Rtsp
<1>2. (cfg \in ConfigType /\ stage \in Stages /\ IsSeq(elements))'
  BY <1>1 DEF GraphInv, IsSeq, Stages, Ended
<1>3. LinkInv'
  BY <1>1 DEF GraphInv, LinkInv, Dsts, Distinct, Once, ManyIn
<1>4. ProbeInv'
  BY <1>1 DEF GraphInv, ProbeInv
<1>5. stage' = "built" /\ stage = "mosaic_output" => class = "mosaic"
  BY DEF GraphInv, StageInv
<1>6. stage' # "aborted" => BinInv'
  BY <1>1, <1>5 DEF GraphInv, BinInv, Udb, Rtsp, Behind, Decodebin
<1>7. stage' # "aborted" => ConnInv'
  BY <1>1 DEF GraphInv, ConnInv, ConnOk
<1>8. stage' # "aborted" => StageInv'
  BY <1>1 DEF GraphInv, StageInv
<1> QED
  BY <1>2, <1>3, <1>4, <1>6, <1>7, <1>8 DEF GraphInv

\* The end of the building keeps the graph.
LEMMA DoneKeeps ==
  ASSUME GraphInv, BuildDone \/ MosaicDone
  PROVE  GraphInv'
<1>1. /\ stage \in {"output", "mosaic_output"} /\ stage' = "built"
      /\ UNCHANGED <<cfg, class, elements, links, probes, conn, out, unexpected>>
  BY DEF BuildDone, MosaicDone
<1> QED
  BY <1>1, StageOnly DEF GraphInv

\* The lines of BuildOutput.
LEMMA BranchesPlain ==
  ASSUME NEW i, NEW scheme
  PROVE  Plain(VideoBranch(i, scheme)) /\ Plain(AudioBranch(i, scheme))
<1>1. "decodebin" \notin {"queue"} \cup Pays
  BY DEF Pays
<1>2. {"video_tee_queue", "video_pay"} \cap (SinkNames \cup {"none"}) = {}
  BY DEF SinkNames
<1>3. {"audio_tee_queue", PayPattern} \cap (SinkNames \cup {"none"}) = {}
  BY DEF SinkNames, PayPattern
<1>4. Plain(VideoBranch(i, scheme))
  BY <1>1, <1>2, VideoBranchLine, PlainLine
<1>5. Plain(AudioBranch(i, scheme))
  BY <1>1, <1>3, AudioBranchLine, PlainLine
<1> QED
  BY <1>4, <1>5

\* BuildOutput keeps the graph; a device output is skipped.
LEMMA BuildOutputKeeps ==
  ASSUME GraphInv, BuildOutput
  PROVE  GraphInv'
<1>1. PICK url, scheme : url = cfg.output[out + 1] /\ scheme = SchemeOf(url)
  OBVIOUS
<1>2. /\ stage = "output" /\ class # "test_life" /\ ~ Recorder /\ out < Len(cfg.output)
      /\ out' = out + 1 /\ UNCHANGED <<cfg, class, conn>> /\ out \in Nat /\ unexpected \in BOOLEAN
  BY DEF BuildOutput, GraphInv
<1>3. CASE IsDevice(url)
  <2>1. UNCHANGED <<stage, elements, links, probes, unexpected>>
    BY <1>1, <1>3 DEF BuildOutput
  <2> QED
    BY <1>2, <2>1, StageOnly
<1>4. CASE ~ IsDevice(url)
  <2>1. PICK video, audio : video = VideoBranch(out, scheme) /\ audio = AudioBranch(out, scheme)
    OBVIOUS
  <2>2. AddOutput(out, url, video, audio) /\ unexpected' \in BOOLEAN
    BY <1>1, <1>2, <1>4, <2>1 DEF BuildOutput
  <2>3. Plain(video) /\ Plain(audio)
    BY <2>1, BranchesPlain
  <2>4. PICK i : i = out
    OBVIOUS
  <2>5. AddOutput(i, url, video, audio)
    BY <2>2, <2>4
  <2> QED
    BY <1>2, <2>2, <2>3, <2>4, <2>5, OutputKeeps
<1> QED
  BY <1>3, <1>4

-----------------------------------------------------------------------------
\* A medium that is not there has no line, and nothing is linked to it.
LEMMA NoJoin ==
  ASSUME NEW from
  PROVE  Joined(from, <<>>, None) = {}
<1>1. Distinct(<<>>)
  BY NoLine DEF Distinct
<1> QED
  BY <1>1, NoLine, Literal, JoinedTail

\* Every sink of a line has a probe, which reports under the output of its name.
Reported(line, prb) ==
    /\ \A p \in prb : /\ p.el \in Names(line)
                      /\ p.kind = "output" =>
                           /\ class # "test_life" => p.el[2] = p.id /\ p.id < Len(cfg.output)
                           /\ class = "test_life" => p.id = 0
    /\ \A e \in Els(line) : e.name[1] \in SinkNames => \E p \in prb : p.el = e.name /\ p.kind = "output"

\* Sinks behind both connections, without a muxer.
LEMMA SinksKeep ==
  ASSUME GraphInv, stage \in {"output", "mosaic_output"}, NEW v, NEW a, IsSeq(v), IsSeq(a),
         \A e \in Els(v) \cup Els(a) : e.name[1] # "none" /\ e.plugin # "decodebin",
         ~ HasVideo => v = <<>>, ~ HasAudio => a = <<>>,
         NEW c, NEW d, c = conn.video, d = conn.audio, NEW prb, NEW next,
         next = "built" \/ (next = stage /\ ~ Recorder),
         Add(v \o a, Joined(c, v, None) \cup Joined(d, a, None), prb, next),
         Reported(v \o a, prb),
         UNCHANGED <<cfg, class, conn>>, out' \in Nat, unexpected' \in BOOLEAN
  PROVE  GraphInv'
<1>1. /\ IsSeq(elements) /\ LinkInv /\ ProbeInv /\ BinInv /\ ConnInv /\ StageInv /\ stage # "aborted"
      /\ ConnOk(c, "video") /\ ConnOk(d, "audio") /\ (c # None => c # d)
  BY DEF GraphInv, ConnInv
<1>2. c \in Names(elements) \cup {None} /\ d \in Names(elements) \cup {None} /\ Open(c) /\ Open(d)
  BY <1>1 DEF ConnOk, Open
<1>3. None \notin Names(v) /\ None \notin Names(a)
  <2>1. None[1] = "none"
    BY DEF None
  <2> QED
    BY <2>1, ElsOf
<1>4. LinkInv'
  BY <1>1, <1>2, <1>3, TwoLines
<1>5. PICK line : line = v \o a
  OBVIOUS
<1>6. IsSeq(line) /\ Els(line) = Els(v) \cup Els(a) /\ Names(line) = Names(v) \cup Names(a)
  BY <1>5, Concat
<1>7. PICK J, K : J = Joined(c, v, None) /\ K = Joined(d, a, None)
  OBVIOUS
<1>8. PICK lks : lks = J \cup K
  OBVIOUS
<1>9. Add(line, lks, prb, next)
  BY <1>5, <1>7, <1>8
<1>10. ProbeInv'
  BY <1>1, <1>5, <1>6, <1>9, AddProbes DEF Reported
<1>11. stage' # "aborted" => BinInv'
  <2>1. \A e \in Els(line) : e.plugin # "decodebin"
    BY <1>6
  <2>2. next \in {"udb"} \cup Behind => stage \in {"udb"} \cup Behind \/ class = "mosaic"
    BY <1>1 DEF Behind, StageInv
  <2>3. CASE class # "mosaic"
    <3>1. stage \in Behind
      BY <1>1, <2>3 DEF StageInv, Behind
    <3> QED
      BY <1>1, <1>6, <1>9, <2>1, <3>1, AddBins
  <2>4. CASE class = "mosaic"
    <3>1. /\ Els(elements') = Els(elements) \cup Els(line)
          /\ Names(elements') = Names(elements) \cup Names(line)
      BY <1>1, <1>6, <1>9, AddIs
    <3>2. ~ Rtsp' /\ \A m, b : Udb(m, b)' = Udb(m, b)
      BY <2>4 DEF Rtsp, Udb
    <3>3. ASSUME NEW e \in Els(elements'), e.plugin = "decodebin"
          PROVE  \A m \in cfg.have : Udb(m, e.name[2]) \in Names(elements')
      BY <1>1, <2>1, <2>4, <3>1, <3>3 DEF BinInv
    <3> QED
      BY <2>4, <3>2, <3>3 DEF BinInv
  <2> QED
    BY <2>3, <2>4
<1>12. cfg' \in ConfigType /\ stage' \in Stages /\ IsSeq(elements')
  <2>1. next \in Stages
    BY DEF GraphInv, Stages, Ended
  <2> QED
    BY <1>6, <1>9, <2>1, AddTypes
<1>13. /\ elements' = elements \o line /\ Els(elements') = Els(elements) \cup Els(line)
       /\ Names(elements') = Names(elements) \cup Names(line) /\ links' = links \cup lks
       /\ stage' = "aborted" \/ stage' = next
       /\ stage' # "aborted" => Distinct(elements')
  BY <1>1, <1>6, <1>9, AddIs
<1>14. ASSUME stage' = next, stage' # "aborted" PROVE ConnInv' /\ StageInv'
  <2>1. CASE next = "built"
    BY <1>14, <2>1 DEF ConnInv, StageInv
  <2>2. CASE next = stage /\ ~ Recorder
    <3>1. ManyOut(elements) \subseteq ManyOut(elements')
      BY <1>13, ManyWider
    <3>2. Names(elements) \cap Names(line) = {}
      BY <1>1, <1>6, <1>13, <1>14, DistinctParts
    <3>3. /\ Srcs(J) \subseteq Names(v) \cup ({c} \ {None})
          /\ Srcs(K) \subseteq Names(a) \cup ({d} \ {None})
      BY <1>7, JoinedGraph
    <3>4. (HasVideo => c \in ManyOut(elements) /\ c # None) /\ (HasAudio => d \in ManyOut(elements) /\ d # None)
      BY <1>1, <2>2 DEF ConnOk, HasVideo, HasAudio
    <3>5. (~ HasVideo => J = {}) /\ (~ HasAudio => K = {})
      BY <1>7, NoJoin
    <3>6. Srcs(lks) = Srcs(J) \cup Srcs(K) /\ Srcs(links') = Srcs(links) \cup Srcs(lks) /\ Srcs({}) = {}
      BY <1>8, <1>13, LinksUnion DEF Srcs
    <3>7. c \in Srcs(lks) => c \in ManyOut(elements')
      <4>1. c \notin Names(line)
        BY <1>2, <1>3, <1>6, <3>2
      <4>2. CASE HasVideo
        BY <3>1, <3>4, <4>2
      <4>3. CASE ~ HasVideo
        BY <1>1, <1>6, <3>3, <3>5, <3>6, <4>1, <4>3
      <4> QED
        BY <4>2, <4>3
    <3>8. d \in Srcs(lks) => d \in ManyOut(elements')
      <4>1. d \notin Names(line)
        BY <1>2, <1>3, <1>6, <3>2
      <4>2. CASE HasAudio
        BY <3>1, <3>4, <4>2
      <4>3. CASE ~ HasAudio
        BY <1>1, <1>6, <3>3, <3>5, <3>6, <4>1, <4>3
      <4> QED
        BY <4>2, <4>3
    <3>9. ConnOk(c, "video")'
      BY <1>1, <1>13, <1>14, <2>2, <3>1, <3>6, <3>7, ConnKept
    <3>10. ConnOk(d, "audio")'
      BY <1>1, <1>13, <1>14, <2>2, <3>1, <3>6, <3>8, ConnKept
    <3>11. ConnOk(conn.video, "video")' /\ ConnOk(conn.audio, "audio")'
      BY <3>9, <3>10 DEF ConnOk
    <3> QED
      BY <1>1, <1>14, <2>2, <3>11 DEF ConnInv, StageInv
  <2> QED
    BY <2>1, <2>2
<1> QED
  BY <1>4, <1>10, <1>11, <1>12, <1>13, <1>14 DEF GraphInv

\* The sinks of a life test.
LEMMA TestOutputKeeps ==
  ASSUME GraphInv, BuildTestOutput
  PROVE  GraphInv'
<1>0. PICK c, d : c = conn.video /\ d = conn.audio
  OBVIOUS
<1>1. PICK s, t : s = make_test_sink(0) /\ t = make_test_sink(1)
  OBVIOUS
<1>2. s.name = <<"sink", 0>> /\ t.name = <<"sink", 1>> /\ s.plugin = "testsink" /\ t.plugin = "testsink"
  BY <1>1, ElementIs DEF make_test_sink
<1>3. PICK v, a : v = If(HasVideo, <<s>>) /\ a = If(HasAudio, <<t>>)
  OBVIOUS
<1>4. (~ HasVideo => v = <<>>) /\ (~ HasAudio => a = <<>>)
  BY <1>3, IfIs
<1>5. IsSeq(v) /\ Els(v) \subseteq {s} /\ IsSeq(a) /\ Els(a) \subseteq {t}
  BY <1>3, IfIs, SingleIs, NoLine
<1>6. PICK line : line = v \o a
  OBVIOUS
<1>7. IsSeq(line) /\ Els(line) = Els(v) \cup Els(a)
  BY <1>5, <1>6, Concat
<1>8. PICK prb : prb = {Probe(line[k], 0, "output") : k \in DOMAIN line}
  OBVIOUS
<1>9. /\ (IF HasVideo THEN Joined(c, v, None) ELSE {}) = Joined(c, v, None)
      /\ (IF HasAudio THEN Joined(d, a, None) ELSE {}) = Joined(d, a, None)
  BY <1>4, NoJoin
<1>10. /\ stage = "output" /\ class = "test_life" /\ UNCHANGED <<cfg, class, conn, out, unexpected>>
       /\ Add(v \o a, Joined(c, v, None) \cup Joined(d, a, None), prb, "built")
  <2>1. Add(v \o a, (IF HasVideo THEN Joined(c, v, None) ELSE {})
                    \cup (IF HasAudio THEN Joined(d, a, None) ELSE {}), prb, "built")
    BY <1>0, <1>1, <1>3, <1>6, <1>8 DEF BuildTestOutput
  <2> QED
    BY <1>9, <2>1 DEF BuildTestOutput
<1>11. \A p \in prb : p.el \in Names(line) /\ p.kind = "output" /\ p.id = 0
  BY <1>8 DEF Probe, Names
<1>12. \A e \in Els(line) : \E p \in prb : p.el = e.name /\ p.kind = "output"
  <2> SUFFICES ASSUME NEW k \in DOMAIN line PROVE \E p \in prb : p.el = line[k].name /\ p.kind = "output"
    BY DEF Els
  <2>1. Probe(line[k], 0, "output") \in prb
    BY <1>8
  <2> QED
    BY <2>1 DEF Probe
<1>13. out' \in Nat /\ unexpected' \in BOOLEAN
  BY <1>10 DEF GraphInv
<1>14. \A e \in Els(v) \cup Els(a) : e.name[1] # "none" /\ e.plugin # "decodebin"
  BY <1>2, <1>5
<1>15. UNCHANGED <<cfg, class, conn>> /\ stage \in {"output", "mosaic_output"}
  BY <1>10
<1>16. PICK next : next = "built"
  OBVIOUS
<1>17. Add(v \o a, Joined(c, v, None) \cup Joined(d, a, None), prb, next)
  BY <1>10, <1>16
<1>18. Reported(v \o a, prb)
  BY <1>6, <1>10, <1>11, <1>12 DEF Reported
<1> QED
  BY <1>0, <1>4, <1>5, <1>13, <1>14, <1>15, <1>16, <1>17, <1>18, SinksKeep

\* A recorder: both connections go to the one sink.
LEMMA RecorderOutputKeeps ==
  ASSUME GraphInv, BuildRecorderOutput
  PROVE  GraphInv'
<1>0. PICK c, d : c = conn.video /\ d = conn.audio
  OBVIOUS
<1>1. PICK s : s = Element("splitmuxsink", "splitmuxsink", 0)
  OBVIOUS
<1>2. s.name = <<"splitmuxsink", 0>> /\ s.plugin = "splitmuxsink"
  BY <1>1, ElementIs
<1>3. stage = "output" /\ Recorder /\ UNCHANGED <<cfg, class, conn, out, unexpected>>
  BY DEF BuildRecorderOutput
<1>4. out' \in Nat /\ unexpected' \in BOOLEAN
  BY <1>3 DEF GraphInv
<1>5. CASE ~ (HasVideo /\ HasAudio)
  <2>1. stage' = "aborted" /\ UNCHANGED <<elements, links, probes>>
    BY <1>5 DEF BuildRecorderOutput
  <2> QED
    BY <1>3, <1>4, <2>1, StageOnly
<1>6. CASE HasVideo /\ HasAudio
  <2>1. PICK line, lks : line = <<s>> /\ lks = {<<d, s.name>>, <<c, s.name>>}
    OBVIOUS
  <2>2. Add(line, lks, {}, "built")
    BY <1>0, <1>1, <1>6, <2>1 DEF BuildRecorderOutput
  <2>3. /\ IsSeq(elements) /\ LinkInv /\ ProbeInv /\ BinInv /\ ConnInv /\ StageInv /\ stage # "aborted"
        /\ ConnOk(c, "video") /\ ConnOk(d, "audio") /\ (c # None => c # d)
    BY <1>0, <1>3 DEF GraphInv, ConnInv
  <2>4. c \in Names(elements) /\ d \in Names(elements) /\ c # d /\ Open(c) /\ Open(d)
    BY <1>6, <2>3 DEF ConnOk, Open, HasVideo, HasAudio
  <2>5. IsSeq(line) /\ Els(line) = {s} /\ Names(line) = {s.name}
    <3>1. IsSeq(line) /\ Els(line) = {s}
      BY <2>1, Literal
    <3> QED
      BY <3>1, ElsOf
  <2>6. None \notin Names(line)
    BY <1>2, <2>5 DEF None
  <2>7. Srcs(lks) = {c, d} /\ Dsts(lks) = {s.name}
    BY <2>1 DEF Srcs, Dsts
  <2>8. /\ elements' = elements \o line /\ Els(elements') = Els(elements) \cup Els(line)
        /\ stage' = "aborted" \/ stage' = "built"
        /\ stage' # "aborted" => Distinct(elements')
    BY <2>2, <2>3, <2>5, AddIs
  <2>9. ManyOut(elements) \subseteq ManyOut(elements') /\ s.name \in ManyIn(elements')
    <3>1. "splitmuxsink" \in ManySink
      BY DEF ManySink
    <3> QED
      BY <1>2, <2>5, <2>8, <3>1, ManyWider DEF ManyIn
  <2>10. LinkInv'
    <3>1. Once(lks, ManyOut(elements'), ManyIn(elements'))
      BY <2>1, <2>4, <2>9 DEF Once
    <3>2. Srcs(links) \cap Srcs(lks) \subseteq ManyOut(elements')
      BY <2>4, <2>7, <2>9 DEF Open
    <3>3. Names(elements) \cap Dsts(lks) \subseteq ManyIn(elements')
      BY <2>7, <2>9
    <3> QED
      BY <2>2, <2>3, <2>4, <2>5, <2>6, <2>7, <3>1, <3>2, <3>3, AddLinks
  <2>11. ProbeInv'
    <3>1. \A e \in Els(line) : e.name[1] \notin SinkNames
      BY <1>2, <2>5 DEF SinkNames
    <3> QED
      BY <1>3, <2>2, <2>3, <2>5, <3>1, AddProbes
  <2>12. stage' # "aborted" => BinInv'
    <3>1. \A e \in Els(line) : e.plugin # "decodebin"
      BY <1>2, <2>5
    <3>2. stage \in Behind
      BY <1>3 DEF Behind
    <3> QED
      BY <1>3, <2>2, <2>3, <2>5, <3>1, <3>2, AddBins
  <2>13. cfg' \in ConfigType /\ stage' \in Stages /\ IsSeq(elements')
    <3>1. "built" \in Stages
      BY DEF Stages, Ended
    <3> QED
      BY <1>3, <2>2, <2>5, <3>1, AddTypes
  <2>14. stage' # "aborted" => ConnInv' /\ StageInv'
    BY <2>8 DEF ConnInv, StageInv
  <2> QED
    BY <1>4, <2>10, <2>11, <2>12, <2>13, <2>14 DEF GraphInv
<1> QED
  BY <1>5, <1>6

-----------------------------------------------------------------------------
\* The mixers come first in a mosaic.
LEMMA MixersAre ==
  /\ VideoMixer.name = <<"videomixer", 0>> /\ VideoMixer.plugin = "videomixer"
  /\ AudioMixer.name = <<"interlive", 0>> /\ AudioMixer.plugin = "audiomixer"
BY ElementIs DEF VideoMixer, AudioMixer

\* InitMosaic keeps the graph.
LEMMA InitMosaicKeeps ==
  ASSUME GraphInv, InitMosaic
  PROVE  GraphInv'
<1>1. stage = "mosaic" /\ UNCHANGED <<cfg, class, conn, out, unexpected>>
  BY DEF InitMosaic
<1>2. out' \in Nat /\ unexpected' \in BOOLEAN
  BY <1>1 DEF GraphInv
<1>3. CASE Len(cfg.input) \notin GridSizes
  <2>1. stage' = "failed" /\ UNCHANGED <<elements, links, probes>>
    BY <1>3 DEF InitMosaic
  <2> QED
    BY <1>1, <1>2, <2>1, StageOnly
<1>4. CASE Len(cfg.input) \in GridSizes
  <2>1. PICK x, y : x = VideoMixer /\ y = AudioMixer
    OBVIOUS
  <2>2. PICK line : line = <<x, y>>
    OBVIOUS
  <2>3. Add(line, {}, {}, "mosaic_input")
    BY <1>4, <2>1, <2>2 DEF InitMosaic
  <2>4. /\ IsSeq(elements) /\ LinkInv /\ ProbeInv /\ BinInv /\ StageInv /\ stage # "aborted"
        /\ elements = <<>> /\ links = {} /\ class = "mosaic"
    BY <1>1 DEF GraphInv, StageInv
  <2>5. IsSeq(line) /\ Els(line) = {x, y} /\ Names(line) = {x.name, y.name}
    <3>1. IsSeq(line) /\ Els(line) = {x, y}
      BY <2>2, Literal
    <3> QED
      BY <3>1, ElsOf
  <2>6. /\ x.name[1] = "videomixer" /\ y.name[1] = "interlive"
        /\ x.plugin # "decodebin" /\ y.plugin # "decodebin"
    BY <2>1, MixersAre
  <2>7. None \notin Names(line)
    BY <2>5, <2>6 DEF None
  <2>8. Srcs({}) = {} /\ Dsts({}) = {} /\ \A S, D : Once({}, S, D)
    BY DEF Srcs, Dsts, Once
  <2>9. LinkInv'
    BY <2>3, <2>4, <2>5, <2>7, <2>8, AddLinks
  <2>10. ProbeInv'
    <3>1. \A e \in Els(line) : e.name[1] \notin SinkNames
      BY <2>5, <2>6 DEF SinkNames
    <3> QED
      BY <1>1, <2>3, <2>4, <2>5, <3>1, AddProbes
  <2>11. stage' # "aborted" => BinInv'
    <3>1. \A e \in Els(line) : e.plugin # "decodebin"
      BY <2>5, <2>6
    <3> QED
      BY <1>1, <2>3, <2>4, <2>5, <3>1, AddBins DEF Behind
  <2>12. /\ cfg' \in ConfigType /\ stage' \in Stages /\ IsSeq(elements')
         /\ (stage' = "aborted" \/ stage' = "mosaic_input")
         /\ Els(line) \subseteq Els(elements') /\ links' = {}
    <3>1. "mosaic_input" \in Stages
      BY DEF Stages, Ended
    <3> QED
      BY <1>1, <2>3, <2>4, <2>5, <3>1, AddTypes, AddIs
  <2>13. ASSUME stage' = "mosaic_input" PROVE ConnInv' /\ StageInv'
    <3>1. VideoMixer \in Els(elements') /\ AudioMixer \in Els(elements')
      BY <2>1, <2>5, <2>12
    <3>2. VideoMixer' = VideoMixer /\ AudioMixer' = AudioMixer
      BY DEF VideoMixer, AudioMixer
    <3>3. Srcs(links') = {}
      BY <2>8, <2>12
    <3> QED
      BY <1>1, <2>4, <2>13, <3>1, <3>2, <3>3 DEF ConnInv, StageInv
  <2> QED
    BY <1>2, <2>9, <2>10, <2>11, <2>12, <2>13 DEF GraphInv
<1> QED
  BY <1>3, <1>4

\* Four elements, and two.
LEMMA Plain4 ==
  ASSUME NEW w, NEW x, NEW y, NEW z, NEW s, s = <<w, x, y, z>>,
         Plain(<<w>>), Plain(<<x>>), Plain(<<y>>), Plain(<<z>>)
  PROVE  Plain(s) /\ w.name \in Names(s)
<1>1. IsSeq(s) /\ Els(s) = {w, x, y, z}
  BY DEF IsSeq, Els
<1>2. Els(<<w>>) = {w} /\ Els(<<x>>) = {x} /\ Els(<<y>>) = {y} /\ Els(<<z>>) = {z}
  BY Literal
<1> QED
  BY <1>1, <1>2, ElsOf DEF Plain

\* Two elements that are neither sinks nor decodebins.
LEMMA Plain2 ==
  ASSUME NEW x, NEW y, NEW s, s = <<x, y>>, Plain(<<x>>), Plain(<<y>>)
  PROVE  Plain(s) /\ x.name \in Names(s)
<1>1. IsSeq(s) /\ Els(s) = {x, y}
  BY Literal
<1>2. Els(<<x>>) = {x} /\ Els(<<y>>) = {y}
  BY Literal
<1> QED
  BY <1>1, <1>2, ElsOf DEF Plain

\* The cell of an input: its two lines, and their first elements.
CellVideo(i) == <<Element("queue", "udb_conn_video", i), Element("videoscale", "mux_videoscale", i),
                  Element("capsfilter", "mux_videoscale_capsfilter", i), Element("videobox", "videobox", i)>>
CellAudio(i) == <<Element("queue", "udb_conn_audio", i), Element("level", "level", i)>>

\* The connections of a cell stand in front of its lines.
LEMMA CellLines ==
  ASSUME NEW i
  PROVE  /\ Plain(CellVideo(i)) /\ Udb("video", i) \in Names(CellVideo(i))
         /\ Plain(CellAudio(i)) /\ Udb("audio", i) \in Names(CellAudio(i))
<1>1. PICK w, x, y, z : /\ w = Element("queue", "udb_conn_video", i) /\ x = Element("videoscale", "mux_videoscale", i)
                        /\ y = Element("capsfilter", "mux_videoscale_capsfilter", i)
                        /\ z = Element("videobox", "videobox", i)
  OBVIOUS
<1>2. PICK q, l : q = Element("queue", "udb_conn_audio", i) /\ l = Element("level", "level", i)
  OBVIOUS
<1>3. /\ w.name = <<"udb_conn_video", i>> /\ w.plugin = "queue" /\ x.name[1] = "mux_videoscale" /\ x.plugin = "videoscale"
      /\ y.name[1] = "mux_videoscale_capsfilter" /\ y.plugin = "capsfilter"
      /\ z.name[1] = "videobox" /\ z.plugin = "videobox"
      /\ q.name = <<"udb_conn_audio", i>> /\ q.plugin = "queue" /\ l.name[1] = "level" /\ l.plugin = "level"
  BY <1>1, <1>2 DEF Element
<1>4. Plain(<<w>>) /\ Plain(<<x>>) /\ Plain(<<y>>) /\ Plain(<<z>>) /\ Plain(<<q>>) /\ Plain(<<l>>)
  BY <1>3, PlainOne DEF SinkNames
<1>5. CellVideo(i) = <<w, x, y, z>> /\ CellAudio(i) = <<q, l>>
  BY <1>1, <1>2 DEF CellVideo, CellAudio
<1>6. Udb("video", i) = w.name /\ Udb("audio", i) = q.name
  BY <1>3 DEF Udb
<1>7. Plain(CellVideo(i)) /\ w.name \in Names(CellVideo(i))
  BY <1>4, <1>5, Plain4
<1>8. Plain(CellAudio(i)) /\ q.name \in Names(CellAudio(i))
  BY <1>4, <1>5, Plain2
<1> QED
  BY <1>6, <1>7, <1>8

\* The line of an input: a source, a decodebin and the cells.
IsInput(line, s, v, a) == line = s \o v \o a

\* What that line holds, and what it means that its names are distinct.
LEMMA ThreeLines ==
  ASSUME NEW s, NEW v, NEW a, IsSeq(s), IsSeq(v), IsSeq(a), NEW line, IsInput(line, s, v, a)
  PROVE  /\ IsSeq(line) /\ Els(line) = Els(s) \cup Els(v) \cup Els(a)
         /\ Names(line) = Names(s) \cup Names(v) \cup Names(a)
         /\ Distinct(line) =>
              /\ Distinct(s) /\ Distinct(v) /\ Distinct(a)
              /\ Names(s) \cap Names(v) = {} /\ Names(s) \cap Names(a) = {} /\ Names(v) \cap Names(a) = {}
<1>1. PICK p : p = s \o v
  OBVIOUS
<1>2. IsSeq(p) /\ Els(p) = Els(s) \cup Els(v) /\ Names(p) = Names(s) \cup Names(v)
  BY <1>1, Concat
<1>3. Distinct(p) => Distinct(s) /\ Distinct(v) /\ Names(s) \cap Names(v) = {}
  BY <1>1, DistinctParts
<1>4. line = p \o a
  BY <1>1 DEF IsInput
<1>5. IsSeq(line) /\ Els(line) = Els(p) \cup Els(a) /\ Names(line) = Names(p) \cup Names(a)
  BY <1>2, <1>4, Concat
<1>6. Distinct(line) => Distinct(p) /\ Distinct(a) /\ Names(p) \cap Names(a) = {}
  BY <1>2, <1>4, DistinctParts
<1> QED
  BY <1>2, <1>3, <1>5, <1>6

\* MosaicInput keeps the graph: the cells end in the mixers, which take many.
LEMMA MosaicInputKeeps ==
  ASSUME GraphInv, MosaicInput
  PROVE  GraphInv'
<1>0. PICK i : i = out
  OBVIOUS
<1>1. PICK src, bin : src = make_src(cfg.input[i + 1], i) /\ bin = Decodebin(i)
  OBVIOUS
<1>2. PICK s, v, a : /\ s = <<src, bin>> /\ v = If(HasVideo, CellVideo(i)) /\ a = If(HasAudio, CellAudio(i))
  OBVIOUS
<1>3. PICK x, y : x = VideoMixer.name /\ y = AudioMixer.name
  OBVIOUS
<1>4. PICK H, J, K : /\ H = Joined(None, s, None)
                     /\ J = IF HasVideo THEN Joined(None, v, x) ELSE {}
                     /\ K = IF HasAudio THEN Joined(None, a, y) ELSE {}
  OBVIOUS
<1>5. PICK line, lks, prb : line = s \o v \o a /\ lks = H \cup J \cup K /\ prb = {Probe(src, i, "input")}
  OBVIOUS
<1>6. /\ stage = "mosaic_input" /\ Add(line, lks, prb, "mosaic_input") /\ out' = out + 1
      /\ UNCHANGED <<cfg, class, conn>>
  BY <1>0, <1>1, <1>2, <1>3, <1>4, <1>5 DEF MosaicInput, CellVideo, CellAudio
<1>7. out' \in Nat /\ unexpected' \in BOOLEAN
  BY <1>6 DEF GraphInv, MosaicInput
<1>8. /\ IsSeq(elements) /\ LinkInv /\ ProbeInv /\ BinInv /\ StageInv /\ stage # "aborted" /\ class = "mosaic"
      /\ None \notin Names(elements) /\ Srcs(links) \subseteq Names(elements)
      /\ VideoMixer \in Els(elements) /\ AudioMixer \in Els(elements)
      /\ x \notin Srcs(links) /\ y \notin Srcs(links)
  BY <1>3, <1>6 DEF GraphInv, StageInv, LinkInv
<1>9. /\ IsSeq(s) /\ Els(s) = {src, bin} /\ src.name \in Names(s)
      /\ src.name[1] \in {"src", "null"} /\ src.plugin # "decodebin"
      /\ bin.name = <<"decodebin", i>>
  <2>1. src.name[1] \in {"src", "null"} /\ src.plugin # "decodebin" /\ bin.name = <<"decodebin", i>>
    BY <1>1, SrcIs, BinName
  <2>2. IsSeq(s) /\ Els(s) = {src, bin} /\ src.name \in Names(s)
    BY <1>1, <1>2, InputLine
  <2> QED
    BY <2>1, <2>2
<1>10. /\ Plain(v) /\ Plain(a) /\ IsSeq(v) /\ IsSeq(a) /\ None \notin Names(v) /\ None \notin Names(a)
       /\ HasVideo => Udb("video", i) \in Names(v)
       /\ HasAudio => Udb("audio", i) \in Names(a)
  <2>1. Plain(v) /\ Plain(a)
    BY <1>2, CellLines, PlainIf
  <2>2. /\ HasVideo => Udb("video", i) \in Names(v)
        /\ HasAudio => Udb("audio", i) \in Names(a)
    BY <1>2, CellLines, IfIs
  <2> QED
    BY <2>1, <2>2, PlainNone
<1>11. /\ IsSeq(line) /\ Els(line) = Els(s) \cup Els(v) \cup Els(a)
       /\ Names(line) = Names(s) \cup Names(v) \cup Names(a)
       /\ Distinct(line) =>
              /\ Distinct(s) /\ Distinct(v) /\ Distinct(a)
              /\ Names(s) \cap Names(v) = {} /\ Names(s) \cap Names(a) = {} /\ Names(v) \cap Names(a) = {}
  <2>1. IsInput(line, s, v, a)
    BY <1>5 DEF IsInput
  <2> QED
    BY <1>9, <1>10, <2>1, ThreeLines
<1>12. None \notin Names(s) /\ None \notin Names(line)
  <2>1. None[1] = "none"
    BY DEF None
  <2>2. \A n \in Names(s) : n = src.name \/ n = bin.name
    <3>1. \A n \in Names(s) : \E e \in Els(s) : e.name = n
      BY ElsOf
    <3> QED
      BY <1>9, <3>1
  <2> QED
    BY <1>9, <1>10, <1>11, <2>1, <2>2
<1>13. /\ Srcs(H) \subseteq Names(s) /\ Dsts(H) \subseteq Names(s)
       /\ Srcs(J) \subseteq Names(v) /\ Dsts(J) \subseteq Names(v) \cup {x}
       /\ Srcs(K) \subseteq Names(a) /\ Dsts(K) \subseteq Names(a) \cup {y}
  <2>1. Srcs({}) = {} /\ Dsts({}) = {}
    BY DEF Srcs, Dsts
  <2>2. Srcs(H) \subseteq Names(s) /\ Dsts(H) \subseteq Names(s)
    BY <1>4, <1>9, JoinedGraph
  <2>3. Srcs(J) \subseteq Names(v) /\ Dsts(J) \subseteq Names(v) \cup {x}
    BY <1>4, <1>10, <2>1, JoinedGraph
  <2>4. Srcs(K) \subseteq Names(a) /\ Dsts(K) \subseteq Names(a) \cup {y}
    BY <1>4, <1>10, <2>1, JoinedGraph
  <2> QED
    BY <2>2, <2>3, <2>4
<1>14. /\ Srcs(lks) = Srcs(H) \cup Srcs(J) \cup Srcs(K)
       /\ Dsts(lks) = Dsts(H) \cup Dsts(J) \cup Dsts(K)
  BY <1>5 DEF Srcs, Dsts
<1>15. /\ elements' = elements \o line /\ Els(elements') = Els(elements) \cup Els(line)
       /\ Names(elements') = Names(elements) \cup Names(line) /\ links' = links \cup lks
       /\ stage' = "aborted" \/ stage' = "mosaic_input"
       /\ stage' # "aborted" => Distinct(elements')
  BY <1>6, <1>8, <1>11, AddIs
<1>16. x \in Names(elements) /\ y \in Names(elements) /\ x # y /\ x \in ManyIn(elements') /\ y \in ManyIn(elements')
  <2>1. VideoMixer.plugin \in ManySink /\ AudioMixer.plugin \in ManySink /\ x # y
    BY <1>3, MixersAre DEF ManySink
  <2>2. x \in ManyIn(elements') /\ y \in ManyIn(elements')
    BY <1>3, <1>8, <1>15, <2>1 DEF ManyIn
  <2> QED
    BY <1>3, <1>8, <2>1, <2>2, ElsOf
<1>17. ASSUME stage' # "aborted"
       PROVE  Distinct(line) /\ Names(elements) \cap Names(line) = {}
  BY <1>8, <1>11, <1>15, <1>17, DistinctParts
<1>18. LinkInv'
  <2>1. ASSUME stage' # "aborted"
        PROVE  /\ Once(lks, ManyOut(elements'), ManyIn(elements'))
               /\ Srcs(links) \cap Srcs(lks) \subseteq ManyOut(elements')
               /\ Names(elements) \cap Dsts(lks) \subseteq ManyIn(elements')
    <3>0. PICK S, D : S = ManyOut(elements') /\ D = ManyIn(elements')
      OBVIOUS
    <3>1. /\ Distinct(s) /\ Distinct(v) /\ Distinct(a)
          /\ Names(s) \cap Names(v) = {} /\ Names(s) \cap Names(a) = {} /\ Names(v) \cap Names(a) = {}
          /\ Names(elements) \cap Names(line) = {}
      BY <1>11, <1>17, <2>1
    <3>2. x \notin Names(line) /\ y \notin Names(line)
      BY <1>16, <3>1
    <3>3. Once({}, S, D)
      BY DEF Once
    <3>4. Once(H, S, D)
      BY <1>4, <1>9, <1>12, <3>1, JoinedGraph
    <3>5. Once(J, S, D)
      BY <1>4, <1>10, <1>11, <3>1, <3>2, <3>3, JoinedGraph
    <3>6. Once(K, S, D)
      BY <1>4, <1>10, <1>11, <3>1, <3>2, <3>3, JoinedGraph
    <3>7. Srcs(H \cup J) = Srcs(H) \cup Srcs(J) /\ Dsts(H \cup J) = Dsts(H) \cup Dsts(J)
      BY LinksUnion
    <3>8. Once(H \cup J, S, D)
      <4>1. Srcs(H) \cap Srcs(J) \subseteq S /\ Dsts(H) \cap Dsts(J) \subseteq D
        <5>1. x \notin Names(s)
          BY <1>11, <3>2
        <5> QED
          BY <1>13, <3>1, <5>1
      <4> QED
        BY <3>4, <3>5, <4>1, OnceUnion
    <3>9. Once(lks, S, D)
      <4>1. Srcs(H \cup J) \cap Srcs(K) \subseteq S /\ Dsts(H \cup J) \cap Dsts(K) \subseteq D
        <5>1. x \notin Names(a) /\ y \notin Names(s) /\ y \notin Names(v)
          BY <1>11, <3>2
        <5> QED
          BY <1>13, <1>16, <3>1, <3>7, <5>1
      <4> QED
        BY <1>5, <3>6, <3>8, <4>1, OnceUnion
    <3>10. Srcs(links) \cap Srcs(lks) = {}
      BY <1>8, <1>11, <1>13, <1>14, <3>1
    <3>11. Names(elements) \cap Dsts(lks) \subseteq ManyIn(elements')
      BY <1>11, <1>13, <1>14, <1>16, <3>1
    <3> QED
      BY <3>0, <3>9, <3>10, <3>11
  <2>2. Srcs(lks) \cup Dsts(lks) \subseteq Names(elements) \cup Names(line)
    BY <1>11, <1>13, <1>14, <1>16
  <2> QED
    BY <1>6, <1>8, <1>11, <1>12, <2>1, <2>2, AddLinks
<1>19. ProbeInv'
  <2>1. \A p \in prb : p.el = src.name /\ p.kind = "input"
    BY <1>5 DEF Probe
  <2>2. \A e \in Els(line) : e.name[1] \notin SinkNames
    BY <1>9, <1>10, <1>11 DEF Plain, SinkNames
  <2>3. \A p \in prb : p.kind # "output" /\ p.el \in Names(line)
    BY <1>9, <1>11, <2>1
  <2> QED
    BY <1>6, <1>8, <1>11, <2>2, <2>3, AddProbes
<1>20. BinInv'
  <2>1. ~ Rtsp' /\ (\A m, b : Udb(m, b)' = Udb(m, b)) /\ class' = "mosaic" /\ cfg' = cfg
    BY <1>6, <1>8 DEF Rtsp, Udb
  <2>2. \A m \in cfg.have : Udb(m, i) \in Names(line)
    <3>1. cfg.have \subseteq {"video", "audio"}
      BY HaveIs DEF GraphInv
    <3> QED
      BY <1>10, <1>11, <3>1 DEF HasVideo, HasAudio
  <2>3. ASSUME NEW e \in Els(elements'), e.plugin = "decodebin"
        PROVE  \A m \in cfg.have : Udb(m, e.name[2]) \in Names(elements')
    <3>1. CASE e \in Els(elements)
      BY <1>8, <1>15, <2>3, <3>1 DEF BinInv
    <3>2. CASE e \in Els(line)
      <4>1. e = bin
        BY <1>9, <1>10, <1>11, <2>3, <3>2 DEF Plain
      <4>2. e.name[2] = i
        BY <1>9, <4>1
      <4> QED
        BY <1>15, <2>2, <4>2
    <3> QED
      BY <1>15, <3>1, <3>2
  <2> QED
    BY <2>1, <2>3 DEF BinInv
<1>21. cfg' \in ConfigType /\ stage' \in Stages /\ IsSeq(elements')
  <2>1. "mosaic_input" \in Stages
    BY DEF Stages
  <2> QED
    BY <1>6, <1>11, <2>1, AddTypes
<1>22. ASSUME stage' = "mosaic_input" PROVE ConnInv' /\ StageInv'
  <2>1. Srcs(links') = Srcs(links) \cup Srcs(lks)
    BY <1>15, LinksUnion
  <2>2. x \notin Names(line) /\ y \notin Names(line)
    BY <1>16, <1>17, <1>22
  <2>3. x \notin Srcs(links') /\ y \notin Srcs(links')
    BY <1>8, <1>11, <1>13, <1>14, <2>1, <2>2
  <2>4. VideoMixer' = VideoMixer /\ AudioMixer' = AudioMixer
    BY DEF VideoMixer, AudioMixer
  <2>5. VideoMixer \in Els(elements') /\ AudioMixer \in Els(elements')
    BY <1>8, <1>15
  <2> QED
    BY <1>3, <1>6, <1>8, <1>22, <2>3, <2>4, <2>5 DEF ConnInv, StageInv
<1> QED
  BY <1>7, <1>15, <1>18, <1>19, <1>20, <1>21, <1>22 DEF GraphInv

\* A line that ends in a tee.
LEMMA PlainTee ==
  ASSUME NEW p, Plain(p), NEW t, Plain(<<t>>), NEW s, s = p \o <<t>>
  PROVE  Plain(s) /\ Len(s) > 0 /\ Final(s) = t
<1>0. PICK w : w = <<t>>
  OBVIOUS
<1>1. IsSeq(p) /\ IsSeq(w) /\ Len(w) = 1 /\ Final(w) = t /\ Plain(w) /\ s = p \o w
  BY <1>0, SingleIs DEF Plain
<1>2. Len(p) \in Nat
  BY <1>1, SeqDomain
<1>3. Len(s) = Len(p) + Len(w) /\ Final(s) = Final(w)
  <2>1. Len(p \o w) = Len(p) + Len(w)
    BY <1>1, Concat
  <2>2. Final(p \o w) = Final(w)
    BY <1>1, ConcatEnds
  <2> QED
    BY <1>1, <2>1, <2>2
<1> QED
  BY <1>1, <1>2, <1>3, PlainConcat

MixVideo == <<Element("cairooverlay", "cairo", 0)>> \o build_video_convert(Opt("deinterlace"), 0) \o <<VideoTee>>
MixAudio == build_audio_converters(Opt("volume"), Opt("channels"), 0) \o <<AudioTee>>

\* What a mosaic does to its picture and its sound.
LEMMA MixLines ==
  /\ Plain(MixVideo) /\ Len(MixVideo) > 0 /\ Final(MixVideo).plugin = "tee"
  /\ Plain(MixAudio) /\ Len(MixAudio) > 0 /\ Final(MixAudio).plugin = "tee"
<1>1. PICK x, t, u : x = Element("cairooverlay", "cairo", 0) /\ t = VideoTee /\ u = AudioTee
  OBVIOUS
<1>2. /\ x.name[1] = "cairo" /\ x.plugin = "cairooverlay" /\ t.name[1] = "video_tee" /\ t.plugin = "tee"
      /\ u.name[1] = "audio_tee" /\ u.plugin = "tee"
  BY <1>1 DEF Element, VideoTee, AudioTee
<1>3. Plain(<<x>>) /\ Plain(<<t>>) /\ Plain(<<u>>)
  BY <1>2, PlainOne DEF SinkNames
<1>4. PICK v, a : v = build_video_convert(Opt("deinterlace"), 0) /\ a = build_audio_converters(Opt("volume"), Opt("channels"), 0)
  OBVIOUS
<1>5. Plain(v) /\ Plain(a)
  <2>1. PLine(v, ConvertPats, 0, Pass) /\ PLine(a, AudioPostPats, 0, Pass)
    BY <1>4, VideoConvertLine, AudioConvertersLine
  <2>2. /\ ConvertPats \cap (SinkNames \cup {"none"}) = {} /\ AudioPostPats \cap (SinkNames \cup {"none"}) = {}
        /\ "decodebin" \notin Pass
    BY DEF ConvertPats, AudioPostPats, SinkNames, Pass
  <2> QED
    BY <2>1, <2>2, PlainLine
<1>6. PICK p : p = <<x>> \o v
  OBVIOUS
<1>7. Plain(p)
  BY <1>3, <1>5, <1>6, PlainConcat
<1>8. MixVideo = p \o <<t>> /\ MixAudio = a \o <<u>>
  BY <1>1, <1>4, <1>6 DEF MixVideo, MixAudio
<1> QED
  BY <1>2, <1>3, <1>5, <1>7, <1>8, PlainTee

\* MosaicMix keeps the graph, and ends in the tees.
LEMMA MosaicMixKeeps ==
  ASSUME GraphInv, MosaicMix
  PROVE  GraphInv'
<1>0. PICK c, d : c = VideoMixer.name /\ d = AudioMixer.name
  OBVIOUS
<1>1. PICK v, a : v = If(HasVideo, MixVideo) /\ a = If(HasAudio, MixAudio)
  OBVIOUS
<1>2. /\ stage = "mosaic_input" /\ Add(v \o a, Joined(c, v, None) \cup Joined(d, a, None), {}, "mosaic_output")
      /\ conn' = [video |-> Tail1(c, v), audio |-> Tail1(d, a)]
      /\ out' = 0 /\ UNCHANGED <<cfg, class, unexpected>>
  BY <1>0, <1>1 DEF MosaicMix, MixVideo, MixAudio
<1>3. Plain(v) /\ Plain(a) /\ IsSeq(v) /\ IsSeq(a) /\ None \notin Names(v) /\ None \notin Names(a)
  BY <1>1, MixLines, PlainIf, PlainNone
<1>4. /\ IsSeq(elements) /\ LinkInv /\ ProbeInv /\ BinInv /\ StageInv /\ stage # "aborted" /\ class = "mosaic"
      /\ VideoMixer \in Els(elements) /\ AudioMixer \in Els(elements) /\ c \notin Srcs(links) /\ d \notin Srcs(links)
  BY <1>0, <1>2 DEF GraphInv, StageInv
<1>5. /\ c \in Names(elements) /\ d \in Names(elements) /\ Open(c) /\ Open(d)
      /\ c # None /\ d # None /\ c # d
  <2>1. c \in Names(elements) /\ d \in Names(elements)
    BY <1>0, <1>4, ElsOf
  <2>2. c # None /\ d # None /\ c # d
    BY <1>0, MixersAre DEF None
  <2> QED
    BY <1>4, <2>1, <2>2 DEF Open
<1>6. /\ LinkInv'
      /\ stage' # "aborted" =>
              /\ Tail1(c, v) \in Names(elements') \cup {None} /\ Open(Tail1(c, v))'
              /\ Tail1(d, a) \in Names(elements') \cup {None} /\ Open(Tail1(d, a))'
              /\ Tail1(c, v) # None => Tail1(c, v) # Tail1(d, a)
  BY <1>2, <1>3, <1>4, <1>5, TwoLines
<1>7. PICK line : line = v \o a
  OBVIOUS
<1>8. Plain(line) /\ IsSeq(line) /\ Els(v) \subseteq Els(line) /\ Els(a) \subseteq Els(line)
  BY <1>3, <1>7, PlainConcat, Concat DEF Plain
<1>9. PICK lks : Add(line, lks, {}, "mosaic_output")
  BY <1>2, <1>7
<1>10. ProbeInv'
  BY <1>2, <1>4, <1>8, <1>9, AddProbes DEF Plain
<1>11. stage' # "aborted" => BinInv'
  BY <1>2, <1>4, <1>8, <1>9, AddBins DEF Plain, Behind
<1>12. /\ cfg' \in ConfigType /\ stage' \in Stages /\ IsSeq(elements') /\ out' \in Nat /\ unexpected' \in BOOLEAN
       /\ (stage' = "aborted" \/ stage' = "mosaic_output")
       /\ Els(line) \subseteq Els(elements')
  <2>1. "mosaic_output" \in Stages
    BY DEF Stages
  <2> QED
    BY <1>2, <1>4, <1>8, <1>9, <2>1, AddTypes, AddIs DEF GraphInv
<1>13. ASSUME stage' = "mosaic_output" PROVE ConnInv'
  <2>1. stage' # "aborted" /\ ~ Recorder'
    BY <1>2, <1>4, <1>13 DEF Recorder
  <2>2. HasVideo => Tail1(c, v) # None /\ Tail1(c, v) \in ManyOut(elements')
    <3> HAVE HasVideo
    <3>1. v = MixVideo
      BY <1>1, IfIs
    <3>2. Len(v) > 0 /\ Final(v).plugin = "tee" /\ Els(v) \subseteq Els(elements')
      BY <1>8, <1>12, <3>1, MixLines
    <3>3. Tail1(c, v) # None
      BY <1>3, <1>5, TailIs
    <3> QED
      BY <1>3, <3>2, <3>3, TeeIs
  <2>3. HasAudio => Tail1(d, a) # None /\ Tail1(d, a) \in ManyOut(elements')
    <3> HAVE HasAudio
    <3>1. a = MixAudio
      BY <1>1, IfIs
    <3>2. Len(a) > 0 /\ Final(a).plugin = "tee" /\ Els(a) \subseteq Els(elements')
      BY <1>8, <1>12, <3>1, MixLines
    <3>3. Tail1(d, a) # None
      BY <1>3, <1>5, TailIs
    <3> QED
      BY <1>3, <3>2, <3>3, TeeIs
  <2>4. ConnOk(conn.video, "video")'
    BY <1>2, <1>6, <1>13, <2>1, <2>2 DEF ConnOk, Open, HasVideo
  <2>5. ConnOk(conn.audio, "audio")'
    BY <1>2, <1>6, <1>13, <2>1, <2>3 DEF ConnOk, Open, HasAudio
  <2> QED
    BY <1>2, <1>6, <2>1, <2>4, <2>5 DEF ConnInv
<1>14. ASSUME stage' = "mosaic_output" PROVE StageInv'
  BY <1>2, <1>4, <1>14 DEF StageInv
<1> QED
  BY <1>6, <1>10, <1>11, <1>12, <1>13, <1>14 DEF GraphInv

-----------------------------------------------------------------------------
\* The encoders of a mosaic, one line for each output.
LEMMA MosaicBranchesPlain ==
  ASSUME NEW i, NEW scheme
  PROVE  Plain(MosaicVideoBranch(i, scheme)) /\ Plain(MosaicAudioBranch(i, scheme))
<1>1. PICK p : p = IF EncoderVideoCodec(cfg.venc) = "none" THEN NullElement
                   ELSE make_video_pay(EncoderVideoCodec(cfg.venc), i)
  OBVIOUS
<1>2. p.name[1] \in {"null", "video_pay"} /\ p.plugin # "decodebin"
  <2>1. EncoderVideoCodec(cfg.venc) \in {"h264", "h265", "mpeg", "none"}
    BY DEF EncoderVideoCodec
  <2> QED
    BY <1>1, <2>1 DEF make_video_pay, Element, NullElement
<1>3. PICK x, y, h, q, r : /\ x = Element("queue", "video_tee_queue", i)
                           /\ y = Element("aspectratiocrop", "aspect_ratio", i)
                           /\ h = make_h264_parser(i) /\ q = Element("queue", "audio_tee_queue", i)
                           /\ r = make_aac_pay(i)
  OBVIOUS
<1>4. /\ x.name[1] = "video_tee_queue" /\ x.plugin = "queue" /\ y.name[1] = "aspect_ratio" /\ y.plugin = "aspectratiocrop"
      /\ h.name[1] = "video_parser" /\ h.plugin = "h264parse" /\ q.name[1] = "audio_tee_queue" /\ q.plugin = "queue"
      /\ r.name[1] = "audio_pay" /\ r.plugin = "rtpmp4apay"
  BY <1>3 DEF Element, make_h264_parser, make_aac_pay
<1>5. Plain(<<p>>) /\ Plain(<<x>>) /\ Plain(<<y>>) /\ Plain(<<h>>) /\ Plain(<<q>>) /\ Plain(<<r>>)
  BY <1>2, <1>4, PlainOne DEF SinkNames
<1>6. PICK f, e, l : /\ f = build_video_framerate(i)
                     /\ e = build_video_encoder(cfg.venc, {"profile", "stream-format"} \cap cfg.opts, i)
                     /\ l = AudioEncoderLine(i)
  OBVIOUS
<1>7. Plain(f) /\ Plain(e) /\ Plain(l)
  <2>1. RatePats \cap (SinkNames \cup {"none"}) = {} /\ "decodebin" \notin Pass
    BY DEF RatePats, SinkNames, Pass
  <2>2. Plain(f)
    BY <1>6, <2>1, FramerateLine, PlainLine
  <2> QED
    BY <1>6, <2>2, EncodersPlain
<1>8. PICK s1, s2, s3, s4 : /\ s1 = If(Opt("aspect_ratio"), <<y>>) /\ s2 = If(Opt("framerate") /\ ~ IsMfxGpu, f)
                            /\ s3 = If(scheme = "udp", <<p>>) /\ s4 = If(IsH264Encoder(cfg.venc), <<h>>)
  OBVIOUS
<1>9. Plain(s1) /\ Plain(s2) /\ Plain(s3) /\ Plain(s4)
  BY <1>5, <1>7, <1>8, PlainIf
<1>10. PICK t1, t2, t3, t4 : t1 = <<x>> \o s1 /\ t2 = t1 \o s2 /\ t3 = t2 \o e /\ t4 = t3 \o s3
  OBVIOUS
<1>11. Plain(t1)
  BY <1>5, <1>9, <1>10, PlainConcat
<1>12. Plain(t2)
  BY <1>9, <1>10, <1>11, PlainConcat
<1>13. Plain(t3)
  BY <1>7, <1>10, <1>12, PlainConcat
<1>14. Plain(t4)
  BY <1>9, <1>10, <1>13, PlainConcat
<1>15. Plain(t4 \o s4)
  BY <1>9, <1>14, PlainConcat
<1>16. MosaicVideoBranch(i, scheme) = t4 \o s4
  BY <1>1, <1>3, <1>6, <1>8, <1>10 DEF MosaicVideoBranch
<1>17. PICK u1, u2 : u1 = <<q>> \o l /\ u2 = If(scheme = "udp", <<r>>)
  OBVIOUS
<1>18. Plain(u1) /\ Plain(u2)
  BY <1>5, <1>7, <1>17, PlainConcat, PlainIf
<1>19. MosaicAudioBranch(i, scheme) = u1 \o u2
  BY <1>3, <1>6, <1>17 DEF MosaicAudioBranch
<1> QED
  BY <1>15, <1>16, <1>18, <1>19, PlainConcat

\* A screen or a card behind the tees.
LEMMA DeviceOutputKeeps ==
  ASSUME GraphInv, stage = "mosaic_output", NEW i \in Nat, i < Len(cfg.output), NEW device,
         MosaicDeviceOutput(i, device), UNCHANGED <<cfg, class, conn>>, out' \in Nat, unexpected' \in BOOLEAN
  PROVE  GraphInv'
<1>0. PICK c, d : c = conn.video /\ d = conn.audio
  OBVIOUS
<1>1. PICK s, t, x, y : /\ s = make_video_device_sink(device, i) /\ t = make_audio_device_sink(device, i)
                        /\ x = Element("queue", "video_tee_queue", i) /\ y = Element("queue", "audio_tee_queue", i)
  OBVIOUS
<1>2. /\ s.name = <<"video_sink", i>> /\ t.name = <<"audio_sink", i>>
      /\ s.plugin # "decodebin" /\ t.plugin # "decodebin"
      /\ x.name[1] = "video_tee_queue" /\ y.name[1] = "audio_tee_queue" /\ x.plugin = "queue" /\ y.plugin = "queue"
  BY <1>1 DEF make_video_device_sink, make_audio_device_sink, Element
<1>3. PICK v, a : v = If(HasVideo, <<x, s>>) /\ a = If(HasAudio, <<y, t>>)
  OBVIOUS
<1>4. (~ HasVideo => v = <<>>) /\ (~ HasAudio => a = <<>>)
  BY <1>3, IfIs
<1>5. IsSeq(v) /\ Els(v) \subseteq {x, s} /\ IsSeq(a) /\ Els(a) \subseteq {y, t}
  <2>1. IsSeq(<<x, s>>) /\ Els(<<x, s>>) = {x, s} /\ IsSeq(<<y, t>>) /\ Els(<<y, t>>) = {y, t}
    BY Literal
  <2> QED
    BY <1>3, <2>1, IfIs, NoLine
<1>6. PICK line : line = v \o a
  OBVIOUS
<1>7. IsSeq(line) /\ Els(line) = Els(v) \cup Els(a)
  BY <1>5, <1>6, Concat
<1>8. PICK prb : prb = {p \in {Probe(s, i, "output"), Probe(t, i, "output")} : p.el \in Names(line)}
  OBVIOUS
<1>9. /\ (IF HasVideo THEN Joined(c, v, None) ELSE {}) = Joined(c, v, None)
      /\ (IF HasAudio THEN Joined(d, a, None) ELSE {}) = Joined(d, a, None)
  BY <1>4, NoJoin
<1>10. PICK st : st = stage
  OBVIOUS
<1>11. Add(v \o a, Joined(c, v, None) \cup Joined(d, a, None), prb, st)
  <2>1. Add(v \o a, (IF HasVideo THEN Joined(c, v, None) ELSE {})
                    \cup (IF HasAudio THEN Joined(d, a, None) ELSE {}), prb, st)
    BY <1>0, <1>1, <1>3, <1>6, <1>8, <1>10 DEF MosaicDeviceOutput
  <2> QED
    BY <1>9, <2>1
<1>12. class = "mosaic" /\ ~ Recorder
  BY DEF GraphInv, StageInv, Recorder
<1>13. PICK f, g : f = Probe(s, i, "output") /\ g = Probe(t, i, "output")
  OBVIOUS
<1>14. /\ f.el = <<"video_sink", i>> /\ f.id = i /\ f.kind = "output"
       /\ g.el = <<"audio_sink", i>> /\ g.id = i /\ g.kind = "output"
  BY <1>2, <1>13 DEF Probe
<1>15. \A p \in prb : p.el \in Names(line) /\ p.el[2] = p.id /\ p.id = i
  BY <1>8, <1>13, <1>14
<1>16. \A e \in Els(line) : e.name[1] \in SinkNames => \E p \in prb : p.el = e.name /\ p.kind = "output"
  <2> SUFFICES ASSUME NEW e \in Els(line), e.name[1] \in SinkNames
               PROVE  \E p \in prb : p.el = e.name /\ p.kind = "output"
    OBVIOUS
  <2>1. e = s \/ e = t
    BY <1>2, <1>5, <1>7 DEF SinkNames
  <2>2. e.name \in Names(line)
    BY ElsOf
  <2>3. CASE e = s
    <3>1. f \in prb
      BY <1>2, <1>8, <1>13, <1>14, <2>2, <2>3
    <3> QED
      BY <1>2, <1>14, <2>3, <3>1
  <2>4. CASE e = t
    <3>1. g \in prb
      BY <1>2, <1>8, <1>13, <1>14, <2>2, <2>4
    <3> QED
      BY <1>2, <1>14, <2>4, <3>1
  <2> QED
    BY <2>1, <2>3, <2>4
<1>17. Reported(v \o a, prb)
  BY <1>6, <1>12, <1>15, <1>16 DEF Reported
<1>18. \A e \in Els(v) \cup Els(a) : e.name[1] # "none" /\ e.plugin # "decodebin"
  BY <1>2, <1>5
<1> QED
  BY <1>0, <1>4, <1>5, <1>10, <1>11, <1>12, <1>17, <1>18, SinksKeep

\* BuildMosaicOutput keeps the graph.
LEMMA MosaicOutputKeeps ==
  ASSUME GraphInv, BuildMosaicOutput
  PROVE  GraphInv'
<1>1. PICK url, scheme, i : url = cfg.output[out + 1] /\ scheme = SchemeOf(url) /\ i = out
  OBVIOUS
<1>2. /\ stage = "mosaic_output" /\ i < Len(cfg.output) /\ i \in Nat
      /\ out' = out + 1 /\ UNCHANGED <<cfg, class, conn>> /\ unexpected \in BOOLEAN
      /\ class = "mosaic" /\ cfg \in ConfigType
  BY <1>1 DEF BuildMosaicOutput, GraphInv, StageInv
<1>3. CASE IsDevice(url)
  <2>1. MosaicDeviceOutput(i, url) /\ UNCHANGED unexpected
    BY <1>1, <1>3 DEF BuildMosaicOutput
  <2>2. out' \in Nat
    BY <1>1, <1>2
  <2> QED
    BY <1>2, <2>1, <2>2, DeviceOutputKeeps
<1>4. CASE ~ IsDevice(url)
  <2>1. PICK video, audio : video = MosaicVideoBranch(i, scheme) /\ audio = MosaicAudioBranch(i, scheme)
    OBVIOUS
  <2>2. AddOutput(i, url, video, audio) /\ unexpected' \in BOOLEAN
    BY <1>1, <1>2, <1>4, <2>1 DEF BuildMosaicOutput
  <2>3. Plain(video) /\ Plain(audio)
    BY <1>2, <2>1, MosaicBranchesPlain
  <2>4. class # "test_life" /\ ~ Recorder
    BY <1>2 DEF Recorder
  <2> QED
    BY <1>1, <1>2, <2>2, <2>3, <2>4, OutputKeeps
<1> QED
  BY <1>3, <1>4

\* What GStreamer declines leaves the graph as it is.
LEMMA DeclinesKeep ==
  ASSUME GraphInv, GstDeclines
  PROVE  GraphInv'
<1>1. /\ stage # "aborted" /\ stage' = "declined"
      /\ UNCHANGED <<cfg, class, elements, links, probes, conn, out, unexpected>>
  BY DEF GstDeclines, Ended
<1>2. out' \in Nat /\ unexpected' \in BOOLEAN
  BY <1>1 DEF GraphInv
<1> QED
  BY <1>1, <1>2, StageOnly

\* Every step of the building.
LEMMA BuildKeeps ==
  ASSUME GraphInv, Build
  PROVE  GraphInv'
BY CreateKeeps, BuildInputKeeps, RtspInputKeeps, DeviceInputKeeps, RawInputsKeep, UdbActionsKeep,
   KeepKeeps, PostProcKeeps, ConverterKeeps, BuildOutputKeeps, TestOutputKeeps, RecorderOutputKeeps,
   DoneKeeps, InitMosaicKeeps, MosaicInputKeeps, MosaicMixKeeps, MosaicOutputKeeps, DeclinesKeep DEF Build

\* The invariant holds before anything is built.
LEMMA InitSound ==
  InitPads => SoundInv
<1> SUFFICES ASSUME InitPads PROVE SoundInv
  OBVIOUS
<1>1. /\ cfg \in ConfigType /\ class = "none" /\ stage = "factory" /\ elements = <<>> /\ links = {} /\ probes = {}
      /\ out = 0 /\ unexpected = FALSE
  BY ConfigsAssumption DEF InitPads, InitBuild
<1>2. Els(elements) = {} /\ Names(elements) = {} /\ IsSeq(elements)
  BY <1>1, NoLine
<1>3. LinkInv
  BY <1>1, <1>2 DEF LinkInv, Srcs, Dsts, Distinct, Once
<1>4. ProbeInv
  BY <1>1, <1>2 DEF ProbeInv
<1>5. BinInv
  BY <1>1, <1>2 DEF BinInv, Behind, Rtsp
<1>6. ConnInv /\ StageInv
  BY <1>1 DEF ConnInv, StageInv
<1>7. GraphInv
  BY <1>1, <1>2, <1>3, <1>4, <1>5, <1>6 DEF GraphInv, Stages
<1>8. PadInv
  BY DEF InitPads, PadInv, CountInv
<1> QED
  BY <1>7, <1>8 DEF SoundInv

\* Every step of the building, and every pad, keeps the invariant.
LEMMA NextSound ==
  SoundInv /\ [NextPads]_<<build_vars, pad_vars>> => SoundInv'
<1> SUFFICES ASSUME SoundInv, [NextPads]_<<build_vars, pad_vars>> PROVE SoundInv'
  OBVIOUS
<1>1. CASE Build /\ UNCHANGED pad_vars
  BY <1>1, BuildKeeps, PadsWait DEF SoundInv
<1>2. CASE Preroll
  <2>1. GraphInv'
    <3>1. UNCHANGED <<cfg, class, stage, elements, links, conn, out, unexpected>> /\ probes' = probes
      BY <1>2 DEF Preroll, build_vars
    <3> QED
      BY <3>1, GraphKept DEF SoundInv
  <2> QED
    BY <1>2, <2>1, PrerollKeeps DEF SoundInv
<1>3. CASE RtspRelayPadAdded \/ RtspEncodingPadAdded
  BY <1>3, RtspPadKeeps DEF RtspRelayPadAdded, RtspEncodingPadAdded, Rtsp
<1>4. ASSUME NEW b \in Bins, PadAdded(b) PROVE SoundInv'
  BY <1>4, PadKeeps
<1>5. CASE UNCHANGED <<build_vars, pad_vars>>
  <2>1. GraphInv'
    <3>1. UNCHANGED <<cfg, class, stage, elements, links, conn, out, unexpected>> /\ probes' = probes
      BY <1>5 DEF build_vars
    <3> QED
      BY <3>1, GraphKept DEF SoundInv
  <2>2. PadInv'
    <3>1. /\ UNCHANGED <<cfg, class, stage, elements, links, probes, conn, out, unexpected>>
          /\ UNCHANGED <<source, emitted, rtp, rtpLinked, inited, fed, meters>>
      BY <1>5 DEF build_vars, pad_vars
    <3>2. Rtsp' = Rtsp /\ Bins' = Bins /\ Encodes' = Encodes /\ \A b : Seen(b)' = Seen(b)
      BY <3>1 DEF Rtsp, Bins, Encodes, Seen
    <3>3. /\ \A m, b : Candidates(m, b)' = Candidates(m, b) /\ Udb(m, b)' = Udb(m, b) /\ Dest(m, b)' = Dest(m, b)
          /\ \A t : Accepts(t)' = Accepts(t)
      BY <3>1, <3>2 DEF Candidates, Selected, Udb, Dest, Accepts, Exposed, Continue
    <3>4. CountInv'
      BY <3>1, <3>2 DEF SoundInv, PadInv, CountInv
    <3>5. (emitted # <<>> => FedInv)'
      BY <3>1, <3>2, <3>3 DEF SoundInv, PadInv, FedInv, PadIs
    <3>6. (emitted # <<>> => InitedInv)'
      BY <3>1, <3>2, <3>3 DEF SoundInv, PadInv, InitedInv, Tried
    <3>7. (emitted # <<>> => CellInv)'
      BY <3>1, <3>2, <3>3 DEF SoundInv, PadInv, CellInv, Tried, LevelsInRange, LevelValues, HasVideo
    <3> QED
      BY <3>4, <3>5, <3>6, <3>7 DEF PadInv
  <2> QED
    BY <2>1, <2>2 DEF SoundInv
<1> QED
  BY <1>1, <1>2, <1>3, <1>4, <1>5 DEF NextPads

\* The graph is sound, whatever is configured and whatever tracks turn up: the
\* types, one peer per pad, probes that report their output, no sink without
\* one, pads linked to their medium, cells not mixed, meters in range.
THEOREM GraphStaysSound == SpecPads => []GraphIsSound
<1>1. InitPads => SoundInv
  BY InitSound
<1>2. SoundInv /\ [NextPads]_<<build_vars, pad_vars>> => SoundInv'
  BY NextSound
<1>3. SoundInv => GraphIsSound
  BY InvSound
<1> QED
  BY <1>1, <1>2, <1>3, PTL DEF SpecPads

-----------------------------------------------------------------------------
(***************************************************************************)
(* Pipeline: which configurations end the process.                         *)
(***************************************************************************)
\* The classes whose one source is chosen by the scheme of the input.
OneSource == {"relay", "encode", "only_audio", "only_video", "vod_relay", "vod_encode",
              "timeshift_recorder", "catchup", "test_life"}

HasGrid == Len(cfg.input) \in GridSizes
Both    == HasVideo /\ HasAudio

BadSource  == class \in OneSource /\ BadInput(cfg.input[1])
BadCell(k) == BadInput(cfg.input[k])

\* An encoder or a parser that is not known.
NamesUnknown == \/ Encodes /\ UnknownEncoder
                \/ ~ Encodes /\ class \notin {"null", "mosaic"} /\ UnknownParser

\* An output without a sink, or one whose payloaders would have one name.
BadOutput(k) ==
    \/ BadSink(cfg.output[k])
    \/ SchemeOf(cfg.output[k]) = "udp" /\ Both /\ PayPattern = "video_pay"

\* The same in a mosaic: an encoder is missing, or the payloader of a medium is
\* missing or fits nothing.
NoVideoPay == HasVideo /\ EncoderVideoCodec(cfg.venc) \in {"h264", "mpeg", "none"}
NoAudioPay == HasAudio /\ cfg.aenc = "lamemp3enc"
BadMosaicOutput(k) ==
    \/ BadSink(cfg.output[k])
    \/ ~ IsDevice(cfg.output[k]) /\ UnknownEncoder
    \/ SchemeOf(cfg.output[k]) = "udp" /\ (NoVideoPay \/ NoAudioPay)

\* What has been built so far did not have to end the process.
FineInv ==
    /\ stage \in {"factory", "input", "udb", "postproc", "converter", "mosaic"} => out = 0
    /\ stage \in {"udb", "postproc", "converter", "output"} => ~ BadSource
    /\ stage \in {"postproc", "converter", "output"} /\ ~ Encodes => ~ UnknownParser
    /\ stage = "output" /\ Encodes => ~ UnknownEncoder
    /\ stage = "output" =>
         /\ out <= Len(cfg.output)
         /\ \A k \in 1..out : ~ BadOutput(k)
         /\ class = "test_life" \/ Recorder => out = 0
    /\ stage = "mosaic_input" => /\ HasGrid /\ out <= Len(cfg.input)
                                 /\ \A k \in 1..out : ~ BadCell(k)
    /\ stage = "mosaic_output" => /\ HasGrid /\ out <= Len(cfg.output)
                                  /\ \A k \in 1..Len(cfg.input) : ~ BadCell(k)
                                  /\ \A k \in 1..out : ~ BadMosaicOutput(k)

\* How the building ended.
OutcomeInv ==
    /\ stage # "factory" => class = StreamClass
    /\ stage = "refused" => class = "null"
    /\ stage \notin {"factory", "refused"} => class # "null"
    /\ stage = "failed" => class = "mosaic" /\ ~ HasGrid
    /\ stage \in {"aborted", "declined", "built"} /\ class = "mosaic" => HasGrid
    /\ stage = "aborted" => Unbuildable
    /\ stage = "built" => ~ Unbuildable

\* The names in the pipeline: patterns of A, and of B with a number below i.
NamesIn(A, B, i) ==
    \A n \in Names(elements) : n[1] \in A \/ (n[1] \in B /\ n[2] \in 0..(i - 1))

InPats    == {"src", "decodebin", "video_src", "audio_src"}
UdbPats   == InPats \cup {"udb_conn_video", "udb_conn_audio"}
             \cup (IF Encodes THEN {} ELSE {"audio_codec"})
PostPats  == UdbPats \cup VideoPostPats \cup AudioPostPats
FrontPats == InPats \cup {"udb_conn_video", "udb_conn_audio"} \cup VideoPostPats \cup AudioPostPats
             \cup ConvVideoPats \cup ConvAudioPats
OutPats   == {"muxer", "video_tee_queue", "video_pay", "audio_tee_queue", "audio_pay", "sink"}
CellPats  == {"src", "decodebin", "udb_conn_video", "mux_videoscale", "mux_videoscale_capsfilter",
              "videobox", "udb_conn_audio", "level"}
MixPats   == {"videomixer", "interlive"}
MixedPats == CellPats \cup MixPats \cup ConvertPats \cup AudioPostPats \cup {"cairo", "video_tee", "audio_tee"}
MosaicOutPats ==
    OutPats \cup {"video_sink", "audio_sink", "aspect_ratio", "video_parser", "audioresample",
                  "audio_codec", "mpegaudioparse"} \cup RatePats \cup EncoderPats

NameInv ==
    /\ stage = "udb" => NamesIn(InPats, {}, 0)
    /\ stage = "postproc" => NamesIn(UdbPats, {}, 0)
    /\ stage = "converter" => NamesIn(PostPats, {}, 0)
    /\ stage = "output" => NamesIn(FrontPats, OutPats, out)
    /\ stage = "mosaic_input" => NamesIn(MixPats, CellPats, out)
    /\ stage = "mosaic_output" => NamesIn(MixedPats, MosaicOutPats, out)

\* An element in the pipeline that can be linked to anything.
SoftAt(n) == \E e \in Els(elements) : e.name = n /\ e.plugin \notin DOMAIN Offers

\* Before the encoders nothing offers a fixed format.
SoftInv ==
    /\ Encodes
    /\ \/ stage \in {"postproc", "converter"}
       \/ stage = "udb" /\ class \in {"test_input", "display_input"}
    => \A c \in {conn.video, conn.audio} : c # None => SoftAt(c)

ExactInv == FineInv /\ OutcomeInv /\ NameInv /\ SoftInv

ExactSound == SoundInv /\ ExactInv

\* When the payloader of audio is named like that of video.
LEMMA PayClashIs ==
  PayPattern = "video_pay"
    <=> IF Encodes THEN ~ IsAACEncoder(cfg.aenc) ELSE cfg.aparser \notin {"aacparse", "ac3parse"}
<1>1. CASE Encodes
  BY <1>1 DEF PayPattern, OrElse, AudioCodecType, EncoderAudioCodec, IsAACEncoder
<1>2. CASE ~ Encodes
  BY <1>2 DEF PayPattern, OrElse, AudioCodecType, ParserAudioCodec
<1> QED
  BY <1>1, <1>2

\* The configurations that end the process, sorted by the stage that does it.
LEMMA UnbuildableIs ==
  ASSUME cfg \in ConfigType, class = StreamClass
  PROVE  Unbuildable <=>
           \/ BadSource
           \/ NamesUnknown
           \/ class = "mosaic" /\ HasGrid /\ \E k \in 1..Len(cfg.input) : BadCell(k)
           \/ class = "mosaic" /\ HasGrid /\ \E k \in 1..Len(cfg.output) : BadMosaicOutput(k)
           \/ Recorder /\ ~ Both
           \/ /\ class \notin {"null", "mosaic", "test_life"} /\ ~ Recorder
              /\ \E k \in 1..Len(cfg.output) : BadOutput(k)
<1>1. /\ cfg.input \in Seq(Inputs) /\ cfg.output \in Seq(Outputs)
      /\ cfg.have \subseteq {"video", "audio"}
  BY DEF ConfigType
<1>2. DOMAIN cfg.input = 1..Len(cfg.input) /\ DOMAIN cfg.output = 1..Len(cfg.output)
  BY <1>1
<1>3. Both <=> cfg.have = {"video", "audio"}
  BY <1>1 DEF Both, HasVideo, HasAudio
<1> DEFINE mpegAudio == IF Encodes THEN ~ IsAACEncoder(cfg.aenc)
                        ELSE cfg.aparser \notin {"aacparse", "ac3parse"}
           sink == \E k \in 1..Len(cfg.output) : BadSink(cfg.output[k])
           coded == \E k \in 1..Len(cfg.output) : ~ IsDevice(cfg.output[k])
           mosaic == class = "mosaic" /\ HasGrid
           rec == class \in {"timeshift_recorder", "catchup"}
<1>4. Unbuildable <=>
        \/ BadSource
        \/ mosaic /\ \E k \in 1..Len(cfg.input) : BadCell(k)
        \/ NamesUnknown
        \/ mosaic /\ UnknownEncoder /\ coded
        \/ class \notin {"null", "test_life"} /\ ~ rec /\ (class = "mosaic" => mosaic) /\ sink
        \/ rec /\ ~ Both
        \/ class \notin {"null", "mosaic", "test_life"} /\ ~ rec /\ Udp /\ Both /\ mpegAudio
        \/ mosaic /\ Udp /\ (NoVideoPay \/ NoAudioPay)
  BY <1>2, <1>3, Zenon DEF Unbuildable, BadSource, BadCell, OneSource, HasGrid, Encodes, NoVideoPay, NoAudioPay,
     NamesUnknown
<1>5. Udp <=> \E k \in 1..Len(cfg.output) : SchemeOf(cfg.output[k]) = "udp"
  BY <1>2 DEF Udp
<1>6. mpegAudio <=> PayPattern = "video_pay"
  BY PayClashIs
<1> HIDE DEF mpegAudio
<1>7. (\E k \in 1..Len(cfg.output) : BadOutput(k)) <=> sink \/ (Udp /\ Both /\ mpegAudio)
  BY <1>5, <1>6 DEF BadOutput
<1>8. (\E k \in 1..Len(cfg.output) : BadMosaicOutput(k))
        <=> sink \/ (coded /\ UnknownEncoder) \/ (Udp /\ (NoVideoPay \/ NoAudioPay))
  BY <1>5 DEF BadMosaicOutput
<1>9. rec <=> Recorder
  BY DEF Recorder
<1> HIDE DEF sink, coded
<1>10. CASE class = "mosaic"
  BY <1>10, <1>4, <1>8, <1>9, <1>3 DEF Recorder
<1>11. CASE class # "mosaic"
  BY <1>11, <1>4, <1>7, <1>9
<1> QED
  BY <1>10, <1>11

\* The outcome is as it should be.
LEMMA OutcomeExact ==
  ASSUME cfg \in ConfigType, OutcomeInv
  PROVE  AbortsAreForeseen
<1> SUFFICES ASSUME stage \in Ended
             PROVE  /\ stage = "aborted" => Unbuildable
                    /\ Unbuildable => stage \in {"aborted", "declined"}
                    /\ (stage = "refused") <=> (StreamClass = "null")
                    /\ (stage = "failed") <=> (StreamClass = "mosaic" /\ ~ HasGrid)
  BY DEF AbortsAreForeseen, HasGrid
<1>1. class = StreamClass
  BY DEF OutcomeInv, Ended
<1>2. stage \in {"refused", "failed"} => ~ Unbuildable
  <2>1. stage \in {"refused", "failed"} =>
          class \in {"null", "mosaic"} /\ (class = "mosaic" => ~ HasGrid)
    BY DEF OutcomeInv
  <2> QED
    BY <1>1, <2>1, UnbuildableIs DEF BadSource, OneSource, Recorder, NamesUnknown, Encodes
<1> QED
  BY <1>1, <1>2 DEF OutcomeInv, Ended

\* New names and links that fit: the building goes on.
LEMMA AddGood ==
  ASSUME IsSeq(elements), Distinct(elements), NEW line, NEW N, NEW P, Line(line, N, P),
         N \cap Names(elements) = {}, "null" \notin P, NEW lks, NEW prb, NEW next,
         Add(line, lks, prb, next), \A l \in lks : ~ Refused(elements \o line, l)
  PROVE  stage' = next
<1>1. IsSeq(line) /\ Plugins(line) \subseteq P
  BY DEF Line
<1>2. Distinct(elements \o line)
  BY AddDistinct
<1>3. NullElement \notin Els(line)
  BY <1>1, NullIs DEF Plugins
<1>4. /\ elements' = elements \o line
      /\ stage' = IF \/ NullElement \in Els(line)
                     \/ ~ Distinct(elements')
                     \/ \E l \in lks : Refused(elements', l)
                  THEN "aborted" ELSE next
  BY <1>1, AddIs
<1> QED
  BY <1>2, <1>3, <1>4

\* A null element, a name that is there already, a link that is refused: it ends.
LEMMA AddBad ==
  ASSUME IsSeq(elements), NEW line, IsSeq(line), NEW lks, NEW prb, NEW next,
         Add(line, lks, prb, next),
         \/ NullElement \in Els(line)
         \/ ~ Distinct(elements \o line)
         \/ Distinct(elements \o line) => \E l \in lks : Refused(elements \o line, l)
  PROVE  stage' = "aborted"
<1>1. /\ elements' = elements \o line
      /\ stage' = IF \/ NullElement \in Els(line)
                     \/ ~ Distinct(elements')
                     \/ \E l \in lks : Refused(elements', l)
                  THEN "aborted" ELSE next
  BY AddIs
<1>2. \/ NullElement \in Els(line)
      \/ ~ Distinct(elements')
      \/ \E l \in lks : Refused(elements', l)
  BY <1>1, Zenon
<1> QED
  BY <1>1, <1>2

\* Names that are not in the pipeline yet.
LEMMA FreshNames ==
  ASSUME NEW A, NEW B, NEW C, NEW i, NEW id, NamesIn(B, C, i), A \cap B = {},
         A \cap C = {} \/ id \notin 0..(i - 1)
  PROVE  At(A, id) \cap Names(elements) = {}
BY AtIs DEF NamesIn

\* What a line may be linked behind.
Leads(c, s) ==
    c # None => \E e \in Els(elements) : e.name = c /\ (Len(s) > 0 => CanLink(e.plugin, s[1].plugin))

\* The links of a line with nothing behind it.
LEMMA LegalTail ==
  ASSUME NEW els, Distinct(els), Els(elements) \subseteq Els(els), NEW s, IsSeq(s), Els(s) \subseteq Els(els),
         Linkable(s), NEW c, Leads(c, s)
  PROVE  \A l \in Joined(c, s, None) : ~ Refused(els, l)
<1> DEFINE to == None
<1>1. c # None => \E e \in Els(els) : e.name = c /\ (Len(s) > 0 => CanLink(e.plugin, s[1].plugin))
  BY DEF Leads
<1>2. to = None
  OBVIOUS
<1> HIDE DEF to
<1>3. \A l \in Joined(c, s, to) : ~ Refused(els, l)
  BY <1>1, <1>2, JoinedLegal
<1> QED
  BY <1>2, <1>3

\* Two lines behind two connections: the building goes on.
LEMMA TwoGood ==
  ASSUME IsSeq(elements), Distinct(elements),
         NEW v, NEW N, NEW P, NEW a, NEW M, NEW Q, Line(v, N, P), Line(a, M, Q),
         N \cap M = {}, (N \cup M) \cap Names(elements) = {},
         "null" \notin P \cup Q, Linkable(v), Linkable(a), NEW c, NEW d, Leads(c, v), Leads(d, a),
         NEW lks, lks \subseteq Joined(c, v, None) \cup Joined(d, a, None),
         NEW prb, NEW next, Add(v \o a, lks, prb, next)
  PROVE  /\ stage' = next
         /\ Names(elements') \subseteq Names(elements) \cup N \cup M
         /\ Els(elements') = Els(elements) \cup Els(v) \cup Els(a)
<1> DEFINE line == v \o a
           els == elements \o line
<1>1. Line(line, N \cup M, P \cup Q)
  BY LineConcat
<1>2. IsSeq(v) /\ IsSeq(a) /\ IsSeq(line) /\ Names(line) \subseteq N \cup M
  BY <1>1 DEF Line
<1>4. Distinct(els)
  BY <1>1, <1>2, AddDistinct
<1>5. Els(line) = Els(v) \cup Els(a)
  BY <1>2, Concat
<1>6. Els(els) = Els(elements) \cup Els(v) \cup Els(a)
  BY <1>2, <1>5, Concat
<1>7. /\ \A l \in Joined(c, v, None) : ~ Refused(els, l)
      /\ \A l \in Joined(d, a, None) : ~ Refused(els, l)
  <2> HIDE DEF els
  <2>1. Els(elements) \subseteq Els(els) /\ Els(v) \subseteq Els(els) /\ Els(a) \subseteq Els(els)
    BY <1>6
  <2> QED
    BY <1>2, <1>4, <2>1, LegalTail
<1>8. stage' = next
  BY <1>1, <1>2, <1>7, AddGood
<1>9. /\ Els(elements') = Els(elements) \cup Els(line)
      /\ Names(elements') = Names(elements) \cup Names(line)
  BY <1>2, AddIs
<1> QED
  BY <1>2, <1>5, <1>8, <1>9

\* The same for lines whose names are patterns with a number.
LEMMA TwoGoodAt ==
  ASSUME IsSeq(elements), Distinct(elements), NEW B, NEW C, NEW i, NamesIn(B, C, i),
         NEW v, NEW A, NEW P, NEW a, NEW D, NEW Q, NEW id, PLine(v, A, id, P), PLine(a, D, id, Q),
         A \cap D = {}, (A \cup D) \cap B = {}, (A \cup D) \cap C = {} \/ id \notin 0..(i - 1),
         "null" \notin P \cup Q, Linkable(v), Linkable(a), NEW c, NEW d, Leads(c, v), Leads(d, a),
         NEW lks, lks \subseteq Joined(c, v, None) \cup Joined(d, a, None),
         NEW prb, NEW next, Add(v \o a, lks, prb, next)
  PROVE  /\ stage' = next
         /\ \A n \in Names(elements') : n \in Names(elements) \/ (n[1] \in A \cup D /\ n[2] = id)
         /\ Els(elements') = Els(elements) \cup Els(v) \cup Els(a)
<1>1. Line(v, At(A, id), P) /\ Line(a, At(D, id), Q)
  BY DEF PLine
<1>2. At(A, id) \cap At(D, id) = {}
  BY AtIs
<1>3. At(A, id) \cap Names(elements) = {} /\ At(D, id) \cap Names(elements) = {}
  BY FreshNames
<1>4. /\ stage' = next
      /\ Names(elements') \subseteq Names(elements) \cup At(A, id) \cup At(D, id)
      /\ Els(elements') = Els(elements) \cup Els(v) \cup Els(a)
  BY <1>1, <1>2, <1>3, TwoGood
<1> QED
  BY <1>4, AtIs

\* What depends on the configuration and the class only.
LEMMA SameConfig ==
  ASSUME UNCHANGED <<cfg, class>>
  PROVE  /\ StreamClass' = StreamClass /\ (Unbuildable' <=> Unbuildable) /\ (HasGrid' <=> HasGrid)
         /\ (BadSource' <=> BadSource) /\ (Encodes' <=> Encodes) /\ (Recorder' <=> Recorder)
         /\ (UnknownEncoder' <=> UnknownEncoder) /\ (UnknownParser' <=> UnknownParser)
         /\ UdbPats' = UdbPats /\ PostPats' = PostPats
         /\ \A k : BadCell(k)' <=> BadCell(k)
         /\ \A k : BadOutput(k)' <=> BadOutput(k)
         /\ \A k : BadMosaicOutput(k)' <=> BadMosaicOutput(k)
<1>1. StreamClass' = StreamClass
  BY DEF StreamClass, RelayClass, EncodeClass, AllFiles, Opt
<1>2. (Encodes' <=> Encodes) /\ (Recorder' <=> Recorder) /\ (HasGrid' <=> HasGrid)
  BY DEF Encodes, Recorder, HasGrid
<1>3. BadSource' <=> BadSource
  BY DEF BadSource, BadInput
<1>4. (HasVideo' <=> HasVideo) /\ (HasAudio' <=> HasAudio) /\ (Udp' <=> Udp)
  BY DEF HasVideo, HasAudio, Udp
<1>5. (UnknownEncoder' <=> UnknownEncoder) /\ (UnknownParser' <=> UnknownParser)
  BY <1>1, <1>4, Zenon DEF UnknownEncoder, UnknownParser
<1>6. Unbuildable' <=> Unbuildable
  BY <1>1, <1>4, <1>5, Zenon DEF Unbuildable, BadInput, BadSink
<1>7. UdbPats' = UdbPats
  BY <1>2 DEF UdbPats
<1>8. PostPats' = PostPats
  BY <1>7 DEF PostPats
<1>9. \A k : BadCell(k)' <=> BadCell(k)
  BY DEF BadCell, BadInput
<1>10. PayPattern' = PayPattern
  BY <1>2 DEF PayPattern, AudioCodecType
<1>11. \A k : BadOutput(k)' <=> BadOutput(k)
  BY <1>4, <1>10, Zenon DEF BadOutput, BadSink, Both
<1>12. \A k : BadMosaicOutput(k)' <=> BadMosaicOutput(k)
  BY <1>4, <1>5, Zenon DEF BadMosaicOutput, BadSink, NoVideoPay, NoAudioPay
<1> QED
  BY <1>1, <1>2, <1>3, <1>5, <1>6, <1>7, <1>8, <1>9, <1>11, <1>12

\* The process ends, as it should.
LEMMA AbortsKeep ==
  ASSUME OutcomeInv, stage \notin {"factory"} \cup Ended, UNCHANGED <<cfg, class>>, stage' = "aborted",
         class = "mosaic" => HasGrid, Unbuildable
  PROVE  ExactInv'
<1>1. StreamClass' = StreamClass /\ (Unbuildable' <=> Unbuildable) /\ (HasGrid' <=> HasGrid)
  BY SameConfig
<1>2. OutcomeInv'
  BY <1>1 DEF OutcomeInv, Ended
<1>3. FineInv' /\ NameInv' /\ SoftInv'
  BY DEF FineInv, NameInv, SoftInv
<1> QED
  BY <1>2, <1>3 DEF ExactInv

\* GStreamer declines: the configuration may be any that the factory took.
LEMMA DeclinesExact ==
  ASSUME GraphInv, ExactInv, GstDeclines
  PROVE  ExactInv'
<1>1. /\ stage \notin {"factory"} \cup Ended /\ stage' = "declined" /\ UNCHANGED <<cfg, class>>
      /\ stage = "mosaic" => HasGrid
  BY DEF GstDeclines, HasGrid
<1>2. class = "mosaic" => HasGrid
  <2>1. stage \in {"mosaic_input", "mosaic_output"} => HasGrid
    BY DEF ExactInv, FineInv
  <2>2. class = "mosaic" => stage \in {"mosaic", "mosaic_input", "mosaic_output"}
    BY <1>1 DEF GraphInv, StageInv, Stages
  <2> QED
    BY <1>1, <2>1, <2>2
<1>3. StreamClass' = StreamClass /\ (HasGrid' <=> HasGrid)
  BY <1>1, SameConfig
<1>4. OutcomeInv'
  BY <1>1, <1>2, <1>3 DEF ExactInv, OutcomeInv, Ended
<1>5. FineInv' /\ NameInv' /\ SoftInv'
  BY <1>1 DEF FineInv, NameInv, SoftInv
<1> QED
  BY <1>4, <1>5 DEF ExactInv

\* The building goes on.
LEMMA GoesOn ==
  ASSUME OutcomeInv, stage \notin {"factory"} \cup Ended, UNCHANGED <<cfg, class>>,
         stage' \notin {"factory"} \cup Ended
  PROVE  OutcomeInv'
<1>1. StreamClass' = StreamClass
  BY SameConfig
<1> QED
  BY <1>1 DEF OutcomeInv, Ended

\* CreateStream chooses the class.
LEMMA CreateExact ==
  ASSUME ExactInv, CreateStream
  PROVE  ExactInv'
<1>1. StreamClass' = StreamClass
  BY DEF CreateStream, StreamClass, RelayClass, EncodeClass, AllFiles, Opt
<1>2. /\ class' = StreamClass /\ out' = out /\ out = 0
      /\ stage' = IF class' = "null" THEN "refused" ELSE IF class' = "mosaic" THEN "mosaic" ELSE "input"
  BY DEF CreateStream, ExactInv, FineInv
<1>3. OutcomeInv'
  BY <1>1, <1>2 DEF OutcomeInv
<1>4. FineInv' /\ NameInv' /\ SoftInv'
  BY <1>2 DEF FineInv, NameInv, SoftInv
<1> QED
  BY <1>3, <1>4 DEF ExactInv

\* The input was built.
LEMMA UdbReached ==
  ASSUME ExactInv, stage = "input", stage' = "udb", UNCHANGED <<cfg, class, out>>,
         NamesIn(InPats, {}, 0)', ~ BadSource, SoftInv'
  PROVE  ExactInv'
<1>1. BadSource' <=> BadSource
  BY SameConfig
<1>2. OutcomeInv'
  BY GoesOn DEF ExactInv, Ended
<1>3. FineInv' /\ NameInv'
  BY <1>1 DEF FineInv, NameInv, ExactInv
<1> QED
  BY <1>2, <1>3 DEF ExactInv

\* The classes streams_factory chooses from.
Classes == OneSource \cup {"null", "mosaic", "playlist_relay", "playlist_encode", "rtsp_relay", "rtsp_encode",
                           "device", "test_input", "display_input", "timeshift_player"}

\* The factory chooses one of these.
LEMMA ClassIs ==
  ASSUME cfg \in ConfigType
  PROVE  StreamClass \in Classes
<1>1. cfg.type \in Types
  BY DEF ConfigType
<1>2. RelayClass \in Classes
  BY DEF RelayClass, Classes, OneSource
<1>3. EncodeClass \in Classes
  BY DEF EncodeClass, Classes, OneSource
<1> QED
  BY <1>1, <1>2, <1>3 DEF StreamClass, Types, Classes, OneSource

SrcPlugins == {"filesrc", "souphttpsrc", "udpsrc", "rtmpsrc", "tcpserversrc", "srtsrc", "appsrc", "multifilesrc"}

\* A source that is not null, whatever its number.
LEMMA SrcFine ==
  ASSUME NEW scheme, NEW id
  PROVE  /\ make_src(scheme, id) = NullElement <=> BadInput(scheme)
         /\ ~ BadInput(scheme) => /\ make_src(scheme, id).name = <<"src", id>>
                                  /\ make_src(scheme, id).plugin \in SrcPlugins
BY DEF BadInput, make_src, make_file_src, make_http_src, make_udp_src, make_rtmp_src,
       make_tcp_server_src, make_srt_src, Element, NullElement, SrcPlugins

\* A source and its decodebin can be linked.
LEMMA SourceLine ==
  ASSUME NEW src, NEW id, NEW P, src.name = <<"src", id>>, src.plugin \in P, P \cap DOMAIN Takes = {},
         "null" \notin P
  PROVE  LET s == <<src, Decodebin(id)>>
         IN  /\ PLine(s, {"src", "decodebin"}, id, P \cup {"decodebin"}) /\ Linkable(s)
             /\ "null" \notin P \cup {"decodebin"}
<1> DEFINE s == <<src, Decodebin(id)>>
<1>1. Decodebin(id).name = <<"decodebin", id>> /\ Decodebin(id).plugin = "decodebin"
  BY BinName
<1>2. Line(s, {<<"src", id>>, <<"decodebin", id>>}, {src.plugin, "decodebin"})
  BY <1>1, LineTwo
<1> HIDE DEF s
<1>3. {<<"src", id>>, <<"decodebin", id>>} \subseteq At({"src", "decodebin"}, id)
  BY AtIs
<1>4. Line(s, At({"src", "decodebin"}, id), P \cup {"decodebin"})
  BY <1>2, <1>3, LineWider
<1>5. Soft(P \cup {"decodebin"})
  BY DEF Soft, Takes
<1>6. Linkable(s)
  BY <1>4, <1>5, SoftLine
<1> QED
  BY <1>4, <1>6 DEF PLine, s

\* The state in which an input is added.
LEMMA NothingYet ==
  ASSUME GraphInv, stage = "input"
  PROVE  /\ IsSeq(elements) /\ Distinct(elements) /\ Names(elements) = {} /\ class # "mosaic"
         /\ cfg \in ConfigType /\ NamesIn({}, {}, 0) /\ \A s : Leads(None, s)
<1>1. IsSeq(elements) /\ LinkInv /\ Names(elements) = {} /\ class # "mosaic"
  BY AtInput
<1> QED
  BY <1>1 DEF LinkInv, NamesIn, Leads, GraphInv

\* One line of an input.
LEMMA InputGood ==
  ASSUME GraphInv, ExactInv, stage = "input", NEW s, NEW A, NEW P, PLine(s, A, 0, P), A \subseteq InPats,
         Linkable(s), "null" \notin P, NEW lks, lks \subseteq Joined(None, s, None), NEW prb,
         Add(s, lks, prb, "udb"), UNCHANGED <<cfg, class, out>>,
         class \notin {"test_input", "display_input"}, ~ BadSource
  PROVE  ExactInv'
<1>1. /\ IsSeq(elements) /\ Distinct(elements) /\ Names(elements) = {}
      /\ NamesIn({}, {}, 0) /\ \A t : Leads(None, t)
  BY NothingYet
<1>2. IsSeq(s) /\ Line(s, At(A, 0), P) /\ \A n \in Names(s) : n[1] \in A /\ n[2] = 0
  BY PLineIs
<1>3. PICK els : els = elements \o s
  OBVIOUS
<1>4. Distinct(els)
  BY <1>1, <1>2, <1>3, AddDistinct
<1>5. Els(els) = Els(elements) \cup Els(s)
  BY <1>1, <1>2, <1>3, Concat
<1>6. /\ stage' = "udb"
      /\ \A n \in Names(elements') : n[1] \in A /\ n[2] = 0
  <2>1. Leads(None, s) /\ Els(elements) \subseteq Els(els) /\ Els(s) \subseteq Els(els)
    BY <1>1, <1>5
  <2>2. \A l \in Joined(None, s, None) : ~ Refused(els, l)
    BY <1>2, <1>4, <2>1, LegalTail
  <2>3. \A l \in lks : ~ Refused(elements \o s, l)
    BY <1>3, <2>2
  <2>4. At(A, 0) \cap Names(elements) = {}
    BY <1>1
  <2>5. stage' = "udb"
    BY <1>1, <1>2, <2>3, <2>4, AddGood
  <2>6. Names(elements') = Names(elements) \cup Names(s)
    BY <1>1, <1>2, AddIs
  <2> QED
    BY <1>1, <1>2, <2>5, <2>6
<1>7. NamesIn(InPats, {}, 0)'
  BY <1>6 DEF NamesIn
<1>8. SoftInv'
  BY <1>6 DEF SoftInv
<1> QED
  BY <1>6, <1>7, <1>8, UdbReached

\* BuildInput ends the process on exactly the sources that are null.
LEMMA BuildInputExact ==
  ASSUME GraphInv, ExactInv, BuildInput
  PROVE  ExactInv'
<1> DEFINE src == CASE class \in {"playlist_relay", "playlist_encode"} -> BuildPlaylistSrc
                    [] class = "timeshift_player" -> BuildMultiFileSrc
                    [] OTHER -> BuildInputSrc
<1>1. PICK s : s = src
  OBVIOUS
<1>2. PICK line : line = <<s, Decodebin(0)>>
  OBVIOUS
<1>3. PICK prb : prb = IF class = "timeshift_player" THEN {} ELSE {Probe(s, 0, "input")}
  OBVIOUS
<1>4. /\ stage = "input" /\ UNCHANGED <<cfg, class, conn, out>>
      /\ class \notin {"rtsp_relay", "rtsp_encode", "device", "test_input", "display_input"}
      /\ Add(line, Joined(None, line, None), prb, "udb")
  BY <1>1, <1>2, <1>3 DEF BuildInput
<1>5. /\ IsSeq(elements) /\ class # "mosaic" /\ cfg \in ConfigType
  BY <1>4, NothingYet
<1>6. class = StreamClass /\ class # "null" /\ class \in Classes
  BY <1>4, <1>5, ClassIs DEF ExactInv, OutcomeInv
<1>7. BadSource <=> s = NullElement
  <2>1. CASE class \in {"playlist_relay", "playlist_encode"}
    BY <2>1, <1>1 DEF BuildPlaylistSrc, make_app_src, Element, NullElement, BadSource, OneSource
  <2>2. CASE class = "timeshift_player"
    BY <2>2, <1>1 DEF BuildMultiFileSrc, make_multifile_src, Element, NullElement, BadSource, OneSource
  <2>3. CASE class \notin {"playlist_relay", "playlist_encode", "timeshift_player"}
    <3>1. class \in OneSource
      BY <2>3, <1>4, <1>5, <1>6 DEF Classes
    <3>2. s = make_src(cfg.input[1], 0)
      BY <2>3, <1>1 DEF BuildInputSrc
    <3> QED
      BY <3>1, <3>2, SrcFine DEF BadSource
  <2> QED
    BY <2>1, <2>2, <2>3
<1>8. s # NullElement => s.name = <<"src", 0>> /\ s.plugin \in SrcPlugins
  <2>1. BuildPlaylistSrc.name = <<"src", 0>> /\ BuildPlaylistSrc.plugin = "appsrc"
    BY DEF BuildPlaylistSrc, make_app_src, Element
  <2>2. BuildMultiFileSrc.name = <<"src", 0>> /\ BuildMultiFileSrc.plugin = "multifilesrc"
    BY DEF BuildMultiFileSrc, make_multifile_src, Element
  <2>3. BuildInputSrc # NullElement => BuildInputSrc.name = <<"src", 0>> /\ BuildInputSrc.plugin \in SrcPlugins
    BY SrcFine DEF BuildInputSrc
  <2> QED
    BY <1>1, <2>1, <2>2, <2>3 DEF SrcPlugins
<1> HIDE DEF src
<1>9. CASE s = NullElement
  <2>1. IsSeq(line) /\ NullElement \in Els(line)
    BY <1>2, <1>9, InputLine
  <2>2. stage' = "aborted"
    <3>1. PICK lks : lks = Joined(None, line, None)
      OBVIOUS
    <3> QED
      BY <1>4, <1>5, <2>1, <3>1, AddBad
  <2>3. Unbuildable
    BY <1>5, <1>6, <1>7, <1>9, UnbuildableIs
  <2> QED
    BY <1>4, <1>5, <2>2, <2>3, AbortsKeep DEF ExactInv, Ended
<1>10. CASE s # NullElement
  <2>1. SrcPlugins \cap DOMAIN Takes = {} /\ "null" \notin SrcPlugins
    BY DEF SrcPlugins, Takes
  <2>2. PLine(line, {"src", "decodebin"}, 0, SrcPlugins \cup {"decodebin"}) /\ Linkable(line)
    BY <1>2, <1>8, <1>10, <2>1, SourceLine
  <2>3. "null" \notin SrcPlugins \cup {"decodebin"}
    BY <2>1
  <2>4. {"src", "decodebin"} \subseteq InPats
    BY DEF InPats
  <2> QED
    BY <1>4, <1>7, <1>10, <2>2, <2>3, <2>4, InputGood
<1> QED
  BY <1>9, <1>10

\* The inputs of the rtsp streams never end the process.
LEMMA RtspInputExact ==
  ASSUME GraphInv, ExactInv, BuildRtspRelayInput \/ BuildRtspEncodingInput
  PROVE  ExactInv'
<1>1. PICK line, P : line = <<make_rtsp_src(0), Decodebin(0)>> /\ P = {"rtspsrc"}
  OBVIOUS
<1>2. /\ stage = "input" /\ class \in {"rtsp_relay", "rtsp_encode"}
      /\ Add(line, {}, {}, "udb") /\ UNCHANGED <<cfg, class, out>>
  BY <1>1 DEF BuildRtspRelayInput, BuildRtspEncodingInput, RtspInput
<1>3. make_rtsp_src(0).name = <<"src", 0>> /\ make_rtsp_src(0).plugin \in P
  BY <1>1, ElementIs DEF make_rtsp_src
<1>4. P \cap DOMAIN Takes = {} /\ "null" \notin P
  BY <1>1 DEF Takes
<1>5. /\ PLine(line, {"src", "decodebin"}, 0, P \cup {"decodebin"}) /\ Linkable(line)
      /\ "null" \notin P \cup {"decodebin"}
  BY <1>1, <1>3, <1>4, SourceLine
<1>6. {"src", "decodebin"} \subseteq InPats /\ ~ BadSource /\ class \notin {"test_input", "display_input"}
  BY <1>2 DEF InPats, BadSource, OneSource
<1>7. PICK lks, prb : lks = {} /\ prb = {} /\ Add(line, lks, prb, "udb")
  BY <1>2
<1> QED
  BY <1>2, <1>5, <1>6, <1>7, InputGood

\* Lines that are left out can be linked too.
LEMMA LinkableIf ==
  ASSUME NEW b, NEW s, Linkable(s)
  PROVE  Linkable(If(b, s))
BY LineEmpty DEF If

\* An input of two lines.
LEMMA TwoInputs ==
  ASSUME GraphInv, ExactInv, stage = "input",
         NEW v, NEW N, NEW P, NEW a, NEW M, NEW Q, Line(v, N, P), Line(a, M, Q), N \cap M = {},
         \A n \in N \cup M : n[1] \in InPats, "null" \notin P \cup Q, Linkable(v), Linkable(a),
         NEW lks, lks \subseteq Joined(None, v, None) \cup Joined(None, a, None),
         NEW prb, Add(v \o a, lks, prb, "udb"), UNCHANGED <<cfg, class, out>>, class \notin OneSource
  PROVE  /\ stage' = "udb" /\ Els(elements') = Els(elements) \cup Els(v) \cup Els(a)
         /\ SoftInv' => ExactInv'
<1>1. /\ IsSeq(elements) /\ Distinct(elements) /\ Names(elements) = {}
      /\ Leads(None, v) /\ Leads(None, a)
  BY NothingYet
<1>2. (N \cup M) \cap Names(elements) = {}
  BY <1>1
<1>3. /\ stage' = "udb"
      /\ Names(elements') \subseteq Names(elements) \cup N \cup M
      /\ Els(elements') = Els(elements) \cup Els(v) \cup Els(a)
  BY <1>1, <1>2, TwoGood
<1>4. NamesIn(InPats, {}, 0)'
  BY <1>1, <1>3 DEF NamesIn
<1>5. ~ BadSource
  BY DEF BadSource
<1> QED
  BY <1>3, <1>4, <1>5, UdbReached

\* BuildDeviceInput never ends the process.
LEMMA DeviceInputExact ==
  ASSUME GraphInv, ExactInv, BuildDeviceInput
  PROVE  ExactInv'
<1>1. PICK v, a, lks, prb :
        /\ v = If(HasVideo, <<make_v4l2_src(0), Decodebin(0)>>)
        /\ a = If(HasAudio, <<make_alsa_src(1), Decodebin(1)>>)
        /\ lks = Joined(None, v, None) \cup Joined(None, a, None)
        /\ prb = {p \in {Probe(make_v4l2_src(0), 0, "input"), Probe(make_alsa_src(1), 1, "input")} :
                    p.el \in Names(v \o a)}
  OBVIOUS
<1>2. stage = "input" /\ class = "device" /\ Add(v \o a, lks, prb, "udb") /\ UNCHANGED <<cfg, class, out>>
  BY <1>1 DEF BuildDeviceInput
<1>3. PICK P, Q, R : P = {"v4l2src"} /\ Q = {"alsasrc"} /\ R = {"src", "decodebin"}
  OBVIOUS
<1>4. /\ make_v4l2_src(0).name = <<"src", 0>> /\ make_v4l2_src(0).plugin \in P
      /\ make_alsa_src(1).name = <<"src", 1>> /\ make_alsa_src(1).plugin \in Q
  BY <1>3, ElementIs DEF make_v4l2_src, make_alsa_src
<1>5. /\ P \cap DOMAIN Takes = {} /\ "null" \notin P
      /\ Q \cap DOMAIN Takes = {} /\ "null" \notin Q
  BY <1>3 DEF Takes
<1>6. PLine(v, R, 0, P \cup {"decodebin"}) /\ Linkable(v) /\ "null" \notin P \cup {"decodebin"}
  BY <1>1, <1>3, <1>4, <1>5, SourceLine, PIf, LinkableIf
<1>7. PLine(a, R, 1, Q \cup {"decodebin"}) /\ Linkable(a) /\ "null" \notin Q \cup {"decodebin"}
  BY <1>1, <1>3, <1>4, <1>5, SourceLine, PIf, LinkableIf
<1>8. Line(v, At(R, 0), P \cup {"decodebin"}) /\ Line(a, At(R, 1), Q \cup {"decodebin"})
  BY <1>6, <1>7 DEF PLine
<1>9. At(R, 0) \cap At(R, 1) = {}
  BY AtIs
<1>10. \A n \in At(R, 0) \cup At(R, 1) : n[1] \in InPats
  BY <1>3, AtIs DEF InPats
<1>11. "null" \notin (P \cup {"decodebin"}) \cup (Q \cup {"decodebin"}) /\ class \notin OneSource
  BY <1>2, <1>6, <1>7 DEF OneSource
<1>12. stage' = "udb" /\ (SoftInv' => ExactInv')
  BY <1>1, <1>2, <1>6, <1>7, <1>8, <1>9, <1>10, <1>11, TwoInputs
<1>13. SoftInv'
  BY <1>2, <1>12 DEF SoftInv
<1> QED
  BY <1>12, <1>13

\* The test and the display source.
LEMMA RawExact ==
  ASSUME GraphInv, ExactInv, class \in {"test_input", "display_input"}, NEW e, NEW f, RawInput(e, f),
         e.name # f.name, e.name[1] \in InPats, f.name[1] \in InPats,
         e.plugin \notin DOMAIN Offers \cup {"null"}, f.plugin \notin DOMAIN Offers \cup {"null"}
  PROVE  ExactInv'
<1>1. PICK v, a, lks, prb :
        /\ v = If(HasVideo, <<e>>) /\ a = If(HasAudio, <<f>>) /\ lks = {}
        /\ prb = {Probe((v \o a)[k], 0, "input") : k \in DOMAIN (v \o a)}
  OBVIOUS
<1>2. /\ stage = "input" /\ Add(v \o a, lks, prb, "udb") /\ UNCHANGED <<cfg, class, out>>
      /\ conn' = [video |-> IF HasVideo THEN e.name ELSE None, audio |-> IF HasAudio THEN f.name ELSE None]
  BY <1>1 DEF RawInput
<1>3. Line(v, {e.name}, {e.plugin}) /\ Linkable(v)
  BY <1>1, LineOne, LineIf, LinkableIf
<1>4. Line(a, {f.name}, {f.plugin}) /\ Linkable(a)
  BY <1>1, LineOne, LineIf, LinkableIf
<1>5. /\ {e.name} \cap {f.name} = {} /\ "null" \notin {e.plugin} \cup {f.plugin}
      /\ \A n \in {e.name} \cup {f.name} : n[1] \in InPats
  OBVIOUS
<1>6. class \notin OneSource /\ lks \subseteq Joined(None, v, None) \cup Joined(None, a, None)
  BY <1>1 DEF OneSource
<1>7. /\ stage' = "udb" /\ Els(elements') = Els(elements) \cup Els(v) \cup Els(a)
      /\ SoftInv' => ExactInv'
  <2>1. PICK N, P, M, Q : N = {e.name} /\ P = {e.plugin} /\ M = {f.name} /\ Q = {f.plugin}
    OBVIOUS
  <2>2. /\ Line(v, N, P) /\ Line(a, M, Q) /\ N \cap M = {} /\ "null" \notin P \cup Q
        /\ \A n \in N \cup M : n[1] \in InPats
    BY <1>3, <1>4, <1>5, <2>1
  <2> QED
    BY <1>2, <1>3, <1>4, <1>6, <2>2, TwoInputs
<1>8. (HasVideo => e \in Els(v)) /\ (HasAudio => f \in Els(a))
  <2>1. PICK s, t : s = <<e>> /\ t = <<f>>
    OBVIOUS
  <2>2. e \in Els(s) /\ f \in Els(t)
    BY <2>1, SingleIs
  <2> QED
    BY <1>1, <2>1, <2>2, IfIs
<1>9. SoftInv'
  <2>1. conn'.video # None => conn'.video = e.name /\ e \in Els(elements')
    BY <1>2, <1>7, <1>8
  <2>2. conn'.audio # None => conn'.audio = f.name /\ f \in Els(elements')
    BY <1>2, <1>7, <1>8
  <2> QED
    BY <2>1, <2>2 DEF SoftInv, SoftAt
<1> QED
  BY <1>7, <1>9

\* BuildTestInput and BuildDisplayInput never end the process.
LEMMA RawInputsExact ==
  ASSUME GraphInv, ExactInv, BuildTestInput \/ BuildDisplayInput
  PROVE  ExactInv'
<1>1. PICK e, f : /\ class = "test_input" => /\ e = Element("videotestsrc", "video_src", 0)
                                             /\ f = Element("audiotestsrc", "audio_src", 0)
                  /\ class # "test_input" => /\ e = Element("ximagesrc", "src", 0)
                                             /\ f = Element("audiotestsrc", "src", 1)
  <2>1. CASE class = "test_input"
    BY <2>1
  <2>2. CASE class # "test_input"
    BY <2>2
  <2> QED
    BY <2>1, <2>2
<1>2. class \in {"test_input", "display_input"} /\ RawInput(e, f)
  BY <1>1 DEF BuildTestInput, BuildDisplayInput
<1>3. /\ e.name[1] \in InPats /\ f.name[1] \in InPats /\ e.name # f.name
      /\ e.plugin \in {"videotestsrc", "ximagesrc"} /\ f.plugin = "audiotestsrc"
  BY <1>1, <1>2 DEF Element, InPats
<1>4. e.plugin \notin DOMAIN Offers \cup {"null"} /\ f.plugin \notin DOMAIN Offers \cup {"null"}
  BY <1>3 DEF Offers
<1> QED
  BY <1>2, <1>3, <1>4, RawExact

\* A stage between the input and the outputs was built.
LEMMA FrontReached ==
  ASSUME GraphInv, ExactInv, stage \in {"udb", "postproc", "converter"},
         stage' \in {"postproc", "converter", "output"},
         stage = "udb" /\ ~ Encodes => ~ UnknownParser, stage' = "output" /\ Encodes => ~ UnknownEncoder,
         UNCHANGED <<cfg, class, out>>, NameInv', SoftInv'
  PROVE  ExactInv'
<1>1. /\ (BadSource' <=> BadSource) /\ (Encodes' <=> Encodes)
      /\ (UnknownEncoder' <=> UnknownEncoder) /\ (UnknownParser' <=> UnknownParser)
  BY SameConfig
<1>2. OutcomeInv'
  BY GoesOn DEF ExactInv, Ended
<1>3. Len(cfg.output) \in Nat
  BY DEF GraphInv, ConfigType
<1>4. out' = 0 /\ ~ BadSource'
  BY <1>1 DEF ExactInv, FineInv
<1>5. \A k \in 1..out' : ~ BadOutput(k)'
  BY <1>4
<1>6. ~ Encodes' => ~ UnknownParser'
  BY <1>1 DEF ExactInv, FineInv
<1>7. FineInv'
  BY <1>1, <1>3, <1>4, <1>5, <1>6 DEF FineInv
<1> QED
  BY <1>2, <1>7 DEF ExactInv

\* The end of a line of elements that offer no fixed format.
LEMMA SoftTail ==
  ASSUME NEW E, NEW s, IsSeq(s), Els(s) \subseteq E, \A e \in Els(s) : e.plugin \notin DOMAIN Offers,
         NEW from, from # None => \E e \in E : e.name = from /\ e.plugin \notin DOMAIN Offers
  PROVE  Tail1(from, s) # None => \E e \in E : e.name = Tail1(from, s) /\ e.plugin \notin DOMAIN Offers
<1>1. Len(s) \in Nat
  BY SeqDomain
<1>2. CASE Len(s) = 0
  BY <1>2, NoTail
<1>3. CASE Len(s) > 0
  BY <1>3, EndsOf
<1> QED
  BY <1>1, <1>2, <1>3

\* KeepConnections keeps the invariant of the outcome.
LEMMA KeepExact ==
  ASSUME GraphInv, ExactInv, KeepConnections
  PROVE  ExactInv'
<1>1. /\ stage = "udb" /\ class \in {"test_input", "display_input"} /\ stage' = "postproc"
      /\ UNCHANGED <<cfg, class, elements, conn, out>>
  BY DEF KeepConnections
<1>2. NamesIn(InPats, {}, 0) /\ InPats \subseteq UdbPats'
  BY <1>1 DEF ExactInv, NameInv, UdbPats
<1>3. NameInv'
  BY <1>1, <1>2 DEF NameInv, NamesIn
<1>4. SoftInv'
  BY <1>1 DEF ExactInv, SoftInv, SoftAt, Encodes
<1>5. Encodes
  BY <1>1 DEF Encodes
<1> QED
  BY <1>1, <1>3, <1>4, <1>5, FrontReached

\* The connections behind the decodebin.
LEMMA UdbExact ==
  ASSUME GraphInv, ExactInv, class \notin {"test_input", "display_input"}, ~ Encodes => ~ UnknownParser,
         NEW video, NEW P, PLine(video, {"udb_conn_video"}, 0, P), Linkable(video),
         NEW audio, NEW D, NEW Q, PLine(audio, D, 0, Q), Linkable(audio),
         D \subseteq UdbPats \ {"udb_conn_video"}, D \cap InPats = {}, "null" \notin P \cup Q,
         Encodes => (P \cup Q) \cap DOMAIN Offers = {}, UdbConnections(video, audio)
  PROVE  ExactInv'
<1>1. PICK v, a, lks, prb : /\ v = If(HasVideo, video) /\ a = If(HasAudio, audio)
                            /\ lks = Joined(None, a, None) /\ prb = {}
  OBVIOUS
<1>2. /\ stage = "udb" /\ Add(v \o a, lks, prb, "postproc") /\ UNCHANGED <<cfg, class, out>>
      /\ conn' = [video |-> Tail1(None, v), audio |-> Tail1(None, a)]
  BY <1>1 DEF UdbConnections
<1>3. PICK A, C, i : A = {"udb_conn_video"} /\ C = {} /\ i = 0
  OBVIOUS
<1>4. PLine(v, A, 0, P) /\ PLine(a, D, 0, Q) /\ Linkable(v) /\ Linkable(a)
  BY <1>1, <1>3, PIf, LinkableIf
<1>5. IsSeq(elements) /\ Distinct(elements)
  BY <1>2 DEF GraphInv, LinkInv
<1>6. NamesIn(InPats, C, i)
  BY <1>2, <1>3 DEF ExactInv, NameInv
<1>7. A \cap D = {} /\ (A \cup D) \cap InPats = {} /\ (A \cup D) \cap C = {}
  BY <1>3 DEF InPats
<1>8. Leads(None, v) /\ Leads(None, a) /\ lks \subseteq Joined(None, v, None) \cup Joined(None, a, None)
  BY <1>1 DEF Leads
<1>9. /\ stage' = "postproc"
      /\ \A n \in Names(elements') : n \in Names(elements) \/ (n[1] \in A \cup D /\ n[2] = 0)
      /\ Els(elements') = Els(elements) \cup Els(v) \cup Els(a)
  BY <1>2, <1>4, <1>5, <1>6, <1>7, <1>8, TwoGoodAt
<1>10. NameInv'
  <2>1. UdbPats' = UdbPats /\ A \cup D \cup InPats \subseteq UdbPats
    BY <1>2, <1>3, SameConfig DEF UdbPats
  <2>2. NamesIn(UdbPats, {}, 0)'
    BY <1>3, <1>6, <1>9, <2>1 DEF NamesIn
  <2> QED
    BY <1>9, <2>2 DEF NameInv
<1>11. SoftInv'
  <2> SUFFICES ASSUME Encodes, NEW c \in {conn'.video, conn'.audio}, c # None
               PROVE  SoftAt(c)'
    BY <1>2 DEF SoftInv, Encodes
  <2>1. PICK E : E = Els(elements')
    OBVIOUS
  <2>2. IsSeq(v) /\ IsSeq(a) /\ \A e \in Els(v) \cup Els(a) : e.plugin \notin DOMAIN Offers
    BY <1>4, PLineIs
  <2>3. Els(v) \subseteq E /\ Els(a) \subseteq E
    BY <1>9, <2>1
  <2>4. c = Tail1(None, v) \/ c = Tail1(None, a)
    BY <1>2
  <2>5. \E e \in E : e.name = c /\ e.plugin \notin DOMAIN Offers
    BY <2>2, <2>3, <2>4, SoftTail
  <2> QED
    BY <2>1, <2>5 DEF SoftAt
<1> QED
  BY <1>2, <1>9, <1>10, <1>11, FrontReached

\* A parser that is not known ends the process.
LEMMA UnknownParserEnds ==
  ASSUME GraphInv, ExactInv, BuildRelayUdbConnections, UnknownParser
  PROVE  stage' = "aborted" /\ Unbuildable
<1>1. PICK e, f, w, v, a, lks, prb, next :
        /\ e = make_video_parser(cfg.vparser, "udb_conn_video", 0)
        /\ f = make_audio_parser(cfg.aparser, "udb_conn_audio", 0)
        /\ w = If(cfg.aparser = "rawaudioparse", <<make_aac_encoder(0)>>)
        /\ v = If(HasVideo, <<e>>) /\ a = If(HasAudio, <<f>> \o w)
        /\ lks = Joined(None, a, None) /\ prb = {} /\ next = "postproc"
  OBVIOUS
<1>2. ~ Encodes /\ stage = "udb" /\ Add(v \o a, lks, prb, next)
  BY <1>1 DEF BuildRelayUdbConnections, UdbConnections
<1>3. IsSeq(w)
  <2>1. PICK q : q = <<make_aac_encoder(0)>>
    OBVIOUS
  <2>2. IsSeq(q) /\ w = If(cfg.aparser = "rawaudioparse", q)
    BY <1>1, <2>1, SingleIs
  <2> QED
    BY <2>2, IfIs, NoLine
<1>4. IsSeq(<<e>>) /\ Els(<<e>>) = {e} /\ IsSeq(<<f>>) /\ Els(<<f>>) = {f}
  BY SingleIs
<1>5. IsSeq(<<f>> \o w) /\ f \in Els(<<f>> \o w)
  <2>1. PICK u : u = <<f>>
    OBVIOUS
  <2>2. IsSeq(u \o w) /\ Els(u \o w) = Els(u) \cup Els(w)
    BY <1>3, <1>4, <2>1, Concat
  <2> QED
    BY <1>4, <2>1, <2>2
<1>6. IsSeq(v) /\ IsSeq(a)
  BY <1>1, <1>4, <1>5, IfIs, NoLine
<1>7. IsSeq(v \o a) /\ Els(v \o a) = Els(v) \cup Els(a)
  BY <1>6, Concat
<1>8. NullElement \in Els(v) \cup Els(a)
  <2>1. CASE HasVideo /\ cfg.vparser \notin VideoParsers
    BY <1>1, <1>4, <2>1, IfIs DEF make_video_parser
  <2>2. CASE HasAudio /\ cfg.aparser \notin AudioParsers
    BY <1>1, <1>5, <2>2, IfIs DEF make_audio_parser
  <2> QED
    BY <2>1, <2>2 DEF UnknownParser
<1>9. PICK line : line = v \o a
  OBVIOUS
<1>10. stage' = "aborted"
  <2>1. IsSeq(elements) /\ IsSeq(line) /\ Add(line, lks, prb, next) /\ NullElement \in Els(line)
    BY <1>2, <1>7, <1>8, <1>9 DEF GraphInv
  <2> QED
    BY <2>1, AddBad
<1>11. class = StreamClass /\ class \notin {"null", "mosaic"} /\ cfg \in ConfigType
  BY <1>2 DEF ExactInv, OutcomeInv, GraphInv, StageInv
<1>12. NamesUnknown
  BY <1>2, <1>11 DEF NamesUnknown
<1> QED
  BY <1>10, <1>11, <1>12, UnbuildableIs

\* BuildUdbConnections ends the process on a parser that is not known only.
LEMMA UdbActionsExact ==
  ASSUME GraphInv, ExactInv, BuildUdbConnections \/ BuildRelayUdbConnections
  PROVE  ExactInv'
<1>1. CASE BuildUdbConnections
  <2>1. PICK v, a, P, D : /\ v = <<Element("queue", "udb_conn_video", 0)>>
                          /\ a = <<Element("queue", "udb_conn_audio", 0)>>
                          /\ P = {"queue"} /\ D = {"udb_conn_audio"}
    OBVIOUS
  <2>2. Encodes /\ class \notin {"test_input", "display_input"} /\ UdbConnections(v, a)
    BY <1>1, <2>1 DEF BuildUdbConnections
  <2>3. PLine(v, {"udb_conn_video"}, 0, P) /\ PLine(a, D, 0, P)
    BY <2>1, POne
  <2>4. Linkable(v) /\ Linkable(a)
    BY <2>1, SingleIs
  <2>5. /\ D \subseteq UdbPats \ {"udb_conn_video"} /\ D \cap InPats = {}
        /\ "null" \notin P \cup P /\ (P \cup P) \cap DOMAIN Offers = {}
    BY <2>1 DEF UdbPats, InPats, Offers
  <2> QED
    BY <2>2, <2>3, <2>4, <2>5, UdbExact
<1>2. CASE BuildRelayUdbConnections /\ UnknownParser
  <2>1. stage' = "aborted" /\ Unbuildable
    BY <1>2, UnknownParserEnds
  <2>2. stage = "udb" /\ UNCHANGED <<cfg, class>>
    BY <1>2 DEF BuildRelayUdbConnections, UdbConnections
  <2>3. class # "mosaic" /\ OutcomeInv /\ stage \notin {"factory"} \cup Ended
    BY <2>2 DEF GraphInv, StageInv, ExactInv, Ended
  <2> QED
    BY <2>1, <2>2, <2>3, AbortsKeep
<1>3. CASE BuildRelayUdbConnections /\ ~ UnknownParser
  <2>1. PICK vp, ap, v, p, q, w, a :
          /\ vp \in VideoParsers /\ (HasVideo => vp = cfg.vparser)
          /\ ap \in AudioParsers /\ (HasAudio => ap = cfg.aparser)
          /\ v = <<Element(vp, "udb_conn_video", 0)>>
          /\ p = <<Element(ap, "udb_conn_audio", 0)>>
          /\ q = <<make_aac_encoder(0)>>
          /\ w = If(ap = "rawaudioparse", q) /\ a = p \o w
    <3>1. \E vp : vp \in VideoParsers /\ (HasVideo => vp = cfg.vparser)
      BY <1>3 DEF UnknownParser, VideoParsers
    <3>2. \E ap : ap \in AudioParsers /\ (HasAudio => ap = cfg.aparser)
      BY <1>3 DEF UnknownParser, AudioParsers
    <3> QED
      BY <3>1, <3>2
  <2>2. ~ Encodes /\ UdbConnections(v, a)
    <3>1. PICK x, y : /\ x = <<make_video_parser(cfg.vparser, "udb_conn_video", 0)>>
                      /\ y = <<make_audio_parser(cfg.aparser, "udb_conn_audio", 0)>>
                             \o If(cfg.aparser = "rawaudioparse", <<make_aac_encoder(0)>>)
      OBVIOUS
    <3>2. ~ Encodes /\ UdbConnections(x, y)
      BY <1>3, <3>1 DEF BuildRelayUdbConnections
    <3>3. (HasVideo => x = v) /\ (HasAudio => y = a)
      BY <2>1, <3>1 DEF make_video_parser, make_audio_parser
    <3>4. If(HasVideo, x) = If(HasVideo, v) /\ If(HasAudio, y) = If(HasAudio, a)
      BY <3>3 DEF If
    <3> QED
      BY <3>2, <3>4 DEF UdbConnections
  <2>3. PICK P, Q, A, D : /\ P = {vp} /\ Q = {ap} /\ A = {"udb_conn_audio"} /\ D = {"audio_codec"}
    OBVIOUS
  <2>4. PLine(v, {"udb_conn_video"}, 0, P) /\ Linkable(v)
    BY <2>1, <2>3, POne, SingleIs
  <2>5. PLine(p, A, 0, Q) /\ Linkable(p) /\ Final(p).plugin = ap
    <3>1. PLine(p, A, 0, Q)
      BY <2>1, <2>3, POne
    <3>2. Linkable(p) /\ Final(p) = Element(ap, "udb_conn_audio", 0)
      BY <2>1, SingleIs
    <3> QED
      BY <3>1, <3>2, ElementIs
  <2>6. PLine(w, D, 0, {"faac"}) /\ Linkable(w)
    <3>1. PLine(q, D, 0, {"faac"})
      BY <2>1, <2>3, POne DEF make_aac_encoder
    <3>2. Linkable(q)
      BY <2>1, SingleIs
    <3> QED
      BY <2>1, <3>1, <3>2, PIf, LinkableIf
  <2>7. PLine(a, A \cup D, 0, Q \cup {"faac"})
    <3>1. A \cap D = {}
      BY <2>3
    <3> QED
      BY <2>1, <2>5, <2>6, <3>1, PConcat
  <2>8. Linkable(a)
    <3>1. IsSeq(p) /\ IsSeq(w) /\ Len(w) \in Nat
      BY <2>5, <2>6, PLineIs
    <3>2. Len(w) > 0 => ap = "rawaudioparse"
      <4>1. ap # "rawaudioparse" => w = <<>>
        BY <2>1, IfIs
      <4> QED
        BY <4>1, Literal
    <3>3. Len(w) > 0 => CanLink(p[Len(p)].plugin, w[1].plugin)
      <4>1. ap = "rawaudioparse" => ap \notin DOMAIN Offers
        BY DEF Offers
      <4>2. p[Len(p)].plugin = ap
        BY <2>5 DEF Final
      <4> QED
        BY <3>2, <4>1, <4>2, PayIs
    <3> QED
      BY <2>1, <2>5, <2>6, <3>1, <3>3, LinkableConcat
  <2>9. /\ A \cup D \subseteq UdbPats \ {"udb_conn_video"} /\ (A \cup D) \cap InPats = {}
        /\ "null" \notin P \cup (Q \cup {"faac"}) /\ class \notin {"test_input", "display_input"}
    BY <2>1, <2>2, <2>3 DEF UdbPats, InPats, VideoParsers, AudioParsers, Encodes
  <2> QED
    BY <1>3, <2>2, <2>4, <2>7, <2>8, <2>9, UdbExact
<1> QED
  BY <1>1, <1>2, <1>3

\* Behind a connection that offers no fixed format, and in front of elements
\* that take anything.
LEMMA LeadsSoft ==
  ASSUME NEW c, NEW s, c # None => SoftAt(c)
  PROVE  Leads(c, s)
BY PayIs DEF Leads, SoftAt

\* In front of an element that takes anything, or of none.
LEMMA LeadsAny ==
  ASSUME NEW c, NEW s, c \in Names(elements) \cup {None}, Len(s) > 0 => s[1].plugin \notin DOMAIN Takes
  PROVE  Leads(c, s)
BY SoftLink, ElsOf DEF Leads

SoftConns == \A c \in {conn.video, conn.audio} : c # None => SoftAt(c)

\* A line of which nothing, or everything, is built.
LEMMA LeadsIf ==
  ASSUME NEW c, NEW s, NEW b, Leads(c, s)
  PROVE  Leads(c, If(b, s))
<1>1. CASE b
  BY <1>1, IfIs
<1>2. CASE ~ b
  <2>1. If(b, s) = <<>> /\ ~ (Len(<<>>) > 0)
    BY <1>2, IfIs
  <2> QED
    BY <2>1 DEF Leads
<1> QED
  BY <1>1, <1>2

\* Post-processing and conversion: the building goes on.
LEMMA ExtendGood ==
  ASSUME GraphInv, stage # "aborted", NEW B, NamesIn(B, {}, 0),
         NEW video, NEW A, NEW P, PLine(video, A, 0, P), Linkable(video), Leads(conn.video, video),
         NEW audio, NEW D, NEW Q, PLine(audio, D, 0, Q), Linkable(audio), Leads(conn.audio, audio),
         A \cap D = {}, (A \cup D) \cap B = {}, "null" \notin P \cup Q,
         NEW next, Extend(video, audio, next)
  PROVE  /\ stage' = next
         /\ \A n \in Names(elements') : n[1] \in A \cup D \cup B
         /\ SoftConns /\ (P \cup Q) \cap DOMAIN Offers = {} => SoftConns'
<1>1. PICK v, a, c, d, lks, prb : /\ v = If(HasVideo, video) /\ a = If(HasAudio, audio)
                                  /\ c = conn.video /\ d = conn.audio
                                  /\ lks = Joined(c, v, None) \cup Joined(d, a, None) /\ prb = {}
  OBVIOUS
<1>2. /\ Add(v \o a, lks, prb, next)
      /\ conn' = [video |-> Tail1(c, v), audio |-> Tail1(d, a)]
  BY <1>1 DEF Extend
<1>3. PICK C, i : C = {} /\ i = 0
  OBVIOUS
<1>4. PLine(v, A, 0, P) /\ PLine(a, D, 0, Q) /\ Linkable(v) /\ Linkable(a)
  BY <1>1, PIf, LinkableIf
<1>5. IsSeq(elements) /\ Distinct(elements)
  BY DEF GraphInv, LinkInv
<1>6. NamesIn(B, C, i) /\ (A \cup D) \cap C = {}
  BY <1>3
<1>7. Leads(c, v) /\ Leads(d, a) /\ lks \subseteq Joined(c, v, None) \cup Joined(d, a, None)
  BY <1>1, LeadsIf
<1>8. /\ stage' = next
      /\ \A n \in Names(elements') : n \in Names(elements) \/ (n[1] \in A \cup D /\ n[2] = 0)
      /\ Els(elements') = Els(elements) \cup Els(v) \cup Els(a)
  BY <1>2, <1>4, <1>5, <1>6, <1>7, TwoGoodAt
<1>9. \A n \in Names(elements') : n[1] \in A \cup D \cup B
  BY <1>3, <1>6, <1>8 DEF NamesIn
<1>10. ASSUME SoftConns, (P \cup Q) \cap DOMAIN Offers = {} PROVE SoftConns'
  <2> SUFFICES ASSUME NEW x \in {conn'.video, conn'.audio}, x # None PROVE SoftAt(x)'
    BY DEF SoftConns
  <2>1. PICK E : E = Els(elements')
    OBVIOUS
  <2>2. IsSeq(v) /\ IsSeq(a) /\ \A e \in Els(v) \cup Els(a) : e.plugin \notin DOMAIN Offers
    BY <1>4, <1>10, PLineIs
  <2>3. Els(v) \subseteq E /\ Els(a) \subseteq E /\ Els(elements) \subseteq E
    BY <1>8, <2>1
  <2>4. x = Tail1(c, v) \/ x = Tail1(d, a)
    BY <1>2
  <2>5. /\ c # None => \E e \in E : e.name = c /\ e.plugin \notin DOMAIN Offers
        /\ d # None => \E e \in E : e.name = d /\ e.plugin \notin DOMAIN Offers
    BY <1>1, <1>10, <2>3 DEF SoftConns, SoftAt
  <2>6. \E e \in E : e.name = x /\ e.plugin \notin DOMAIN Offers
    BY <2>2, <2>3, <2>4, <2>5, SoftTail
  <2> QED
    BY <2>1, <2>6 DEF SoftAt
<1> QED
  BY <1>8, <1>9, <1>10

\* The connections, as the invariants know them.
LEMMA ConnsAre ==
  ASSUME GraphInv, ExactInv, stage \in {"postproc", "converter"}
  PROVE  /\ conn.video \in Names(elements) \cup {None} /\ conn.audio \in Names(elements) \cup {None}
         /\ stage # "aborted" /\ out = 0
         /\ Encodes => SoftConns
BY DEF GraphInv, ConnInv, ConnOk, ExactInv, FineInv, SoftInv, SoftConns

\* The lines of post-processing pass anything.
LEMMA PassLine ==
  ASSUME NEW s, NEW A, NEW id, PLine(s, A, id, Pass)
  PROVE  Linkable(s) /\ (Len(s) > 0 => s[1].plugin \notin DOMAIN Takes)
BY PassIs, SoftLine DEF PLine

\* A line of no elements.
LEMMA EmptyLine ==
  ASSUME NEW s, s = <<>>
  PROVE  /\ PLine(s, {}, 0, {}) /\ Linkable(s) /\ Len(s) = 0
         /\ \A c : c \in Names(elements) \cup {None} => Leads(c, s)
BY PEmpty, LineEmpty, LeadsAny

\* An extension by nothing.
LEMMA ExtendNothing ==
  ASSUME GraphInv, ExactInv, stage \in {"postproc", "converter"}, NEW B, NamesIn(B, {}, 0),
         NEW next, Extend(<<>>, <<>>, next)
  PROVE  stage' = next /\ \A n \in Names(elements') : n[1] \in B
<1>1. PICK s, A : s = <<>> /\ A = {}
  OBVIOUS
<1>2. PLine(s, A, 0, A) /\ Linkable(s) /\ Leads(conn.video, s) /\ Leads(conn.audio, s)
  BY <1>1, EmptyLine, ConnsAre
<1>3. A \cap A = {} /\ (A \cup A) \cap B = {} /\ "null" \notin A \cup A /\ Extend(s, s, next)
  BY <1>1
<1>4. /\ stage' = next
      /\ \A n \in Names(elements') : n[1] \in A \cup A \cup B
  BY <1>2, <1>3, ConnsAre, ExtendGood
<1> QED
  BY <1>1, <1>4

\* The patterns of the stages do not meet.
LEMMA PatsApart ==
  /\ VideoPostPats \cap AudioPostPats = {} /\ (VideoPostPats \cup AudioPostPats) \cap UdbPats = {}
  /\ ConvVideoPats \cap ConvAudioPats = {} /\ (Encodes => (ConvVideoPats \cup ConvAudioPats) \cap PostPats = {})
  /\ PostPats \cup ConvVideoPats \cup ConvAudioPats \subseteq FrontPats
  /\ {"video_tee", "audio_tee"} \cap PostPats = {} /\ FrontPats \cap OutPats = {}
<1> USE DEF UdbPats, InPats, VideoPostPats, AudioPostPats, ConvVideoPats, ConvAudioPats, EncoderPats
<1>1. VideoPostPats \cap AudioPostPats = {}
  OBVIOUS
<1>2. (VideoPostPats \cup AudioPostPats) \cap UdbPats = {}
  OBVIOUS
<1>3. ConvVideoPats \cap ConvAudioPats = {}
  OBVIOUS
<1>4. Encodes => (ConvVideoPats \cup ConvAudioPats) \cap PostPats = {}
  BY DEF PostPats
<1>5. PostPats \cup ConvVideoPats \cup ConvAudioPats \subseteq FrontPats
  BY DEF PostPats, FrontPats
<1>6. {"video_tee", "audio_tee"} \cap PostPats = {}
  BY DEF PostPats
<1>7. FrontPats \cap OutPats = {}
  BY DEF FrontPats, OutPats
<1> QED
  BY <1>1, <1>2, <1>3, <1>4, <1>5, <1>6, <1>7

\* What follows the post-processing, and what follows the conversion.
LEMMA PostReached ==
  ASSUME GraphInv, ExactInv, stage = "postproc", stage' = "converter", UNCHANGED <<cfg, class, out>>,
         \A n \in Names(elements') : n[1] \in PostPats, Encodes => SoftConns'
  PROVE  ExactInv'
<1>1. (Encodes' <=> Encodes) /\ PostPats' = PostPats
  BY SameConfig
<1>2. NameInv'
  BY <1>1 DEF NameInv, NamesIn
<1>3. SoftInv'
  BY <1>1 DEF SoftInv, SoftConns
<1> QED
  BY <1>2, <1>3, FrontReached

\* The outputs follow the conversion.
LEMMA OutputReached ==
  ASSUME GraphInv, ExactInv, stage = "converter", stage' = "output", UNCHANGED <<cfg, class, out>>,
         Encodes => ~ UnknownEncoder, \A n \in Names(elements') : n[1] \in FrontPats
  PROVE  ExactInv'
<1>1. NameInv'
  BY DEF NameInv, NamesIn
<1>2. SoftInv'
  BY DEF SoftInv
<1> QED
  BY <1>1, <1>2, FrontReached

\* BuildPostProc never ends the process.
LEMMA PostProcExact ==
  ASSUME GraphInv, ExactInv, BuildPostProc
  PROVE  ExactInv'
<1>1. /\ stage = "postproc" /\ UNCHANGED <<cfg, class, out>> /\ NamesIn(UdbPats, {}, 0)
  BY DEF BuildPostProc, Extend, ExactInv, NameInv
<1>2. UdbPats \cup VideoPostPats \cup AudioPostPats = PostPats
  BY DEF PostPats
<1>3. CASE ~ Encodes
  <2>1. Extend(<<>>, <<>>, "converter")
    BY <1>3 DEF BuildPostProc
  <2>2. stage' = "converter" /\ \A n \in Names(elements') : n[1] \in UdbPats
    BY <1>1, <2>1, ExtendNothing
  <2> QED
    BY <1>1, <1>2, <1>3, <2>2, PostReached
<1>4. CASE Encodes
  <2>1. PICK v, a : v = BuildVideoPostProc(0) /\ a = BuildAudioPostProc(0)
    OBVIOUS
  <2>2. PLine(v, VideoPostPats, 0, Pass) /\ PLine(a, AudioPostPats, 0, Pass) /\ Linkable(v) /\ Linkable(a)
    BY <2>1, VideoPostLine, AudioPostLine, PassLine
  <2>3. SoftConns /\ stage # "aborted"
    BY <1>1, <1>4, ConnsAre
  <2>4. Leads(conn.video, v) /\ Leads(conn.audio, a)
    BY <2>3, LeadsSoft DEF SoftConns
  <2>5. Extend(v, a, "converter")
    BY <1>4, <2>1 DEF BuildPostProc
  <2>6. "null" \notin Pass \cup Pass /\ (Pass \cup Pass) \cap DOMAIN Offers = {}
    BY PassIs DEF Pass
  <2>7. /\ VideoPostPats \cap AudioPostPats = {} /\ (VideoPostPats \cup AudioPostPats) \cap UdbPats = {}
    BY PatsApart
  <2>8. /\ stage' = "converter"
        /\ \A n \in Names(elements') : n[1] \in VideoPostPats \cup AudioPostPats \cup UdbPats
        /\ SoftConns /\ (Pass \cup Pass) \cap DOMAIN Offers = {} => SoftConns'
    BY <1>1, <2>2, <2>3, <2>4, <2>5, <2>6, <2>7, ExtendGood
  <2> QED
    BY <1>1, <1>2, <2>3, <2>6, <2>8, PostReached
<1> QED
  BY <1>3, <1>4

\* An encoder that is not known is null in its line.
LEMMA UnknownEncoderLines ==
  ASSUME NEW i
  PROVE  LET e == build_video_encoder(cfg.venc, {"profile", "stream-format"} \cap cfg.opts, i)
             l == AudioEncoderLine(i)
         IN  /\ cfg.venc \notin VideoEncoders => IsSeq(e) /\ NullElement \in Els(e)
             /\ cfg.aenc \notin AudioEncoders => IsSeq(l) /\ NullElement \in Els(l)
<1>1. PICK n, z : n = <<NullElement>> /\ z = <<>>
  OBVIOUS
<1>2. IsSeq(n) /\ Els(n) = {NullElement} /\ IsSeq(z)
  BY <1>1, SingleIs, NoLine
<1>3. IsSeq(n \o z) /\ Els(n \o z) = Els(n) \cup Els(z)
  BY <1>2, Concat
<1>4. ASSUME cfg.venc \notin VideoEncoders
      PROVE  build_video_encoder(cfg.venc, {"profile", "stream-format"} \cap cfg.opts, i) = n \o z
  BY <1>1, <1>4 DEF build_video_encoder, make_video_encoder, setup_encoder_str_params, VideoEncoders
<1>5. ASSUME cfg.aenc \notin AudioEncoders PROVE AudioEncoderLine(i) = n
  BY <1>1, <1>5 DEF AudioEncoderLine, make_audio_encoder, AudioEncoders
<1> QED
  BY <1>2, <1>3, <1>4, <1>5

\* What is in a part of a line is in the line.
LEMMA PartOf ==
  ASSUME NEW f, NEW p, NEW t, Plain(f), Plain(p), Plain(t)
  PROVE  IsSeq(f \o p \o t) /\ Els(f \o p \o t) = Els(f) \cup Els(p) \cup Els(t)
<1>1. PICK w : w = f \o p
  OBVIOUS
<1>2. IsSeq(f) /\ IsSeq(p) /\ IsSeq(t)
  BY DEF Plain
<1>3. IsSeq(w) /\ Els(w) = Els(f) \cup Els(p)
  BY <1>1, <1>2, Concat
<1>4. IsSeq(w \o t) /\ Els(w \o t) = Els(w) \cup Els(t)
  BY <1>2, <1>3, Concat
<1> QED
  BY <1>1, <1>3, <1>4

\* It ends the process.
LEMMA UnknownEncoderEnds ==
  ASSUME GraphInv, ExactInv, BuildConverter, UnknownEncoder
  PROVE  stage' = "aborted" /\ Unbuildable
<1>1. stage = "converter" /\ Encodes /\ Extend(ConvVideo, ConvAudio, "output")
  BY DEF BuildConverter, ConvVideo, ConvAudio
<1>2. class = StreamClass /\ cfg \in ConfigType
  BY <1>1 DEF ExactInv, OutcomeInv, GraphInv
<1>3. PICK v, a, lks, prb, next :
        /\ v = If(HasVideo, ConvVideo) /\ a = If(HasAudio, ConvAudio)
        /\ lks = Joined(conn.video, v, None) \cup Joined(conn.audio, a, None) /\ prb = {} /\ next = "output"
  OBVIOUS
<1>4. Add(v \o a, lks, prb, next)
  BY <1>1, <1>3 DEF Extend
<1>5. IsSeq(v) /\ IsSeq(a)
  BY <1>3, ConvEnds, IfIs, NoLine DEF Plain
<1>6. IsSeq(v \o a) /\ Els(v \o a) = Els(v) \cup Els(a)
  BY <1>5, Concat
<1>7. PICK g, h, p, q, x, y :
        /\ g = BuildVideoConverter(0) /\ h = BuildAudioConverter(0)
        /\ p = If(IsH264Encoder(cfg.venc), <<make_h264_parser(0)>>)
        /\ q = If(IsAACEncoder(cfg.aenc), <<make_aac_parser(0)>>)
        /\ x = <<VideoTee>> /\ y = <<AudioTee>>
  OBVIOUS
<1>8. Plain(g) /\ Plain(h) /\ Plain(p) /\ Plain(q) /\ Plain(x) /\ Plain(y)
  <2>1. /\ make_h264_parser(0).name[1] = "video_parser" /\ make_h264_parser(0).plugin = "h264parse"
        /\ make_aac_parser(0).name[1] = "audio_parser" /\ make_aac_parser(0).plugin = "aacparse"
        /\ VideoTee.name[1] = "video_tee" /\ VideoTee.plugin = "tee"
        /\ AudioTee.name[1] = "audio_tee" /\ AudioTee.plugin = "tee"
    BY ElementIs DEF make_h264_parser, make_aac_parser, VideoTee, AudioTee
  <2>2. Plain(<<make_h264_parser(0)>>) /\ Plain(<<make_aac_parser(0)>>) /\ Plain(x) /\ Plain(y)
    BY <1>7, <2>1, PlainOne DEF SinkNames
  <2> QED
    BY <1>7, <2>2, ConvertersPlain, PlainIf
<1>9. Els(g) \subseteq Els(ConvVideo) /\ Els(h) \subseteq Els(ConvAudio)
  <2>1. ConvVideo = g \o p \o x /\ ConvAudio = h \o q \o y
    BY <1>7 DEF ConvVideo, ConvAudio
  <2>2. Els(g \o p \o x) = Els(g) \cup Els(p) \cup Els(x)
    BY <1>8, PartOf
  <2>3. Els(h \o q \o y) = Els(h) \cup Els(q) \cup Els(y)
    BY <1>8, PartOf
  <2> QED
    BY <2>1, <2>2, <2>3
<1>10. NullElement \in Els(v) \cup Els(a)
  <2>1. CASE HasVideo /\ class # "only_audio" /\ cfg.venc \notin VideoEncoders
    <3>1. NullElement \in Els(g)
      BY <1>7, <2>1, UnknownEncoderLines, IfIs DEF BuildVideoConverter
    <3> QED
      BY <1>3, <1>9, <2>1, <3>1, IfIs
  <2>2. CASE HasAudio /\ class # "only_video" /\ cfg.aenc \notin AudioEncoders
    <3>1. NullElement \in Els(h)
      BY <1>7, <2>2, UnknownEncoderLines, IfIs DEF BuildAudioConverter
    <3> QED
      BY <1>3, <1>9, <2>2, <3>1, IfIs
  <2> QED
    BY <1>2, <2>1, <2>2 DEF UnknownEncoder
<1>11. PICK line : line = v \o a
  OBVIOUS
<1>12. stage' = "aborted"
  <2>1. IsSeq(elements) /\ IsSeq(line) /\ Add(line, lks, prb, next) /\ NullElement \in Els(line)
    BY <1>4, <1>6, <1>10, <1>11 DEF GraphInv
  <2> QED
    BY <2>1, AddBad
<1>13. NamesUnknown
  BY <1>1 DEF NamesUnknown
<1> QED
  BY <1>2, <1>12, <1>13, UnbuildableIs

\* The converters end the process on an encoder that is not known only.
LEMMA ConverterExact ==
  ASSUME GraphInv, ExactInv, BuildConverter
  PROVE  ExactInv'
<1>1. /\ stage = "converter" /\ Encodes
      /\ NamesIn(PostPats, {}, 0) /\ Extend(ConvVideo, ConvAudio, "output")
  BY DEF BuildConverter, ExactInv, NameInv, ConvVideo, ConvAudio
<1>2. UNCHANGED <<cfg, class, out>> /\ class = StreamClass /\ OutcomeInv /\ class # "mosaic"
  BY <1>1 DEF Extend, ExactInv, OutcomeInv, GraphInv, StageInv
<1>3. CASE UnknownEncoder
  <2>1. stage' = "aborted" /\ Unbuildable
    BY <1>3, UnknownEncoderEnds
  <2>2. stage \notin {"factory"} \cup Ended
    BY <1>1 DEF Ended
  <2> QED
    BY <1>2, <2>1, <2>2, AbortsKeep
<1>4. CASE ~ UnknownEncoder
  <2>1. PICK v, a, P, Q : /\ v = IF HasVideo THEN ConvVideo ELSE <<>>
                          /\ a = IF HasAudio THEN ConvAudio ELSE <<>>
                          /\ P = VideoEncoders \cup {"capsfilter", "h264parse", "tee"}
                          /\ Q = AudioEncoders \cup {"audioresample", "mpegaudioparse", "aacparse", "tee"}
    OBVIOUS
  <2>2. Extend(v, a, "output")
    <3>1. If(HasVideo, v) = If(HasVideo, ConvVideo) /\ If(HasAudio, a) = If(HasAudio, ConvAudio)
      BY <2>1 DEF If
    <3> QED
      BY <1>1, <3>1 DEF Extend
  <2>3. /\ HasVideo => cfg.venc \in VideoEncoders \/ class = "only_audio"
        /\ HasAudio => cfg.aenc \in AudioEncoders \/ class = "only_video"
    BY <1>2, <1>4 DEF UnknownEncoder
  <2>4. PLine(v, ConvVideoPats, 0, P) /\ Linkable(v)
    BY <2>1, <2>3, ConvVideoLine, PEmpty, LineEmpty
  <2>5. PLine(a, ConvAudioPats, 0, Q) /\ Linkable(a)
    BY <2>1, <2>3, ConvAudioLine, PEmpty, LineEmpty
  <2>6. SoftConns /\ stage # "aborted"
    BY <1>1, ConnsAre
  <2>7. Leads(conn.video, v) /\ Leads(conn.audio, a)
    BY <2>6, LeadsSoft DEF SoftConns
  <2>8. "null" \notin P \cup Q
    BY <2>1 DEF VideoEncoders, AudioEncoders
  <2>9. ConvVideoPats \cap ConvAudioPats = {} /\ (ConvVideoPats \cup ConvAudioPats) \cap PostPats = {}
    BY <1>1, PatsApart
  <2>10. /\ stage' = "output"
         /\ \A n \in Names(elements') : n[1] \in ConvVideoPats \cup ConvAudioPats \cup PostPats
    BY <1>1, <2>2, <2>4, <2>5, <2>6, <2>7, <2>8, <2>9, ExtendGood
  <2> QED
    BY <1>1, <1>2, <1>4, <2>10, PatsApart, OutputReached
<1> QED
  BY <1>3, <1>4

\* Nor the tees of a relay.
LEMMA RelayConverterExact ==
  ASSUME GraphInv, ExactInv, BuildRelayConverter
  PROVE  ExactInv'
<1>1. /\ stage = "converter" /\ ~ Encodes /\ UNCHANGED <<cfg, class, out>> /\ NamesIn(PostPats, {}, 0)
  BY DEF BuildRelayConverter, Extend, ExactInv, NameInv
<1>2. PostPats \subseteq FrontPats
  BY PatsApart
<1>3. CASE Recorder
  <2>1. Extend(<<>>, <<>>, "output")
    BY <1>3 DEF BuildRelayConverter
  <2>2. stage' = "output" /\ \A n \in Names(elements') : n[1] \in PostPats
    BY <1>1, <2>1, ExtendNothing
  <2> QED
    BY <1>1, <1>2, <2>2, OutputReached
<1>4. CASE ~ Recorder
  <2>1. PICK v, a, A, D, P : /\ v = <<VideoTee>> /\ a = <<AudioTee>>
                             /\ A = {"video_tee"} /\ D = {"audio_tee"} /\ P = {"tee"}
    OBVIOUS
  <2>2. Extend(v, a, "output")
    BY <1>4, <2>1 DEF BuildRelayConverter
  <2>3. PLine(v, A, 0, P) /\ PLine(a, D, 0, P)
    BY <2>1, POne DEF VideoTee, AudioTee
  <2>4. VideoTee.plugin = "tee" /\ AudioTee.plugin = "tee"
    BY ElementIs DEF VideoTee, AudioTee
  <2>5. Linkable(v) /\ Linkable(a) /\ v[1].plugin = "tee" /\ a[1].plugin = "tee"
    BY <2>1, <2>4, SingleIs
  <2>6. "tee" \notin DOMAIN Takes
    BY DEF Takes
  <2>7. /\ conn.video \in Names(elements) \cup {None} /\ conn.audio \in Names(elements) \cup {None}
        /\ stage # "aborted"
    BY <1>1, ConnsAre
  <2>8. Leads(conn.video, v) /\ Leads(conn.audio, a)
    BY <2>5, <2>6, <2>7, LeadsAny
  <2>9. A \cap D = {} /\ (A \cup D) \cap PostPats = {} /\ "null" \notin P \cup P
    BY <2>1, PatsApart
  <2>10. /\ stage' = "output" /\ \A n \in Names(elements') : n[1] \in A \cup D \cup PostPats
    BY <1>1, <2>2, <2>3, <2>5, <2>7, <2>8, <2>9, ExtendGood
  <2>11. A \cup D \subseteq FrontPats
    BY <2>1 DEF FrontPats, ConvVideoPats, ConvAudioPats
  <2> QED
    BY <1>1, <1>2, <2>10, <2>11, OutputReached
<1> QED
  BY <1>3, <1>4

Muxed == {"udp", "tcp", "rtmp", "http", "srt"}

\* The muxer and the sink of a scheme that has them.
LEMMA MuxedIs ==
  ASSUME NEW scheme \in Muxed, NEW i, NEW mux, mux = make_muxer(scheme, i), NEW sink, sink = build_output(scheme, i)
  PROVE  /\ PLine(<<mux>>, {"muxer"}, i, {mux.plugin}) /\ PLine(<<sink>>, {"sink"}, i, {sink.plugin})
         /\ mux.plugin \in {"flvmux", "rtpmux", "mpegtsmux"} /\ sink.plugin # "null"
         /\ mux.plugin = "rtpmux" <=> scheme = "udp"
         /\ CanLink(mux.plugin, sink.plugin)
<1>1. PICK p \in {"flvmux", "rtpmux", "mpegtsmux"} : mux = Element(p, "muxer", i) /\ (p = "rtpmux" <=> scheme = "udp")
  BY DEF Muxed, make_muxer
<1>2. PICK q \in {"udpsink", "tcpserversink", "rtmpsink", "hlssink", "srtsink"} : sink = Element(q, "sink", i)
  BY DEF Muxed, build_output, make_udp_sink, make_tcp_server_sink, make_rtmp_sink, make_http_sink, make_srt_sink
<1>3. mux.plugin = p /\ sink.plugin = q
  BY <1>1, <1>2, ElementIs
<1>4. q \notin DOMAIN Takes
  BY <1>2 DEF Takes
<1> QED
  BY <1>1, <1>2, <1>3, <1>4, POne, SoftLink

\* The urls by what their output lacks.
LEMMA UrlIs ==
  ASSUME NEW url, NEW i
  PROVE  /\ url \in Muxed => SchemeOf(url) = url /\ ~ BadSink(url) /\ ~ IsDevice(url)
         /\ BadSink(url) => build_output(url, i) = NullElement
         /\ url \in Outputs /\ ~ IsDevice(url) /\ ~ BadSink(url) => url \in Muxed
         /\ IsDevice(url) => ~ BadSink(url) /\ SchemeOf(url) # "udp"
<1>1. url \in Muxed => SchemeOf(url) = url
  BY DEF Muxed, SchemeOf
<1>2. ASSUME url \in Muxed PROVE ~ BadSink(url) /\ ~ IsDevice(url)
  <2>1. ~ IsDevice(url)
    BY <1>2 DEF Muxed, IsDevice
  <2>2. PICK q \in {"udpsink", "tcpserversink", "rtmpsink", "hlssink", "srtsink"} : build_output(url, 0) = Element(q, "sink", 0)
    BY <1>2 DEF Muxed, build_output, make_udp_sink, make_tcp_server_sink, make_rtmp_sink, make_http_sink, make_srt_sink
  <2>3. build_output(url, 0).plugin = q /\ q # "null"
    BY <2>2, ElementIs
  <2> QED
    BY <2>1, <2>3, NullIs DEF BadSink
<1>3. url \notin Muxed => build_output(url, 0) = NullElement /\ build_output(url, i) = NullElement
  BY DEF Muxed, build_output
<1>4. IsDevice(url) => SchemeOf(url) # "udp"
  BY DEF IsDevice, SchemeOf
<1> QED
  BY <1>1, <1>2, <1>3, <1>4 DEF BadSink

\* The branch of a medium fits what is before it and the muxer behind it.
BranchFits(c, s, mux) ==
    /\ Linkable(s) /\ Len(s) > 0 /\ CanLink(Final(s).plugin, mux.plugin)
    /\ Leads(c, s)

\* The links of a branch.
LEMMA FitsLegal ==
  ASSUME NEW els, Distinct(els), Els(elements) \subseteq Els(els), NEW s, IsSeq(s), Els(s) \subseteq Els(els),
         NEW c, NEW mux, mux \in Els(els), BranchFits(c, s, mux)
  PROVE  \A l \in Joined(c, s, mux.name) : ~ Refused(els, l)
<1>1. c # None => \E e \in Els(els) : /\ e.name = c
                                      /\ Len(s) > 0 => CanLink(e.plugin, s[1].plugin)
  BY DEF BranchFits, Leads
<1>2. PICK to : to = mux.name
  OBVIOUS
<1>3. to # None => Len(s) > 0 /\ \E e \in Els(els) : e.name = to /\ CanLink(Final(s).plugin, e.plugin)
  BY <1>2 DEF BranchFits
<1>4. Linkable(s)
  BY DEF BranchFits
<1> QED
  BY <1>1, <1>2, <1>3, <1>4, JoinedLegal

OutputIs(line, mux, v, a, sink) ==
    /\ IsSeq(line) /\ Els(line) = {mux, sink} \cup Els(v) \cup Els(a)
    /\ Distinct(line) => Names(v) \cap Names(a) = {}

\* The part of OutputLine that the exact outcome needs.
LEMMA OutputHolds ==
  ASSUME NEW mux, NEW v, NEW a, NEW sink, IsSeq(v), IsSeq(a), NEW line, IsOutput(line, mux, v, a, sink)
  PROVE  OutputIs(line, mux, v, a, sink)
<1>1. /\ IsSeq(line) /\ Els(line) = {mux, sink} \cup Els(v) \cup Els(a)
      /\ Names(line) = {mux.name, sink.name} \cup Names(v) \cup Names(a)
      /\ Distinct(line) =>
                 /\ Distinct(v) /\ Distinct(a) /\ Names(v) \cap Names(a) = {} /\ mux.name # sink.name
                 /\ mux.name \notin Names(v) \cup Names(a) /\ sink.name \notin Names(v) \cup Names(a)
  BY OutputLine
<1> QED
  BY <1>1 DEF OutputIs

\* An output that is added: the building goes on.
LEMMA OutputGood ==
  ASSUME GraphInv, stage # "aborted", NEW B, NEW C, NEW i \in Nat, NamesIn(B, C, i), NEW scheme \in Muxed,
         NEW video, NEW v, v = If(HasVideo, video), NEW A, NEW P, PLine(v, A, i, P),
         NEW audio, NEW a, a = If(HasAudio, audio), NEW D, NEW Q, PLine(a, D, i, Q),
         A \cap D = {}, {"muxer", "sink"} \cap (A \cup D) = {}, "null" \notin P \cup Q,
         A \cup D \cup {"muxer", "sink"} \subseteq C, B \cap (A \cup D \cup {"muxer", "sink"}) = {},
         HasVideo => BranchFits(conn.video, v, make_muxer(scheme, i)),
         HasAudio => BranchFits(conn.audio, a, make_muxer(scheme, i)),
         AddOutput(i, scheme, video, audio)
  PROVE  /\ stage' = stage
         /\ \A n \in Names(elements') : n[1] \in B \/ (n[1] \in C /\ n[2] \in 0..i)
<1>1. PICK mux, sink, line, lks, prb, c, d :
        /\ mux = make_muxer(scheme, i) /\ sink = build_output(scheme, i)
        /\ line = <<mux>> \o v \o a \o <<sink>> /\ c = conn.video /\ d = conn.audio
        /\ lks = (IF HasVideo THEN Joined(c, v, mux.name) ELSE {})
                 \cup (IF HasAudio THEN Joined(d, a, mux.name) ELSE {})
                 \cup {<<mux.name, sink.name>>}
        /\ prb = {Probe(sink, i, "output")}
  OBVIOUS
<1>2. PICK next : next = stage
  OBVIOUS
<1>3. Add(line, lks, prb, next)
  BY <1>1, <1>2, UrlIs DEF AddOutput
<1>4. IsSeq(elements) /\ Distinct(elements)
  BY DEF GraphInv, LinkInv
<1>5. /\ PLine(<<mux>>, {"muxer"}, i, {mux.plugin}) /\ PLine(<<sink>>, {"sink"}, i, {sink.plugin})
      /\ mux.plugin # "null" /\ sink.plugin # "null" /\ CanLink(mux.plugin, sink.plugin)
  BY <1>1, MuxedIs
<1>6. PICK N, R : N = {"muxer"} \cup A \cup D \cup {"sink"} /\ R = {mux.plugin} \cup P \cup Q \cup {sink.plugin}
  OBVIOUS
<1>7. PLine(line, N, i, R)
  <2>1. PLine(<<mux>> \o v, {"muxer"} \cup A, i, {mux.plugin} \cup P)
    BY <1>5, PConcat
  <2>2. PLine(<<mux>> \o v \o a, {"muxer"} \cup A \cup D, i, {mux.plugin} \cup P \cup Q)
    BY <2>1, PConcat
  <2>3. PLine(<<mux>> \o v \o a \o <<sink>>, {"muxer"} \cup A \cup D \cup {"sink"}, i, {mux.plugin} \cup P \cup Q \cup {sink.plugin})
    BY <1>5, <2>2, PConcat
  <2> QED
    BY <1>1, <1>6, <2>3
<1>8. At(N, i) \cap Names(elements) = {} /\ "null" \notin R
  <2>1. N \cap B = {} /\ i \notin 0..(i - 1) /\ "null" \notin R
    BY <1>5, <1>6
  <2> QED
    BY <2>1, FreshNames
<1>9. Line(line, At(N, i), R) /\ IsSeq(line) /\ \A n \in Names(line) : n[1] \in N /\ n[2] = i
  BY <1>7, PLineIs
<1>10. PICK els : els = elements \o line
  OBVIOUS
<1>11. Distinct(els)
  BY <1>4, <1>8, <1>9, <1>10, AddDistinct
<1>12. IsSeq(v) /\ IsSeq(a)
  BY PLineIs
<1>13. IsOutput(line, mux, v, a, sink)
  BY <1>1 DEF IsOutput
<1>14. Els(line) = {mux, sink} \cup Els(v) \cup Els(a)
  <2>1. OutputIs(line, mux, v, a, sink)
    BY <1>12, <1>13, OutputHolds
  <2> QED
    BY <2>1 DEF OutputIs
<1>15. Els(els) = Els(elements) \cup Els(line)
  BY <1>4, <1>9, <1>10, Concat
<1>16. ASSUME NEW l \in lks PROVE ~ Refused(els, l)
  <2>1. mux \in Els(els) /\ sink \in Els(els)
    BY <1>14, <1>15
  <2>2. CASE l = <<mux.name, sink.name>>
    BY <1>5, <1>11, <2>1, <2>2, RefusedIff
  <2>3. CASE HasVideo /\ l \in Joined(c, v, mux.name)
    <3>1. BranchFits(c, v, mux) /\ Els(v) \subseteq Els(els) /\ Els(elements) \subseteq Els(els)
      BY <1>1, <1>14, <1>15, <2>3
    <3> QED
      BY <1>11, <1>12, <2>1, <2>3, <3>1, FitsLegal
  <2>4. CASE HasAudio /\ l \in Joined(d, a, mux.name)
    <3>1. BranchFits(d, a, mux) /\ Els(a) \subseteq Els(els) /\ Els(elements) \subseteq Els(els)
      BY <1>1, <1>14, <1>15, <2>4
    <3> QED
      BY <1>11, <1>12, <2>1, <2>4, <3>1, FitsLegal
  <2> QED
    BY <1>1, <2>2, <2>3, <2>4
<1>17. stage' = next
  <2>1. \A l \in lks : ~ Refused(elements \o line, l)
    BY <1>10, <1>16
  <2> QED
    BY <1>3, <1>4, <1>8, <1>9, <2>1, AddGood
<1>18. Names(elements') = Names(elements) \cup Names(line)
  BY <1>3, <1>4, <1>9, AddIs
<1>19. ASSUME NEW n \in Names(elements') PROVE n[1] \in B \/ (n[1] \in C /\ n[2] \in 0..i)
  BY <1>6, <1>9, <1>18 DEF NamesIn
<1> QED
  BY <1>2, <1>17, <1>19

\* An output that cannot be added.
LEMMA OutputBad ==
  ASSUME GraphInv, stage # "aborted", NEW i, NEW url,
         NEW video, NEW v, v = If(HasVideo, video), IsSeq(v),
         NEW audio, NEW a, a = If(HasAudio, audio), IsSeq(a),
         AddOutput(i, url, video, audio),
         \/ NullElement \in {build_output(url, i)} \cup Els(v) \cup Els(a)
         \/ Names(v) \cap Names(a) # {}
         \/ HasVideo /\ \E k \in 1..(Len(v) - 1) : ~ CanLink(v[k].plugin, v[k + 1].plugin)
         \/ HasAudio /\ \E k \in 1..(Len(a) - 1) : ~ CanLink(a[k].plugin, a[k + 1].plugin)
  PROVE  stage' = "aborted"
<1>1. PICK mux, sink, line, lks, prb, c, d, next :
        /\ mux = make_muxer(SchemeOf(url), i) /\ sink = build_output(url, i)
        /\ line = <<mux>> \o v \o a \o <<sink>> /\ c = conn.video /\ d = conn.audio
        /\ lks = (IF HasVideo THEN Joined(c, v, mux.name) ELSE {})
                 \cup (IF HasAudio THEN Joined(d, a, mux.name) ELSE {})
                 \cup {<<mux.name, sink.name>>}
        /\ prb = {Probe(sink, i, "output")} /\ next = stage
  OBVIOUS
<1>2. Add(line, lks, prb, next)
  BY <1>1 DEF AddOutput
<1>3. IsSeq(elements) /\ IsOutput(line, mux, v, a, sink)
  BY <1>1 DEF GraphInv, IsOutput
<1>4. /\ IsSeq(line) /\ Els(line) = {mux, sink} \cup Els(v) \cup Els(a)
      /\ Distinct(line) => Names(v) \cap Names(a) = {}
  <2>1. OutputIs(line, mux, v, a, sink)
    BY <1>3, OutputHolds
  <2> QED
    BY <2>1 DEF OutputIs
<1>5. PICK els : els = elements \o line
  OBVIOUS
<1>6. Els(els) = Els(elements) \cup Els(line) /\ (Distinct(els) => Distinct(line))
  BY <1>3, <1>4, <1>5, Concat, DistinctParts
<1>7. CASE NullElement \in {build_output(url, i)} \cup Els(v) \cup Els(a)
  BY <1>1, <1>2, <1>3, <1>4, <1>7, AddBad
<1>8. CASE Names(v) \cap Names(a) # {}
  BY <1>2, <1>3, <1>4, <1>5, <1>6, <1>8, AddBad
<1>9. CASE HasVideo /\ \E k \in 1..(Len(v) - 1) : ~ CanLink(v[k].plugin, v[k + 1].plugin)
  <2>1. Distinct(els) => \E l \in lks : Refused(els, l)
    <3> SUFFICES ASSUME Distinct(els) PROVE \E l \in lks : Refused(els, l)
      OBVIOUS
    <3>1. PICK k \in 1..(Len(v) - 1) : ~ CanLink(v[k].plugin, v[k + 1].plugin)
      BY <1>9
    <3>2. PICK to : to = mux.name
      OBVIOUS
    <3>3. \E l \in Joined(c, v, to) : Refused(els, l)
      BY <1>4, <1>6, <3>1, JoinedRefused
    <3> QED
      BY <1>1, <1>9, <3>2, <3>3
  <2> QED
    BY <1>2, <1>3, <1>4, <1>5, <2>1, AddBad
<1>10. CASE HasAudio /\ \E k \in 1..(Len(a) - 1) : ~ CanLink(a[k].plugin, a[k + 1].plugin)
  <2>1. Distinct(els) => \E l \in lks : Refused(els, l)
    <3> SUFFICES ASSUME Distinct(els) PROVE \E l \in lks : Refused(els, l)
      OBVIOUS
    <3>1. PICK k \in 1..(Len(a) - 1) : ~ CanLink(a[k].plugin, a[k + 1].plugin)
      BY <1>10
    <3>2. PICK to : to = mux.name
      OBVIOUS
    <3>3. \E l \in Joined(d, a, to) : Refused(els, l)
      BY <1>4, <1>6, <3>1, JoinedRefused
    <3> QED
      BY <1>1, <1>10, <3>2, <3>3
  <2> QED
    BY <1>2, <1>3, <1>4, <1>5, <2>1, AddBad
<1> QED
  BY <1>7, <1>8, <1>9, <1>10

\* The state in which an output of a stream that is no mosaic is added.
LEMMA AtOutput ==
  ASSUME GraphInv, ExactInv, stage = "output"
  PROVE  /\ class = StreamClass /\ class \notin {"null", "mosaic"} /\ cfg \in ConfigType /\ out \in Nat
         /\ OutcomeInv /\ ~ BadSource /\ ~ NamesUnknown /\ Len(cfg.output) \in Nat /\ out <= Len(cfg.output)
         /\ \A k \in 1..out : ~ BadOutput(k)
         /\ NamesIn(FrontPats, OutPats, out) /\ stage \notin {"factory", "aborted"} \cup Ended
         /\ \A k \in 1..Len(cfg.output) : cfg.output[k] \in Outputs
<1>1. class = StreamClass /\ class # "null" /\ OutcomeInv
  BY DEF ExactInv, OutcomeInv
<1>2. class # "mosaic" /\ cfg \in ConfigType /\ out \in Nat
  BY DEF GraphInv, StageInv
<1>3. cfg.output \in Seq(Outputs)
  BY <1>2 DEF ConfigType
<1>4. ~ BadSource /\ out <= Len(cfg.output) /\ \A k \in 1..out : ~ BadOutput(k)
  BY DEF ExactInv, FineInv
<1>5. ~ NamesUnknown
  BY DEF ExactInv, FineInv, NamesUnknown
<1> QED
  BY <1>1, <1>2, <1>3, <1>4, <1>5 DEF ExactInv, NameInv, Ended

\* One more output.
LEMMA OutputGoesOn ==
  ASSUME GraphInv, ExactInv, stage = "output", stage' = "output", UNCHANGED <<cfg, class>>,
         out < Len(cfg.output), out' = out + 1, class # "test_life", ~ Recorder, ~ BadOutput(out + 1),
         \A n \in Names(elements') : n[1] \in FrontPats \/ (n[1] \in OutPats /\ n[2] \in 0..out)
  PROVE  ExactInv'
<1>1. /\ (BadSource' <=> BadSource) /\ (Recorder' <=> Recorder) /\ \A k : BadOutput(k)' <=> BadOutput(k)
      /\ (Encodes' <=> Encodes) /\ (UnknownEncoder' <=> UnknownEncoder) /\ (UnknownParser' <=> UnknownParser)
  BY SameConfig
<1>2. OutcomeInv'
  BY AtOutput, GoesOn DEF Ended
<1>3. \A k \in 1..(out + 1) : ~ BadOutput(k)'
  BY <1>1, AtOutput
<1>4. FineInv'
  BY <1>1, <1>3, AtOutput DEF FineInv, ExactInv
<1>5. out' - 1 = out
  BY AtOutput
<1>6. NameInv'
  BY <1>5 DEF NameInv, NamesIn
<1>7. SoftInv'
  BY DEF SoftInv
<1> QED
  BY <1>2, <1>4, <1>6, <1>7 DEF ExactInv

\* The tees pass anything.
LEMMA TeesLead ==
  ASSUME NEW c, c \in ManyOut(elements), NEW s
  PROVE  Leads(c, s)
<1>1. PICK e \in Els(elements) : e.name = c /\ e.plugin \in ManySrc
  BY DEF ManyOut
<1>2. e.plugin \notin DOMAIN Offers
  BY <1>1 DEF ManySrc, Offers
<1> QED
  BY <1>1, <1>2, LeadsSoft DEF SoftAt

\* Both connections of a stream that ends in tees.
LEMMA ConnsLead ==
  ASSUME GraphInv, stage \in {"output", "mosaic_output"}, ~ Recorder, NEW v, NEW a
  PROVE  (HasVideo => Leads(conn.video, v)) /\ (HasAudio => Leads(conn.audio, a))
<1>1. (HasVideo => conn.video \in ManyOut(elements)) /\ (HasAudio => conn.audio \in ManyOut(elements))
  BY DEF GraphInv, ConnInv, ConnOk, HasVideo, HasAudio
<1> QED
  BY <1>1, TeesLead

\* What fits a muxer.
LEMMA MuxerTakes ==
  ASSUME NEW scheme \in Muxed, NEW i, NEW p, scheme = "udp" => p \in Pays
  PROVE  CanLink(p, make_muxer(scheme, i).plugin)
<1>1. PICK mux : mux = make_muxer(scheme, i)
  OBVIOUS
<1>2. mux.plugin \in {"flvmux", "rtpmux", "mpegtsmux"} /\ (mux.plugin = "rtpmux" <=> scheme = "udp")
  BY <1>1, MuxedIs
<1>3. CASE scheme = "udp"
  BY <1>1, <1>2, <1>3, PayIs
<1>4. CASE scheme # "udp"
  <2>1. mux.plugin \notin DOMAIN Takes
    BY <1>2, <1>4 DEF Takes
  <2> QED
    BY <1>1, <2>1, SoftLink
<1> QED
  BY <1>3, <1>4

\* The branches of an output, and the names in them.
LEMMA GoodOutput ==
  ASSUME GraphInv, ExactInv, stage = "output", class # "test_life", ~ Recorder, NEW i, i = out,
         i < Len(cfg.output), NEW scheme \in Muxed, scheme = cfg.output[i + 1], ~ BadOutput(i + 1),
         AddOutput(i, scheme, VideoBranch(i, scheme), AudioBranch(i, scheme))
  PROVE  /\ stage' = stage
         /\ \A n \in Names(elements') : n[1] \in FrontPats \/ (n[1] \in OutPats /\ n[2] \in 0..i)
<1>1. PICK video, audio, v, a, mux :
        /\ video = VideoBranch(i, scheme) /\ v = If(HasVideo, video)
        /\ audio = AudioBranch(i, scheme) /\ a = If(HasAudio, audio) /\ mux = make_muxer(scheme, i)
  OBVIOUS
<1>2. PICK A, D, P : /\ A = IF HasVideo THEN {"video_tee_queue", "video_pay"} ELSE {}
                     /\ D = IF ~ HasAudio THEN {} ELSE IF scheme = "udp" THEN {"audio_tee_queue", PayPattern} ELSE {"audio_tee_queue"}
                     /\ P = {"queue"} \cup Pays
  OBVIOUS
<1>3. /\ PLine(video, {"video_tee_queue", "video_pay"}, i, P)
      /\ Len(video) > 0 /\ Linkable(video) /\ (scheme = "udp" => Final(video).plugin \in Pays)
  BY <1>1, <1>2, VideoBranchLine
<1>4. /\ PLine(audio, {"audio_tee_queue", PayPattern}, i, P)
      /\ scheme # "udp" => PLine(audio, {"audio_tee_queue"}, i, P)
      /\ Len(audio) > 0 /\ Linkable(audio) /\ (scheme = "udp" => Final(audio).plugin \in Pays)
  BY <1>1, <1>2, AudioBranchLine
<1>5. PLine(v, A, i, P)
  BY <1>1, <1>2, <1>3, IfIs, PEmpty
<1>6. PLine(a, D, i, P)
  <2>1. CASE ~ HasAudio
    BY <1>1, <1>2, <2>1, IfIs, PEmpty
  <2>2. CASE HasAudio
    BY <1>1, <1>2, <1>4, <2>2, IfIs
  <2> QED
    BY <2>1, <2>2
<1>7. PayPattern \in {"video_pay", "audio_pay"}
  BY DEF PayPattern
<1>8. scheme = "udp" /\ HasVideo /\ HasAudio => PayPattern # "video_pay"
  BY UrlIs DEF BadOutput, Both
<1>9. /\ A \cap D = {} /\ {"muxer", "sink"} \cap (A \cup D) = {}
      /\ A \cup D \cup {"muxer", "sink"} \subseteq OutPats
  BY <1>2, <1>7, <1>8 DEF OutPats
<1>10. FrontPats \cap (A \cup D \cup {"muxer", "sink"}) = {} /\ "null" \notin P \cup P
  BY <1>2, <1>9, PatsApart DEF Pays
<1>11. /\ HasVideo => BranchFits(conn.video, v, make_muxer(scheme, i))
       /\ HasAudio => BranchFits(conn.audio, a, make_muxer(scheme, i))
  <2>1. (HasVideo => Leads(conn.video, v)) /\ (HasAudio => Leads(conn.audio, a))
    BY ConnsLead
  <2>2. (HasVideo => v = video) /\ (HasAudio => a = audio)
    BY <1>1, IfIs
  <2>3. HasVideo => CanLink(Final(v).plugin, make_muxer(scheme, i).plugin)
    BY <1>3, <2>2, MuxerTakes
  <2>4. HasAudio => CanLink(Final(a).plugin, make_muxer(scheme, i).plugin)
    BY <1>4, <2>2, MuxerTakes
  <2> QED
    BY <1>3, <1>4, <2>1, <2>2, <2>3, <2>4 DEF BranchFits
<1>12. i \in Nat /\ NamesIn(FrontPats, OutPats, i) /\ stage # "aborted" /\ AddOutput(i, scheme, video, audio)
  BY <1>1, AtOutput
<1> QED
  BY <1>1, <1>5, <1>6, <1>9, <1>10, <1>11, <1>12, OutputGood

\* An output that ends the process.
LEMMA BadOutputEnds ==
  ASSUME GraphInv, ExactInv, stage = "output", class # "test_life", ~ Recorder, NEW i, i = out,
         i < Len(cfg.output), NEW url, url = cfg.output[i + 1], NEW scheme, scheme = SchemeOf(url), BadOutput(i + 1),
         AddOutput(i, url, VideoBranch(i, scheme), AudioBranch(i, scheme))
  PROVE  stage' = "aborted" /\ Unbuildable
<1>1. PICK video, audio, v, a :
        /\ video = VideoBranch(i, scheme) /\ v = If(HasVideo, video)
        /\ audio = AudioBranch(i, scheme) /\ a = If(HasAudio, audio)
  OBVIOUS
<1>2. PICK P : P = {"queue"} \cup Pays
  OBVIOUS
<1>3. /\ PLine(video, {"video_tee_queue", "video_pay"}, i, P)
      /\ scheme = "udp" => <<"video_pay", i>> \in Names(video)
  BY <1>1, <1>2, VideoBranchLine
<1>4. /\ PLine(audio, {"audio_tee_queue", PayPattern}, i, P)
      /\ scheme = "udp" => <<PayPattern, i>> \in Names(audio)
  BY <1>1, <1>2, AudioBranchLine
<1>5. IsSeq(v) /\ IsSeq(a)
  <2>1. PLine(v, {"video_tee_queue", "video_pay"}, i, P) /\ PLine(a, {"audio_tee_queue", PayPattern}, i, P)
    BY <1>1, <1>3, <1>4, PIf
  <2> QED
    BY <2>1, PLineIs
<1>6. build_output(url, i) = NullElement \/ Names(v) \cap Names(a) # {}
  <2>1. CASE BadSink(url)
    BY <2>1, UrlIs
  <2>2. CASE scheme = "udp" /\ Both /\ PayPattern = "video_pay"
    BY <1>1, <1>3, <1>4, <2>2, IfIs DEF Both
  <2> QED
    BY <2>1, <2>2 DEF BadOutput
<1>7. stage' = "aborted"
  <2>1. stage # "aborted" /\ AddOutput(i, url, video, audio)
    BY <1>1
  <2> QED
    BY <1>1, <1>5, <1>6, <2>1, OutputBad
<1>8. i + 1 \in 1..Len(cfg.output)
  BY AtOutput
<1>9. Unbuildable
  BY <1>8, AtOutput, UnbuildableIs
<1> QED
  BY <1>7, <1>9

\* BuildOutput ends the process on exactly the outputs that are bad.
LEMMA BuildOutputExact ==
  ASSUME GraphInv, ExactInv, BuildOutput
  PROVE  ExactInv'
<1>1. PICK i, url, scheme : i = out /\ url = cfg.output[i + 1] /\ scheme = SchemeOf(url)
  OBVIOUS
<1>2. /\ stage = "output" /\ class # "test_life" /\ ~ Recorder /\ i < Len(cfg.output)
      /\ out' = out + 1 /\ UNCHANGED <<cfg, class>>
  BY <1>1 DEF BuildOutput
<1>3. url \in Outputs /\ i \in Nat
  BY <1>1, <1>2, AtOutput
<1>4. CASE IsDevice(url)
  <2>1. UNCHANGED <<stage, elements>>
    BY <1>1, <1>4 DEF BuildOutput
  <2>2. ~ BadOutput(out + 1)
    BY <1>1, <1>4, UrlIs DEF BadOutput
  <2>3. \A n \in Names(elements') : n[1] \in FrontPats \/ (n[1] \in OutPats /\ n[2] \in 0..out)
    BY <1>2, <2>1, AtOutput DEF NamesIn
  <2> QED
    BY <1>1, <1>2, <2>1, <2>2, <2>3, OutputGoesOn
<1>5. CASE ~ IsDevice(url)
  <2>1. AddOutput(i, url, VideoBranch(i, scheme), AudioBranch(i, scheme))
    BY <1>1, <1>5 DEF BuildOutput
  <2>2. CASE BadOutput(i + 1)
    <3>1. stage' = "aborted" /\ Unbuildable
      BY <1>1, <1>2, <2>1, <2>2, BadOutputEnds
    <3> QED
      BY <1>2, <3>1, AtOutput, AbortsKeep
  <2>3. CASE ~ BadOutput(i + 1)
    <3>1. url \in Muxed /\ scheme = url
      BY <1>1, <1>3, <1>5, <2>3, UrlIs DEF BadOutput
    <3>2. /\ stage' = stage
          /\ \A n \in Names(elements') : n[1] \in FrontPats \/ (n[1] \in OutPats /\ n[2] \in 0..i)
      BY <1>1, <1>2, <2>1, <2>3, <3>1, GoodOutput
    <3> QED
      BY <1>1, <1>2, <2>3, <3>2, OutputGoesOn
  <2> QED
    BY <2>2, <2>3
<1> QED
  BY <1>4, <1>5

\* The pipeline is complete, as it should be.
LEMMA BuiltKeep ==
  ASSUME OutcomeInv, stage \notin {"factory"} \cup Ended, UNCHANGED <<cfg, class>>, stage' = "built",
         class = "mosaic" => HasGrid, ~ Unbuildable
  PROVE  ExactInv'
<1>1. StreamClass' = StreamClass /\ (Unbuildable' <=> Unbuildable) /\ (HasGrid' <=> HasGrid)
  BY SameConfig
<1>2. class' = StreamClass' /\ class' # "null"
  BY <1>1 DEF OutcomeInv, Ended
<1>3. OutcomeInv'
  BY <1>1, <1>2 DEF OutcomeInv
<1>4. FineInv' /\ NameInv' /\ SoftInv'
  BY DEF FineInv, NameInv, SoftInv
<1> QED
  BY <1>3, <1>4 DEF ExactInv

\* Every output was added.
LEMMA DoneExact ==
  ASSUME GraphInv, ExactInv, BuildDone
  PROVE  ExactInv'
<1>1. /\ stage = "output" /\ class # "test_life" /\ ~ Recorder /\ out = Len(cfg.output)
      /\ stage' = "built" /\ UNCHANGED <<cfg, class>>
  BY DEF BuildDone
<1>2. ~ Unbuildable
  BY <1>1, AtOutput, UnbuildableIs
<1> QED
  BY <1>1, <1>2, AtOutput, BuiltKeep

\* The outputs of a life test and of a recorder are the first.
LEMMA FirstOutput ==
  ASSUME GraphInv, ExactInv, stage = "output", class = "test_life" \/ Recorder
  PROVE  /\ out = 0 /\ \A n \in Names(elements) : n[1] \in FrontPats
         /\ IsSeq(elements) /\ Distinct(elements)
         /\ conn.video \in Names(elements) \cup {None} /\ conn.audio \in Names(elements) \cup {None}
         /\ (HasVideo => conn.video # None) /\ (HasAudio => conn.audio # None)
<1>1. out = 0
  BY DEF ExactInv, FineInv
<1>2. NamesIn(FrontPats, OutPats, out)
  BY AtOutput
<1>3. \A n \in Names(elements) : n[1] \in FrontPats
  BY <1>1, <1>2 DEF NamesIn
<1> QED
  BY <1>1, <1>3 DEF GraphInv, LinkInv, ConnInv, ConnOk, HasVideo, HasAudio

\* BuildTestOutput never ends the process.
LEMMA TestOutputExact ==
  ASSUME GraphInv, ExactInv, BuildTestOutput
  PROVE  ExactInv'
<1>1. PICK s, t, v, a, c, d, lks, prb :
        /\ s = <<make_test_sink(0)>> /\ t = <<make_test_sink(1)>>
        /\ v = If(HasVideo, s) /\ a = If(HasAudio, t) /\ c = conn.video /\ d = conn.audio
        /\ lks = (IF HasVideo THEN Joined(c, v, None) ELSE {}) \cup (IF HasAudio THEN Joined(d, a, None) ELSE {})
        /\ prb = {Probe((v \o a)[k], 0, "output") : k \in DOMAIN (v \o a)}
  OBVIOUS
<1>2. /\ stage = "output" /\ class = "test_life" /\ UNCHANGED <<cfg, class>>
      /\ Add(v \o a, lks, prb, "built")
  BY <1>1 DEF BuildTestOutput
<1>3. PICK N, M, P : N = At({"sink"}, 0) /\ M = At({"sink"}, 1) /\ P = {"testsink"}
  OBVIOUS
<1>4. Line(s, N, P) /\ Line(t, M, P)
  BY <1>1, <1>3, POne DEF PLine, make_test_sink
<1>5. Line(v, N, P) /\ Line(a, M, P)
  BY <1>1, <1>4, LineIf
<1>6. Soft(P) /\ "null" \notin P \cup P
  BY <1>3 DEF Soft, Takes
<1>7. Linkable(v) /\ Linkable(a)
  BY <1>5, <1>6, SoftLine
<1>8. N \cap M = {} /\ (N \cup M) \cap Names(elements) = {}
  <2>1. \A n \in N \cup M : n[1] = "sink"
    BY <1>3, AtIs
  <2>2. (\A n \in N : n[2] = 0) /\ (\A n \in M : n[2] = 1)
    BY <1>3, AtIs
  <2>3. "sink" \notin FrontPats
    BY PatsApart DEF OutPats
  <2> QED
    BY <1>2, <2>1, <2>2, <2>3, FirstOutput
<1>9. Leads(c, v) /\ Leads(d, a)
  <2>1. /\ Len(v) > 0 => v[1].plugin \notin DOMAIN Takes
        /\ Len(a) > 0 => a[1].plugin \notin DOMAIN Takes
    BY <1>5, <1>6, SoftLine
  <2>2. c \in Names(elements) \cup {None} /\ d \in Names(elements) \cup {None}
    BY <1>1, <1>2, FirstOutput
  <2> QED
    BY <2>1, <2>2, LeadsAny
<1>10. lks \subseteq Joined(c, v, None) \cup Joined(d, a, None)
  BY <1>1
<1>11. IsSeq(elements) /\ Distinct(elements)
  BY <1>2, FirstOutput
<1>12. PICK next : next = "built"
  OBVIOUS
<1>13. Add(v \o a, lks, prb, next)
  BY <1>2, <1>12
<1>14. /\ stage' = next
       /\ Names(elements') \subseteq Names(elements) \cup N \cup M
       /\ Els(elements') = Els(elements) \cup Els(v) \cup Els(a)
  BY <1>5, <1>6, <1>7, <1>8, <1>9, <1>10, <1>11, <1>13, TwoGood
<1>15. ~ Unbuildable
  <2>1. ~ Recorder
    BY <1>2 DEF Recorder
  <2> QED
    BY <1>2, <2>1, AtOutput, UnbuildableIs
<1> QED
  BY <1>2, <1>12, <1>14, <1>15, AtOutput, BuiltKeep

\* BuildRecorderOutput ends it when a medium is missing.
LEMMA RecorderOutputExact ==
  ASSUME GraphInv, ExactInv, BuildRecorderOutput
  PROVE  ExactInv'
<1>1. stage = "output" /\ Recorder /\ UNCHANGED <<cfg, class>>
  BY DEF BuildRecorderOutput
<1>2. CASE ~ Both
  <2>1. stage' = "aborted"
    BY <1>2 DEF BuildRecorderOutput, Both
  <2>2. Unbuildable
    BY <1>1, <1>2, AtOutput, UnbuildableIs
  <2> QED
    BY <1>1, <2>1, <2>2, AtOutput, AbortsKeep
<1>3. CASE Both
  <2>1. PICK sink, line, lks, prb, next :
          /\ sink = Element("splitmuxsink", "splitmuxsink", 0) /\ line = <<sink>>
          /\ lks = {<<conn.audio, sink.name>>, <<conn.video, sink.name>>} /\ prb = {} /\ next = "built"
    OBVIOUS
  <2>2. Add(line, lks, prb, next)
    BY <1>3, <2>1 DEF BuildRecorderOutput, Both
  <2>3. /\ PLine(line, {"splitmuxsink"}, 0, {"splitmuxsink"}) /\ IsSeq(line) /\ Els(line) = {sink}
        /\ sink.plugin = "splitmuxsink"
    <3>1. PLine(line, {"splitmuxsink"}, 0, {"splitmuxsink"}) /\ sink.plugin = "splitmuxsink"
      BY <2>1, POne, ElementIs
    <3>2. IsSeq(line) /\ Els(line) = {sink}
      BY <2>1, SingleIs
    <3> QED
      BY <3>1, <3>2
  <2>4. PICK N, P : N = At({"splitmuxsink"}, 0) /\ P = {"splitmuxsink"}
    OBVIOUS
  <2>5. Line(line, N, P) /\ "null" \notin P
    BY <2>3, <2>4 DEF PLine
  <2>6. N \cap Names(elements) = {}
    <3>1. "splitmuxsink" \notin FrontPats
      BY DEF FrontPats, InPats, VideoPostPats, AudioPostPats, ConvVideoPats, ConvAudioPats, EncoderPats
    <3> QED
      BY <1>1, <2>4, <3>1, AtIs, FirstOutput
  <2>7. IsSeq(elements) /\ Distinct(elements)
    BY <1>1, FirstOutput
  <2>8. PICK els : els = elements \o line
    OBVIOUS
  <2>9. Distinct(els) /\ Els(els) = Els(elements) \cup {sink}
    BY <2>3, <2>5, <2>6, <2>7, <2>8, AddDistinct, Concat
  <2>10. ASSUME NEW l \in lks PROVE ~ Refused(els, l)
    <3>1. PICK c : l = <<c, sink.name>> /\ c \in Names(elements)
      BY <1>1, <1>3, <2>1, FirstOutput DEF Both
    <3>2. PICK e \in Els(elements) : e.name = c
      BY <3>1, ElsOf
    <3>3. CanLink(e.plugin, sink.plugin)
      <4>1. sink.plugin \notin DOMAIN Takes
        BY <2>3 DEF Takes
      <4> QED
        BY <4>1, SoftLink
    <3> QED
      BY <2>9, <3>1, <3>2, <3>3, RefusedIff
  <2>11. \A l \in lks : ~ Refused(elements \o line, l)
    BY <2>8, <2>10
  <2>12. stage' = next
    BY <2>2, <2>5, <2>6, <2>7, <2>11, AddGood
  <2>13. ~ Unbuildable
    <3>1. class # "test_life"
      BY <1>1 DEF Recorder
    <3> QED
      BY <1>1, <1>3, AtOutput, UnbuildableIs
  <2> QED
    BY <1>1, <2>1, <2>12, <2>13, AtOutput, BuiltKeep
<1> QED
  BY <1>2, <1>3

\* The state in which a mosaic is built.
LEMMA AtMosaic ==
  ASSUME GraphInv, ExactInv, stage \in {"mosaic", "mosaic_input", "mosaic_output"}
  PROVE  /\ class = StreamClass /\ class = "mosaic" /\ cfg \in ConfigType /\ out \in Nat /\ ~ Recorder
         /\ OutcomeInv /\ stage \notin {"factory", "aborted"} \cup Ended
         /\ Len(cfg.output) \in Nat /\ Len(cfg.input) \in Nat
         /\ \A k \in 1..Len(cfg.output) : cfg.output[k] \in Outputs
         /\ IsSeq(elements) /\ Distinct(elements)
<1>1. class = StreamClass /\ OutcomeInv
  BY DEF ExactInv, OutcomeInv
<1>2. class = "mosaic" /\ cfg \in ConfigType /\ out \in Nat /\ IsSeq(elements) /\ Distinct(elements)
  BY DEF GraphInv, StageInv, LinkInv
<1>3. cfg.output \in Seq(Outputs) /\ cfg.input \in Seq(Inputs)
  BY <1>2 DEF ConfigType
<1> QED
  BY <1>1, <1>2, <1>3 DEF Ended, Recorder

\* InitMosaic fails when the inputs fill no grid.
LEMMA InitMosaicExact ==
  ASSUME GraphInv, ExactInv, InitMosaic
  PROVE  ExactInv'
<1>1. stage = "mosaic" /\ UNCHANGED <<cfg, class, out>> /\ out = 0
  BY DEF InitMosaic, ExactInv, FineInv
<1>2. (HasGrid' <=> HasGrid) /\ StreamClass' = StreamClass
  BY <1>1, SameConfig
<1>3. class' = "mosaic" /\ class' = StreamClass'
  BY <1>1, <1>2, AtMosaic
<1>4. CASE ~ HasGrid
  <2>1. stage' = "failed"
    BY <1>4 DEF InitMosaic, HasGrid
  <2>2. OutcomeInv'
    BY <1>2, <1>3, <1>4, <2>1 DEF OutcomeInv
  <2>3. FineInv' /\ NameInv' /\ SoftInv'
    BY <2>1 DEF FineInv, NameInv, SoftInv
  <2> QED
    BY <2>2, <2>3 DEF ExactInv
<1>5. CASE HasGrid
  <2>1. PICK line, lks, prb, next : line = <<VideoMixer, AudioMixer>> /\ lks = {} /\ prb = {} /\ next = "mosaic_input"
    OBVIOUS
  <2>2. Add(line, lks, prb, next)
    BY <1>5, <2>1 DEF InitMosaic, HasGrid
  <2>3. PICK P : P = {"videomixer", "audiomixer"}
    OBVIOUS
  <2>4. PLine(line, MixPats, 0, P)
    BY <2>1, <2>3, PTwo DEF VideoMixer, AudioMixer, MixPats
  <2>5. Names(elements) = {} /\ "null" \notin P
    <3>1. elements = <<>>
      BY <1>1 DEF GraphInv, StageInv
    <3> QED
      BY <2>3, <3>1, NoLine
  <2>6. Line(line, At(MixPats, 0), P) /\ IsSeq(line) /\ \A n \in Names(line) : n[1] \in MixPats
    BY <2>4, PLineIs
  <2>7. stage' = next
    BY <1>1, <2>1, <2>2, <2>5, <2>6, AtMosaic, AddGood
  <2>8. Names(elements') = Names(line)
    BY <1>1, <2>2, <2>5, <2>6, AtMosaic, AddIs
  <2>9. NameInv'
    BY <2>1, <2>6, <2>7, <2>8 DEF NameInv, NamesIn
  <2>10. OutcomeInv'
    BY <1>1, <2>1, <2>7, AtMosaic, GoesOn DEF Ended
  <2>11. Len(cfg.input) \in Nat
    BY <1>1, AtMosaic
  <2>12. FineInv'
    BY <1>1, <1>2, <1>5, <2>1, <2>7, <2>11 DEF FineInv
  <2>13. SoftInv'
    BY <2>1, <2>7 DEF SoftInv
  <2> QED
    BY <2>9, <2>10, <2>12, <2>13 DEF ExactInv
<1> QED
  BY <1>4, <1>5

\* The lines of a cell.
CellVideoPats == {"udb_conn_video", "mux_videoscale", "mux_videoscale_capsfilter", "videobox"}
CellAudioPats == {"udb_conn_audio", "level"}

\* Four elements are two and two.
LEMMA FourIs ==
  ASSUME NEW w, NEW x, NEW y, NEW z
  PROVE  <<w, x, y, z>> = <<w, x>> \o <<y, z>>
OBVIOUS

\* The names and the plug-ins of the two lines of a cell.
LEMMA CellIs ==
  ASSUME NEW i
  PROVE  /\ PLine(CellVideo(i), CellVideoPats, i, Pass) /\ Len(CellVideo(i)) > 0
         /\ PLine(CellAudio(i), CellAudioPats, i, Pass) /\ Len(CellAudio(i)) > 0
<1>1. PICK w, x, y, z : /\ w = Element("queue", "udb_conn_video", i) /\ x = Element("videoscale", "mux_videoscale", i)
                        /\ y = Element("capsfilter", "mux_videoscale_capsfilter", i) /\ z = Element("videobox", "videobox", i)
  OBVIOUS
<1>2. PICK A, D : A = {"udb_conn_video", "mux_videoscale"} /\ D = {"mux_videoscale_capsfilter", "videobox"}
  OBVIOUS
<1>3. PLine(<<w, x>>, A, i, Pass) /\ PLine(<<y, z>>, D, i, Pass)
  <2>1. {"queue", "videoscale", "capsfilter", "videobox"} \subseteq Pass
    BY DEF Pass
  <2> QED
    BY <1>1, <1>2, <2>1, PassTwo
<1>4. A \cap D = {} /\ A \cup D \subseteq CellVideoPats
  BY <1>2 DEF CellVideoPats
<1>5. PLine(<<w, x>> \o <<y, z>>, CellVideoPats, i, Pass)
  BY <1>3, <1>4, PJoin
<1>6. CellVideo(i) = <<w, x>> \o <<y, z>>
  BY <1>1, FourIs DEF CellVideo
<1>7. PLine(CellAudio(i), CellAudioPats, i, Pass)
  <2>1. {"queue", "level"} \subseteq Pass
    BY DEF Pass
  <2> QED
    BY <2>1, PassTwo DEF CellAudio, CellAudioPats
<1>8. Len(CellVideo(i)) > 0 /\ Len(CellAudio(i)) > 0
  BY DEF CellVideo, CellAudio
<1> QED
  BY <1>5, <1>6, <1>7, <1>8

\* A line in front of a mixer.
LEMMA MixerFits ==
  ASSUME NEW s, NEW A, NEW i, PLine(s, A, i, Pass), Len(s) > 0, NEW mux, mux.plugin \in {"videomixer", "audiomixer"}
  PROVE  BranchFits(None, s, mux)
<1>1. Linkable(s)
  BY PassLine
<1>2. mux.plugin \notin DOMAIN Takes
  BY DEF Takes
<1> QED
  BY <1>1, <1>2, SoftLink DEF BranchFits, Leads

\* A cell was added.
LEMMA CellGoesOn ==
  ASSUME GraphInv, ExactInv, stage = "mosaic_input", stage' = "mosaic_input", UNCHANGED <<cfg, class>>,
         out < Len(cfg.input), out' = out + 1, ~ BadCell(out + 1),
         \A n \in Names(elements') : n[1] \in MixPats \/ (n[1] \in CellPats /\ n[2] \in 0..out)
  PROVE  ExactInv'
<1>1. (HasGrid' <=> HasGrid) /\ \A k : BadCell(k)' <=> BadCell(k)
  BY SameConfig
<1>2. OutcomeInv'
  BY AtMosaic, GoesOn DEF Ended
<1>3. HasGrid /\ \A k \in 1..out : ~ BadCell(k)
  BY DEF ExactInv, FineInv
<1>4. out \in Nat /\ Len(cfg.input) \in Nat
  BY AtMosaic
<1>5. \A k \in 1..(out + 1) : ~ BadCell(k)'
  BY <1>1, <1>3, <1>4
<1>6. FineInv'
  BY <1>1, <1>3, <1>4, <1>5 DEF FineInv
<1>7. out' - 1 = out
  BY <1>4
<1>8. NameInv'
  BY <1>7 DEF NameInv, NamesIn
<1>9. SoftInv'
  BY DEF SoftInv
<1> QED
  BY <1>2, <1>6, <1>8, <1>9 DEF ExactInv

\* MosaicInput ends the process on exactly the sources that are null.
LEMMA MosaicInputExact ==
  ASSUME GraphInv, ExactInv, MosaicInput
  PROVE  ExactInv'
<1>0. PICK i : i = out
  OBVIOUS
<1>1. PICK src, s, v, a :
        /\ src = make_src(cfg.input[i + 1], i) /\ s = <<src, Decodebin(i)>>
        /\ v = If(HasVideo, CellVideo(i)) /\ a = If(HasAudio, CellAudio(i))
  OBVIOUS
<1>2. PICK x, y : x = VideoMixer.name /\ y = AudioMixer.name
  OBVIOUS
<1>3. PICK line, lks, prb, next :
        /\ line = s \o v \o a /\ next = "mosaic_input" /\ prb = {Probe(src, i, "input")}
        /\ lks = Joined(None, s, None) \cup (IF HasVideo THEN Joined(None, v, x) ELSE {})
                 \cup (IF HasAudio THEN Joined(None, a, y) ELSE {})
  OBVIOUS
<1>4. /\ stage = "mosaic_input" /\ Add(line, lks, prb, next) /\ out' = out + 1 /\ out < Len(cfg.input)
      /\ UNCHANGED <<cfg, class>>
  BY <1>0, <1>1, <1>2, <1>3 DEF MosaicInput, CellVideo, CellAudio
<1>5. /\ PLine(CellVideo(i), CellVideoPats, i, Pass) /\ Len(CellVideo(i)) > 0
      /\ PLine(CellAudio(i), CellAudioPats, i, Pass) /\ Len(CellAudio(i)) > 0
  BY CellIs
<1>6. PLine(v, CellVideoPats, i, Pass) /\ PLine(a, CellAudioPats, i, Pass) /\ IsSeq(v) /\ IsSeq(a)
  <2>1. PLine(v, CellVideoPats, i, Pass) /\ PLine(a, CellAudioPats, i, Pass)
    BY <1>1, <1>5, PIf
  <2> QED
    BY <2>1, PLineIs
<1>7. IsSeq(s) /\ Els(s) = {src, Decodebin(i)}
  BY <1>1, InputLine
<1>8. IsSeq(line) /\ Els(line) = Els(s) \cup Els(v) \cup Els(a)
  <2>1. IsSeq(s \o v) /\ Els(s \o v) = Els(s) \cup Els(v)
    BY <1>6, <1>7, Concat
  <2> QED
    BY <1>3, <1>6, <2>1, Concat
<1>9. CASE BadCell(i + 1)
  <2>1. src = NullElement
    BY <1>1, <1>9, SrcFine DEF BadCell
  <2>2. NullElement \in Els(line)
    BY <1>7, <1>8, <2>1
  <2>3. stage' = "aborted"
    BY <1>4, <1>8, <2>2, AtMosaic, AddBad
  <2>4. HasGrid
    BY <1>4 DEF ExactInv, FineInv
  <2>5. i + 1 \in 1..Len(cfg.input)
    BY <1>0, <1>4, AtMosaic
  <2>6. Unbuildable
    BY <1>4, <1>9, <2>4, <2>5, AtMosaic, UnbuildableIs
  <2> QED
    BY <1>4, <2>3, <2>4, <2>6, AtMosaic, AbortsKeep
<1>10. CASE ~ BadCell(i + 1)
  <2>1. PICK P : P = SrcPlugins
    OBVIOUS
  <2>2. src.name = <<"src", i>> /\ src.plugin \in P
    BY <1>1, <1>10, <2>1, SrcFine DEF BadCell
  <2>3. P \cap DOMAIN Takes = {} /\ "null" \notin P
    BY <2>1 DEF SrcPlugins, Takes
  <2>4. PICK A, D, R : A = {"src", "decodebin"} /\ R = P \cup {"decodebin"} /\ D = A \cup CellVideoPats \cup CellAudioPats
    OBVIOUS
  <2>5. PLine(s, A, i, R) /\ Linkable(s) /\ "null" \notin R
    BY <1>1, <2>2, <2>3, <2>4, SourceLine
  <2>6. PICK T : T = R \cup Pass \cup Pass
    OBVIOUS
  <2>7. PLine(line, D, i, T)
    <3>1. A \cap CellVideoPats = {} /\ (A \cup CellVideoPats) \cap CellAudioPats = {}
      BY <2>4 DEF CellVideoPats, CellAudioPats
    <3>2. PLine(s \o v, A \cup CellVideoPats, i, R \cup Pass)
      BY <1>6, <2>5, <3>1, PConcat
    <3>3. PLine(s \o v \o a, A \cup CellVideoPats \cup CellAudioPats, i, R \cup Pass \cup Pass)
      BY <1>6, <3>1, <3>2, PConcat
    <3> QED
      BY <1>3, <2>4, <2>6, <3>3
  <2>8. D \subseteq CellPats /\ D \cap MixPats = {} /\ "null" \notin T
    BY <2>4, <2>5, <2>6 DEF CellPats, MixPats, CellVideoPats, CellAudioPats, Pass
  <2>9. i \in Nat /\ NamesIn(MixPats, CellPats, i)
    BY <1>0, <1>4, AtMosaic DEF ExactInv, NameInv
  <2>10. At(D, i) \cap Names(elements) = {}
    <3>1. i \notin 0..(i - 1)
      BY <2>9
    <3> QED
      BY <2>8, <2>9, <3>1, FreshNames
  <2>11. Line(line, At(D, i), T) /\ \A n \in Names(line) : n[1] \in D /\ n[2] = i
    BY <2>7, PLineIs
  <2>12. IsSeq(elements) /\ Distinct(elements)
    BY <1>4, AtMosaic
  <2>13. PICK els : els = elements \o line
    OBVIOUS
  <2>14. Distinct(els) /\ Els(els) = Els(elements) \cup Els(line)
    BY <1>8, <2>10, <2>11, <2>12, <2>13, AddDistinct, Concat
  <2>15. VideoMixer \in Els(els) /\ AudioMixer \in Els(els)
    BY <1>4, <2>14 DEF GraphInv, StageInv
  <2>16. ASSUME NEW l \in lks PROVE ~ Refused(els, l)
    <3>1. Els(elements) \subseteq Els(els) /\ Els(s) \subseteq Els(els) /\ Els(v) \subseteq Els(els) /\ Els(a) \subseteq Els(els)
      BY <1>8, <2>14
    <3>2. CASE l \in Joined(None, s, None)
      <4>1. Leads(None, s)
        BY DEF Leads
      <4> QED
        BY <1>7, <2>5, <2>14, <3>1, <3>2, <4>1, LegalTail
    <3>3. CASE HasVideo /\ l \in Joined(None, v, x)
      <4>1. Len(v) > 0
        BY <1>1, <1>5, <3>3, IfIs
      <4>2. BranchFits(None, v, VideoMixer)
        BY <1>6, <4>1, MixersAre, MixerFits
      <4> QED
        BY <1>2, <1>6, <2>14, <2>15, <3>1, <3>3, <4>2, FitsLegal
    <3>4. CASE HasAudio /\ l \in Joined(None, a, y)
      <4>1. Len(a) > 0
        BY <1>1, <1>5, <3>4, IfIs
      <4>2. BranchFits(None, a, AudioMixer)
        BY <1>6, <4>1, MixersAre, MixerFits
      <4> QED
        BY <1>2, <1>6, <2>14, <2>15, <3>1, <3>4, <4>2, FitsLegal
    <3> QED
      BY <1>3, <3>2, <3>3, <3>4
  <2>17. \A l \in lks : ~ Refused(elements \o line, l)
    BY <2>13, <2>16
  <2>18. stage' = next
    BY <1>4, <2>8, <2>10, <2>11, <2>12, <2>17, AddGood
  <2>19. Names(elements') = Names(elements) \cup Names(line)
    BY <1>4, <1>8, <2>12, AddIs
  <2>20. \A n \in Names(elements') : n[1] \in MixPats \/ (n[1] \in CellPats /\ n[2] \in 0..out)
    BY <1>0, <2>8, <2>9, <2>11, <2>19 DEF NamesIn
  <2> QED
    BY <1>0, <1>3, <1>4, <1>10, <2>18, <2>20, CellGoesOn
<1> QED
  BY <1>9, <1>10

\* What a mosaic does to its picture and its sound.
MixVideoPats == {"cairo"} \cup ConvertPats \cup {"video_tee"}
MixAudioPats == AudioPostPats \cup {"audio_tee"}

\* The names and the plug-ins of the lines behind the mixers.
LEMMA MixIs ==
  /\ PLine(MixVideo, MixVideoPats, 0, Pass \cup {"tee"})
  /\ PLine(MixAudio, MixAudioPats, 0, Pass \cup {"tee"})
<1>1. PICK s, t, c, u, w : /\ s = <<Element("cairooverlay", "cairo", 0)>> /\ t = build_video_convert(Opt("deinterlace"), 0)
                           /\ c = build_audio_converters(Opt("volume"), Opt("channels"), 0)
                           /\ u = <<VideoTee>> /\ w = <<AudioTee>>
  OBVIOUS
<1>2. PLine(u, {"video_tee"}, 0, {"tee"}) /\ PLine(w, {"audio_tee"}, 0, {"tee"})
  BY <1>1, POne DEF VideoTee, AudioTee
<1>3. PLine(s, {"cairo"}, 0, Pass)
  <2>1. "cairooverlay" \in Pass
    BY DEF Pass
  <2> QED
    BY <1>1, <2>1, PassOne
<1>4. PLine(t, ConvertPats, 0, Pass) /\ PLine(c, AudioPostPats, 0, Pass)
  BY <1>1, VideoConvertLine, AudioConvertersLine
<1>5. PLine(s \o t, {"cairo"} \cup ConvertPats, 0, Pass)
  <2>1. {"cairo"} \cap ConvertPats = {}
    BY DEF ConvertPats
  <2> QED
    BY <1>3, <1>4, <2>1, PJoin
<1>6. PLine(s \o t \o u, {"cairo"} \cup ConvertPats \cup {"video_tee"}, 0, Pass \cup {"tee"})
  <2>1. ({"cairo"} \cup ConvertPats) \cap {"video_tee"} = {}
    BY DEF ConvertPats
  <2> QED
    BY <1>2, <1>5, <2>1, PConcat
<1>7. PLine(c \o w, AudioPostPats \cup {"audio_tee"}, 0, Pass \cup {"tee"})
  <2>1. AudioPostPats \cap {"audio_tee"} = {}
    BY DEF AudioPostPats
  <2> QED
    BY <1>2, <1>4, <2>1, PConcat
<1> QED
  BY <1>1, <1>6, <1>7 DEF MixVideo, MixAudio, MixVideoPats, MixAudioPats

\* MosaicMix never ends the process.
LEMMA MosaicMixExact ==
  ASSUME GraphInv, ExactInv, MosaicMix
  PROVE  ExactInv'
<1>1. PICK v, a, c, d, lks, prb, next :
        /\ v = If(HasVideo, MixVideo) /\ a = If(HasAudio, MixAudio)
        /\ c = VideoMixer.name /\ d = AudioMixer.name /\ prb = {} /\ next = "mosaic_output"
        /\ lks = Joined(c, v, None) \cup Joined(d, a, None)
  OBVIOUS
<1>2. /\ stage = "mosaic_input" /\ out = Len(cfg.input) /\ Add(v \o a, lks, prb, next)
      /\ out' = 0 /\ UNCHANGED <<cfg, class>>
  BY <1>1 DEF MosaicMix, MixVideo, MixAudio
<1>3. PICK P, Q, A, D, B, C, i : /\ P = Pass \cup {"tee"} /\ Q = Pass \cup {"tee"} /\ A = MixVideoPats /\ D = MixAudioPats
                              /\ B = MixPats \cup CellPats /\ C = {} /\ i = 0
  OBVIOUS
<1>4. PLine(v, A, 0, P) /\ PLine(a, D, 0, Q)
  BY <1>1, <1>3, MixIs, PIf
<1>5. Soft(P) /\ Soft(Q) /\ "null" \notin P \cup Q
  BY <1>3, PassIs DEF Soft, Takes, Pass
<1>6. /\ Linkable(v) /\ Linkable(a)
      /\ Len(v) > 0 => v[1].plugin \notin DOMAIN Takes
      /\ Len(a) > 0 => a[1].plugin \notin DOMAIN Takes
  BY <1>4, <1>5, SoftLine DEF PLine
<1>7. c \in Names(elements) /\ d \in Names(elements)
  <2>1. VideoMixer \in Els(elements) /\ AudioMixer \in Els(elements)
    BY <1>2 DEF GraphInv, StageInv
  <2> QED
    BY <1>1, <2>1, ElsOf
<1>8. Leads(c, v) /\ Leads(d, a)
  BY <1>6, <1>7, LeadsAny
<1>9. NamesIn(B, C, i)
  <2>1. NamesIn(MixPats, CellPats, out)
    BY <1>2 DEF ExactInv, NameInv
  <2> QED
    BY <1>3, <2>1 DEF NamesIn
<1>10. A \cap D = {} /\ (A \cup D) \cap B = {} /\ (A \cup D) \cap C = {}
  BY <1>3 DEF MixVideoPats, MixAudioPats, ConvertPats, AudioPostPats, MixPats, CellPats
<1>11. IsSeq(elements) /\ Distinct(elements)
  BY <1>2, AtMosaic
<1>12. lks \subseteq Joined(c, v, None) \cup Joined(d, a, None)
  BY <1>1
<1>13. /\ stage' = next
       /\ \A n \in Names(elements') : n \in Names(elements) \/ (n[1] \in A \cup D /\ n[2] = 0)
       /\ Els(elements') = Els(elements) \cup Els(v) \cup Els(a)
  <2>1. Add(v \o a, lks, prb, next) /\ Linkable(v) /\ Linkable(a) /\ "null" \notin P \cup Q
    BY <1>2, <1>5, <1>6
  <2> QED
    BY <1>4, <1>8, <1>9, <1>10, <1>11, <1>12, <2>1, TwoGoodAt
<1>14. A \cup D \cup B \subseteq MixedPats
  BY <1>3 DEF MixedPats, MixVideoPats, MixAudioPats
<1>15. \A n \in Names(elements') : n[1] \in MixedPats
  BY <1>3, <1>9, <1>13, <1>14 DEF NamesIn
<1>16. stage' = "mosaic_output"
  BY <1>1, <1>13
<1>17. NameInv'
  BY <1>15, <1>16 DEF NameInv, NamesIn
<1>18. OutcomeInv'
  BY <1>2, <1>16, AtMosaic, GoesOn DEF Ended
<1>19. (HasGrid' <=> HasGrid) /\ \A k : BadCell(k)' <=> BadCell(k)
  BY <1>2, SameConfig
<1>20. HasGrid /\ \A k \in 1..Len(cfg.input) : ~ BadCell(k)
  BY <1>2 DEF ExactInv, FineInv
<1>21. Len(cfg.output) \in Nat
  BY <1>2, AtMosaic
<1>22. FineInv'
  BY <1>2, <1>16, <1>19, <1>20, <1>21 DEF FineInv
<1>23. SoftInv'
  BY <1>16 DEF SoftInv
<1> QED
  BY <1>17, <1>18, <1>22, <1>23 DEF ExactInv

\* The state in which an output of a mosaic is added.
LEMMA AtMosaicOutput ==
  ASSUME GraphInv, ExactInv, stage = "mosaic_output"
  PROVE  /\ HasGrid /\ out <= Len(cfg.output) /\ NamesIn(MixedPats, MosaicOutPats, out)
         /\ \A k \in 1..Len(cfg.input) : ~ BadCell(k)
         /\ \A k \in 1..out : ~ BadMosaicOutput(k)
         /\ conn.video \in Names(elements) \cup {None} /\ conn.audio \in Names(elements) \cup {None}
BY DEF ExactInv, FineInv, NameInv, GraphInv, ConnInv, ConnOk

\* One more output of a mosaic.
LEMMA MosaicGoesOn ==
  ASSUME GraphInv, ExactInv, stage = "mosaic_output", stage' = "mosaic_output", UNCHANGED <<cfg, class>>,
         out < Len(cfg.output), out' = out + 1, ~ BadMosaicOutput(out + 1),
         \A n \in Names(elements') : n[1] \in MixedPats \/ (n[1] \in MosaicOutPats /\ n[2] \in 0..out)
  PROVE  ExactInv'
<1>1. /\ (HasGrid' <=> HasGrid) /\ \A k : BadCell(k)' <=> BadCell(k)
      /\ \A k : BadMosaicOutput(k)' <=> BadMosaicOutput(k)
  BY SameConfig
<1>2. OutcomeInv'
  BY AtMosaic, GoesOn DEF Ended
<1>3. out \in Nat /\ Len(cfg.output) \in Nat
  BY AtMosaic
<1>4. \A k \in 1..(out + 1) : ~ BadMosaicOutput(k)'
  BY <1>1, <1>3, AtMosaicOutput
<1>5. FineInv'
  BY <1>1, <1>3, <1>4, AtMosaicOutput DEF FineInv
<1>6. out' - 1 = out
  BY <1>3
<1>7. NameInv'
  BY <1>6 DEF NameInv, NamesIn
<1>8. SoftInv'
  BY DEF SoftInv
<1> QED
  BY <1>2, <1>5, <1>7, <1>8 DEF ExactInv

\* A screen or a card never ends the process.
LEMMA DeviceGood ==
  ASSUME GraphInv, ExactInv, stage = "mosaic_output", NEW i, i = out, NEW device, MosaicDeviceOutput(i, device)
  PROVE  /\ stage' = stage
         /\ \A n \in Names(elements') : n[1] \in MixedPats \/ (n[1] \in MosaicOutPats /\ n[2] \in 0..i)
<1>1. PICK vsink, asink, s, t, v, a, c, d, lks, prb, next :
        /\ vsink = make_video_device_sink(device, i) /\ asink = make_audio_device_sink(device, i)
        /\ s = <<Element("queue", "video_tee_queue", i), vsink>> /\ v = If(HasVideo, s)
        /\ t = <<Element("queue", "audio_tee_queue", i), asink>> /\ a = If(HasAudio, t)
        /\ c = conn.video /\ d = conn.audio /\ next = stage
        /\ lks = (IF HasVideo THEN Joined(c, v, None) ELSE {}) \cup (IF HasAudio THEN Joined(d, a, None) ELSE {})
        /\ prb = {p \in {Probe(vsink, i, "output"), Probe(asink, i, "output")} : p.el \in Names(v \o a)}
  OBVIOUS
<1>2. Add(v \o a, lks, prb, next)
  BY <1>1 DEF MosaicDeviceOutput
<1>3. PICK A, D, P, Q : /\ A = {"video_tee_queue", "video_sink"} /\ D = {"audio_tee_queue", "audio_sink"}
                        /\ P = {"queue", "autovideosink", "decklinkvideosink"}
                        /\ Q = {"queue", "autoaudiosink", "decklinkaudiosink"}
  OBVIOUS
<1>4. PLine(s, A, i, P)
  <2>1. PICK p \in {"autovideosink", "decklinkvideosink"} : vsink = Element(p, "video_sink", i)
    BY <1>1 DEF make_video_device_sink
  <2>2. PLine(s, {"video_tee_queue", "video_sink"}, i, {"queue", p})
    BY <1>1, <2>1, PTwo
  <2>3. A \subseteq A /\ {"queue", p} \subseteq P
    BY <1>3
  <2> QED
    BY <1>3, <2>2, <2>3, PWider
<1>5. PLine(t, D, i, Q)
  <2>1. PICK p \in {"autoaudiosink", "decklinkaudiosink"} : asink = Element(p, "audio_sink", i)
    BY <1>1 DEF make_audio_device_sink
  <2>2. PLine(t, {"audio_tee_queue", "audio_sink"}, i, {"queue", p})
    BY <1>1, <2>1, PTwo
  <2>3. D \subseteq D /\ {"queue", p} \subseteq Q
    BY <1>3
  <2> QED
    BY <1>3, <2>2, <2>3, PWider
<1>6. PLine(v, A, i, P) /\ PLine(a, D, i, Q)
  BY <1>1, <1>4, <1>5, PIf
<1>7. Soft(P) /\ Soft(Q) /\ "null" \notin P \cup Q
  BY <1>3 DEF Soft, Takes
<1>8. /\ Linkable(v) /\ Linkable(a)
      /\ Len(v) > 0 => v[1].plugin \notin DOMAIN Takes
      /\ Len(a) > 0 => a[1].plugin \notin DOMAIN Takes
  BY <1>6, <1>7, SoftLine DEF PLine
<1>9. c \in Names(elements) \cup {None} /\ d \in Names(elements) \cup {None}
  BY <1>1, AtMosaicOutput
<1>10. Leads(c, v) /\ Leads(d, a)
  BY <1>8, <1>9, LeadsAny
<1>11. PICK B, C : B = MixedPats /\ C = MosaicOutPats
  OBVIOUS
<1>12. NamesIn(B, C, i) /\ i \in Nat
  BY <1>11, AtMosaic, AtMosaicOutput
<1>13. A \cap D = {} /\ (A \cup D) \cap B = {} /\ i \notin 0..(i - 1) /\ A \cup D \subseteq C
  BY <1>3, <1>11, <1>12 DEF MixedPats, MosaicOutPats, OutPats, ConvertPats, AudioPostPats, MixPats, CellPats
<1>14. /\ stage' = next
       /\ \A n \in Names(elements') : n \in Names(elements) \/ (n[1] \in A \cup D /\ n[2] = i)
       /\ Els(elements') = Els(elements) \cup Els(v) \cup Els(a)
  <2>1. Linkable(v) /\ Linkable(a) /\ "null" \notin P \cup Q
    BY <1>7, <1>8
  <2>2. IsSeq(elements) /\ Distinct(elements)
    BY AtMosaic
  <2>3. lks \subseteq Joined(c, v, None) \cup Joined(d, a, None)
    BY <1>1
  <2>4. NamesIn(B, C, i) /\ A \cap D = {} /\ (A \cup D) \cap B = {} /\ ((A \cup D) \cap C = {} \/ i \notin 0..(i - 1))
    BY <1>12, <1>13
  <2> QED
    BY <1>2, <1>6, <1>10, <2>1, <2>2, <2>3, <2>4, TwoGoodAt
<1>15. \A n \in Names(elements') : n[1] \in B \/ (n[1] \in C /\ n[2] \in 0..i)
  BY <1>12, <1>13, <1>14 DEF NamesIn
<1> QED
  BY <1>1, <1>11, <1>14, <1>15

\* Two lines that do not fit each other.
LEMMA Breaks ==
  ASSUME NEW s, NEW t, NEW u, IsSeq(s), IsSeq(t), IsSeq(u), Len(s) > 0, Len(t) > 0,
         ~ CanLink(Final(s).plugin, t[1].plugin), NEW r, r = s \o t \o u
  PROVE  \E k \in 1..(Len(r) - 1) : ~ CanLink(r[k].plugin, r[k + 1].plugin)
<1>1. PICK w : w = s \o t
  OBVIOUS
<1>2. /\ IsSeq(w) /\ Len(w) = Len(s) + Len(t)
      /\ \A k \in 1..Len(s) : w[k] = s[k]
      /\ \A k \in 1..Len(t) : w[Len(s) + k] = t[k]
  BY <1>1, Concat
<1>3. /\ Len(r) = Len(w) + Len(u)
      /\ \A k \in 1..Len(w) : r[k] = w[k]
  BY <1>1, <1>2, Concat
<1>4. Len(s) \in Nat /\ Len(t) \in Nat /\ Len(u) \in Nat
  BY SeqDomain
<1>5. r[Len(s)] = Final(s) /\ r[Len(s) + 1] = t[1] /\ Len(s) \in 1..(Len(r) - 1)
  BY <1>2, <1>3, <1>4 DEF Final
<1> QED
  BY <1>5

\* The line of the encoder of a mosaic, with what is before it.
MosaicFront(i) ==
    <<Element("queue", "video_tee_queue", i)>>
    \o If(Opt("aspect_ratio"), <<Element("aspectratiocrop", "aspect_ratio", i)>>)
    \o If(Opt("framerate") /\ ~ IsMfxGpu, build_video_framerate(i))
    \o build_video_encoder(cfg.venc, {"profile", "stream-format"} \cap cfg.opts, i)

MosaicPay(i) == IF EncoderVideoCodec(cfg.venc) = "none" THEN NullElement
                ELSE make_video_pay(EncoderVideoCodec(cfg.venc), i)

MosaicFrontPats == {"video_tee_queue", "aspect_ratio"} \cup RatePats \cup EncoderPats

\* The front ends in the encoder, or in a filter behind that of x264.
LEMMA MosaicFrontIs ==
  ASSUME cfg.venc \in VideoEncoders, NEW i
  PROVE  LET s == MosaicFront(i)
         IN  /\ PLine(s, MosaicFrontPats, i, Pass \cup {cfg.venc, "capsfilter"}) /\ IsSeq(s)
             /\ Len(s) > 0 /\ Linkable(s)
             /\ Final(s).plugin \in {cfg.venc, "capsfilter"}
             /\ cfg.venc # "x264enc" => Final(s).plugin = cfg.venc
<1>1. PICK q, r, f, args, e :
        /\ q = <<Element("queue", "video_tee_queue", i)>>
        /\ r = If(Opt("aspect_ratio"), <<Element("aspectratiocrop", "aspect_ratio", i)>>)
        /\ f = If(Opt("framerate") /\ ~ IsMfxGpu, build_video_framerate(i))
        /\ args = {"profile", "stream-format"} \cap cfg.opts
        /\ e = build_video_encoder(cfg.venc, args, i)
  OBVIOUS
<1>3. /\ PLine(e, EncoderPats, i, {cfg.venc, "capsfilter"}) /\ Len(e) > 0 /\ Linkable(e)
      /\ e[1].plugin = cfg.venc /\ Final(e).plugin \in {cfg.venc, "capsfilter"}
  BY <1>1, EncoderLine
<1>4. cfg.venc # "x264enc" => Final(e).plugin = cfg.venc
  <2> SUFFICES ASSUME cfg.venc # "x264enc" PROVE Final(e).plugin = cfg.venc
    OBVIOUS
  <2>1. PICK x : x = make_video_encoder(cfg.venc, i)
    OBVIOUS
  <2>2. e = <<x>> \o <<>>
    BY <1>1, <2>1 DEF build_video_encoder, setup_encoder_str_params
  <2>3. e = <<x>>
    BY <2>2
  <2>4. Final(e) = e[1]
    BY <2>3, SingleIs
  <2> QED
    BY <1>3, <2>4
<1>5. PLine(q, {"video_tee_queue"}, i, Pass) /\ PLine(r, {"aspect_ratio"}, i, Pass)
  <2>1. "queue" \in Pass /\ "aspectratiocrop" \in Pass
    BY DEF Pass
  <2> QED
    BY <1>1, <2>1, PassOne
<1>6. PLine(f, RatePats, i, Pass)
  BY <1>1, FramerateLine, PIf
<1>7. PICK A, D : A = {"video_tee_queue", "aspect_ratio"} /\ D = A \cup RatePats
  OBVIOUS
<1>8. PLine(q \o r, A, i, Pass) /\ Len(q \o r) = Len(q) + Len(r) /\ Len(q) \in Nat /\ Len(r) \in Nat
  <2>1. {"video_tee_queue"} \cap {"aspect_ratio"} = {} /\ {"video_tee_queue"} \cup {"aspect_ratio"} \subseteq A
    BY <1>7
  <2> QED
    BY <1>5, <2>1, PJoin
<1>9. PICK w : w = q \o r \o f
  OBVIOUS
<1>10. PLine(w, D, i, Pass) /\ Len(w) = Len(q \o r) + Len(f) /\ Len(f) \in Nat
  <2>1. A \cap RatePats = {} /\ A \cup RatePats \subseteq D
    BY <1>7 DEF RatePats
  <2> QED
    BY <1>6, <1>8, <1>9, <2>1, PJoin
<1>11. Len(q) = 1
  BY <1>1, SingleIs
<1>12. Len(w) > 0 /\ IsSeq(w) /\ IsSeq(e) /\ Linkable(w)
  BY <1>3, <1>8, <1>10, <1>11, PLineIs, PassLine
<1>13. PICK s : s = MosaicFront(i)
  OBVIOUS
<1>14. s = w \o e
  BY <1>1, <1>9, <1>13 DEF MosaicFront
<1>15. PLine(s, MosaicFrontPats, i, Pass \cup {cfg.venc, "capsfilter"})
  <2>1. D \cap EncoderPats = {} /\ D \cup EncoderPats = MosaicFrontPats
    BY <1>7 DEF EncoderPats, RatePats, MosaicFrontPats
  <2>2. PLine(w \o e, D \cup EncoderPats, i, Pass \cup {cfg.venc, "capsfilter"})
    BY <1>3, <1>10, <2>1, PConcat
  <2> QED
    BY <1>14, <2>1, <2>2
<1>16. Linkable(s)
  <2>1. w[Len(w)].plugin \in Pass
    BY <1>10, <1>12, EndsOf, PLineIs DEF Final
  <2>2. CanLink(w[Len(w)].plugin, e[1].plugin)
    BY <2>1, PassIs, PayIs
  <2> QED
    BY <1>3, <1>12, <1>14, <2>2, LinkableConcat
<1>17. Final(s) = Final(e) /\ IsSeq(s) /\ Len(s) > 0
  <2>1. Final(s) = Final(e)
    BY <1>3, <1>12, <1>14, ConcatEnds
  <2>2. IsSeq(s) /\ Len(s) = Len(w) + Len(e) /\ Len(w) \in Nat /\ Len(e) \in Nat
    BY <1>12, <1>14, Concat, SeqDomain
  <2> QED
    BY <1>12, <2>1, <2>2
<1> QED
  BY <1>3, <1>4, <1>13, <1>15, <1>16, <1>17

\* The branch: the front, for udp a payloader, for h264 a parser.
LEMMA MosaicBranchIs ==
  ASSUME NEW i, NEW scheme
  PROVE  MosaicVideoBranch(i, scheme)
           = MosaicFront(i) \o If(scheme = "udp", <<MosaicPay(i)>>) \o If(IsH264Encoder(cfg.venc), <<make_h264_parser(i)>>)
BY DEF MosaicVideoBranch, MosaicFront, MosaicPay

MosaicVideoPats == MosaicFrontPats \cup {"video_pay", "video_parser"}
MosaicVideoPlugins == Pass \cup VideoEncoders \cup Pays \cup {"capsfilter", "h264parse"}

\* A branch whose payloader, if it has one, fits behind the encoder and before the muxer.
LEMMA MosaicVideoGood ==
  ASSUME cfg.venc \in VideoEncoders, NEW i, NEW scheme,
         scheme = "udp" => EncoderVideoCodec(cfg.venc) \notin {"h264", "mpeg", "none"},
         NEW s, s = MosaicVideoBranch(i, scheme)
  PROVE  /\ PLine(s, MosaicVideoPats, i, MosaicVideoPlugins)
         /\ Len(s) > 0 /\ Linkable(s)
         /\ scheme = "udp" => Final(s).plugin \in Pays
<1>1. PICK f, R : f = MosaicFront(i) /\ R = Pass \cup {cfg.venc, "capsfilter"}
  OBVIOUS
<1>2. /\ PLine(f, MosaicFrontPats, i, R) /\ IsSeq(f) /\ Len(f) > 0 /\ Linkable(f)
      /\ Final(f).plugin \in {cfg.venc, "capsfilter"}
  BY <1>1, MosaicFrontIs
<1>3. cfg.venc \in VideoEncoders
  OBVIOUS
<1>4. MosaicFrontPats \subseteq MosaicVideoPats /\ R \subseteq MosaicVideoPlugins
  BY <1>1, <1>3 DEF MosaicVideoPats, MosaicVideoPlugins
<1>5. "video_pay" \notin MosaicFrontPats /\ "video_parser" \notin MosaicFrontPats
  BY DEF MosaicFrontPats, RatePats, EncoderPats
<1>6. PICK u, h : u = If(scheme = "udp", <<MosaicPay(i)>>) /\ h = If(IsH264Encoder(cfg.venc), <<make_h264_parser(i)>>)
  OBVIOUS
<1>7. s = f \o u \o h
  BY <1>1, <1>6, MosaicBranchIs
<1>8. CASE scheme = "udp"
  <2>1. EncoderVideoCodec(cfg.venc) = "h265" /\ ~ IsH264Encoder(cfg.venc) /\ cfg.venc = "x265enc"
    BY <1>3, <1>8 DEF EncoderVideoCodec, IsH264Encoder, VideoEncoders
  <2>2. PICK e, t : e = Element("rtph265pay", "video_pay", i) /\ t = <<e>>
    OBVIOUS
  <2>3. u = t /\ h = <<>>
    <3>1. MosaicPay(i) = e
      BY <2>1, <2>2 DEF MosaicPay, make_video_pay
    <3> QED
      BY <1>6, <1>8, <2>1, <2>2, <3>1, IfIs
  <2>4. IsSeq(t) /\ Len(t) > 0 /\ Linkable(t) /\ t[1] = e /\ Final(t) = e /\ e.plugin = "rtph265pay"
    BY <2>2, SingleIs, ElementIs
  <2>5. PLine(t, {"video_pay"}, i, {"rtph265pay"})
    BY <2>2, POne
  <2>6. IsSeq(f \o t) /\ Len(f \o t) = Len(f) + Len(t) /\ Len(f) \in Nat /\ Len(t) \in Nat
    BY <1>2, <2>4, Concat, SeqDomain
  <2>7. s = f \o t
    BY <1>7, <2>3, <2>6, NoLine, Literal, ConcatEnds
  <2>8. PLine(s, MosaicFrontPats \cup {"video_pay"}, i, R \cup {"rtph265pay"})
    BY <1>2, <1>5, <2>5, <2>7, PConcat
  <2>9. MosaicFrontPats \cup {"video_pay"} \subseteq MosaicVideoPats /\ R \cup {"rtph265pay"} \subseteq MosaicVideoPlugins
    BY <1>4 DEF MosaicVideoPats, MosaicVideoPlugins, Pays
  <2>10. PLine(s, MosaicVideoPats, i, MosaicVideoPlugins)
    BY <2>8, <2>9, PWider
  <2>11. CanLink(f[Len(f)].plugin, t[1].plugin)
    <3>1. f[Len(f)].plugin \in {"x265enc", "capsfilter"}
      BY <1>2, <2>1 DEF Final
    <3>2. \A p \in {"x265enc", "capsfilter"} : CanLink(p, "rtph265pay")
      BY DEF CanLink, Offers, Takes
    <3> QED
      BY <2>4, <3>1, <3>2
  <2>12. Linkable(s)
    BY <1>2, <2>4, <2>7, <2>11, LinkableConcat
  <2>13. Final(s) = e
    BY <1>2, <2>4, <2>7, ConcatEnds
  <2> QED
    BY <1>2, <2>4, <2>6, <2>7, <2>10, <2>12, <2>13 DEF Pays
<1>9. CASE scheme # "udp"
  <2>1. u = <<>>
    BY <1>6, <1>9, IfIs
  <2>2. s = f \o h
    BY <1>2, <1>7, <2>1, NoLine, Literal, ConcatEnds
  <2>3. CASE ~ IsH264Encoder(cfg.venc)
    <3>1. h = <<>>
      BY <1>6, <2>3, IfIs
    <3>2. s = f
      BY <1>2, <2>2, <3>1, NoLine, Literal, ConcatEnds
    <3> QED
      BY <1>2, <1>4, <1>9, <3>2, PWider
  <2>4. CASE IsH264Encoder(cfg.venc)
    <3>1. PICK e : e = make_h264_parser(i)
      OBVIOUS
    <3>2. h = <<e>>
      BY <1>6, <2>4, <3>1, IfIs
    <3>3. IsSeq(h) /\ Len(h) > 0 /\ Linkable(h) /\ h[1] = e
      BY <3>2, SingleIs
    <3>4. PLine(h, {"video_parser"}, i, {"h264parse"}) /\ e.plugin = "h264parse"
      BY <3>1, <3>2, POne, ElementIs DEF make_h264_parser
    <3>5. PLine(s, MosaicFrontPats \cup {"video_parser"}, i, R \cup {"h264parse"})
      BY <1>2, <1>5, <2>2, <3>4, PConcat
    <3>6. MosaicFrontPats \cup {"video_parser"} \subseteq MosaicVideoPats /\ R \cup {"h264parse"} \subseteq MosaicVideoPlugins
      BY <1>4 DEF MosaicVideoPats, MosaicVideoPlugins
    <3>7. PLine(s, MosaicVideoPats, i, MosaicVideoPlugins)
      BY <3>5, <3>6, PWider
    <3>8. CanLink(f[Len(f)].plugin, h[1].plugin)
      BY <1>2, <2>4, <3>3, <3>4, H264Links DEF Final
    <3>9. Linkable(s)
      BY <1>2, <2>2, <3>3, <3>8, LinkableConcat
    <3>10. Len(s) = Len(f) + Len(h) /\ Len(f) \in Nat /\ Len(h) \in Nat
      BY <1>2, <2>2, <3>3, Concat, SeqDomain
    <3> QED
      BY <1>2, <1>9, <3>3, <3>7, <3>9, <3>10
  <2> QED
    BY <2>3, <2>4
<1> QED
  BY <1>8, <1>9

\* The front of a branch is in it, whatever follows.
LEMMA MosaicFrontIn ==
  ASSUME NEW i, NEW scheme
  PROVE  /\ cfg.venc \notin VideoEncoders => NullElement \in Els(MosaicVideoBranch(i, scheme))
         /\ cfg.aenc \notin AudioEncoders => NullElement \in Els(MosaicAudioBranch(i, scheme))
<1>1. PICK x, y, h, q, r, p : /\ x = Element("queue", "video_tee_queue", i)
                              /\ y = Element("aspectratiocrop", "aspect_ratio", i)
                              /\ h = make_h264_parser(i) /\ q = Element("queue", "audio_tee_queue", i)
                              /\ r = make_aac_pay(i) /\ p = MosaicPay(i)
  OBVIOUS
<1>2. PICK f, e, l : /\ f = build_video_framerate(i)
                     /\ e = build_video_encoder(cfg.venc, {"profile", "stream-format"} \cap cfg.opts, i)
                     /\ l = AudioEncoderLine(i)
  OBVIOUS
<1>3. PICK o, u, v, s1, s2, s3, s4, s5 :
        /\ o = <<x>> /\ u = <<y>> /\ v = <<q>>
        /\ s1 = If(Opt("aspect_ratio"), u) /\ s2 = If(Opt("framerate") /\ ~ IsMfxGpu, f)
        /\ s3 = If(scheme = "udp", <<p>>) /\ s4 = If(IsH264Encoder(cfg.venc), <<h>>)
        /\ s5 = If(scheme = "udp", <<r>>)
  OBVIOUS
<1>4. IsSeq(o) /\ IsSeq(u) /\ IsSeq(v) /\ IsSeq(<<p>>) /\ IsSeq(<<h>>) /\ IsSeq(<<r>>) /\ IsSeq(<<>>)
  BY <1>3, SingleIs, NoLine
<1>5. IsSeq(f) /\ IsSeq(e) /\ IsSeq(l)
  <2>1. PLine(f, RatePats, i, Pass)
    BY <1>2, FramerateLine
  <2> QED
    BY <1>2, <2>1, PLineIs, EncodersPlain DEF Plain
<1>6. IsSeq(s1) /\ IsSeq(s2) /\ IsSeq(s3) /\ IsSeq(s4) /\ IsSeq(s5)
  BY <1>3, <1>4, <1>5, IfIs
<1>7. PICK t1, t2, t3, t4, t5, w1, w2 :
        /\ t1 = o \o s1 /\ t2 = t1 \o s2 /\ t3 = t2 \o e /\ t4 = t3 \o s3 /\ t5 = t4 \o s4
        /\ w1 = v \o l /\ w2 = w1 \o s5
  OBVIOUS
<1>8. IsSeq(t1) /\ IsSeq(w1) /\ Els(w1) = Els(v) \cup Els(l)
  BY <1>4, <1>5, <1>6, <1>7, Concat
<1>9. IsSeq(t2) /\ Els(w2) = Els(w1) \cup Els(s5)
  BY <1>6, <1>7, <1>8, Concat
<1>10. IsSeq(t3) /\ Els(t3) = Els(t2) \cup Els(e)
  BY <1>5, <1>7, <1>9, Concat
<1>11. IsSeq(t4) /\ Els(t4) = Els(t3) \cup Els(s3)
  BY <1>6, <1>7, <1>10, Concat
<1>12. Els(t5) = Els(t4) \cup Els(s4)
  BY <1>6, <1>7, <1>11, Concat
<1>13. MosaicVideoBranch(i, scheme) = t5 /\ MosaicAudioBranch(i, scheme) = w2
  BY <1>1, <1>2, <1>3, <1>7 DEF MosaicVideoBranch, MosaicAudioBranch, MosaicPay
<1>14. /\ cfg.venc \notin VideoEncoders => NullElement \in Els(e)
       /\ cfg.aenc \notin AudioEncoders => NullElement \in Els(l)
  BY <1>2, UnknownEncoderLines
<1> QED
  BY <1>8, <1>9, <1>10, <1>11, <1>12, <1>13, <1>14

\* Over udp a branch of another codec has a null payloader, or one that is refused.
LEMMA MosaicVideoBad ==
  ASSUME cfg.venc \in VideoEncoders, NEW i, NEW s, s = MosaicVideoBranch(i, "udp"),
         EncoderVideoCodec(cfg.venc) \in {"h264", "mpeg", "none"}
  PROVE  \/ NullElement \in Els(s)
         \/ \E k \in 1..(Len(s) - 1) : ~ CanLink(s[k].plugin, s[k + 1].plugin)
<1>1. PICK f, e, u, h : /\ f = MosaicFront(i) /\ e = MosaicPay(i) /\ u = <<e>>
                        /\ h = If(IsH264Encoder(cfg.venc), <<make_h264_parser(i)>>)
  OBVIOUS
<1>2. /\ IsSeq(f) /\ Len(f) > 0 /\ (cfg.venc # "x264enc" => Final(f).plugin = cfg.venc)
  BY <1>1, MosaicFrontIs
<1>3. s = f \o u \o h
  <2>1. If("udp" = "udp", <<MosaicPay(i)>>) = u
    BY <1>1, IfIs
  <2> QED
    BY <1>1, <2>1, MosaicBranchIs
<1>4. IsSeq(u) /\ Len(u) = 1 /\ Len(u) > 0 /\ u[1] = e /\ Final(u) = e /\ Els(u) = {e}
  BY <1>1, SingleIs
<1>5. IsSeq(h) /\ (IsH264Encoder(cfg.venc) => Len(h) > 0 /\ h[1].plugin = "h264parse")
  <2>1. CASE IsH264Encoder(cfg.venc)
    <3>1. PICK x : x = make_h264_parser(i)
      OBVIOUS
    <3>2. h = <<x>> /\ x.plugin = "h264parse"
      BY <1>1, <2>1, <3>1, IfIs, ElementIs DEF make_h264_parser
    <3> QED
      BY <3>2, SingleIs
  <2>2. CASE ~ IsH264Encoder(cfg.venc)
    BY <1>1, <2>2, IfIs, NoLine
  <2> QED
    BY <2>1, <2>2
<1>7. IsSeq(f \o u) /\ Len(f \o u) = Len(f) + Len(u) /\ Len(f) \in Nat
  BY <1>2, <1>4, Concat, SeqDomain
<1>8. CASE EncoderVideoCodec(cfg.venc) = "none"
  <2>1. e = NullElement
    BY <1>1, <1>8 DEF MosaicPay
  <2>2. PICK w : w = f \o u
    OBVIOUS
  <2>3. IsSeq(w) /\ Els(w) = Els(f) \cup Els(u)
    BY <1>2, <1>4, <2>2, Concat
  <2>4. s = w \o h
    BY <1>3, <2>2
  <2>5. Els(s) = Els(w) \cup Els(h)
    <3>1. IsSeq(w) /\ IsSeq(h)
      BY <1>5, <2>3
    <3>2. Els(w \o h) = Els(w) \cup Els(h)
      BY <3>1, Concat
    <3> QED
      BY <2>4, <3>2
  <2> QED
    BY <1>4, <2>1, <2>3, <2>5
<1>9. CASE EncoderVideoCodec(cfg.venc) = "mpeg"
  <2>1. cfg.venc = "mpeg2enc"
    BY <1>9 DEF EncoderVideoCodec
  <2>2. e = Element("rtpmp2tpay", "video_pay", i)
    BY <1>1, <1>9 DEF MosaicPay, make_video_pay
  <2>3. Final(f).plugin = "mpeg2enc" /\ u[1].plugin = "rtpmp2tpay"
    BY <1>2, <1>4, <2>1, <2>2, ElementIs
  <2>4. ~ CanLink("mpeg2enc", "rtpmp2tpay")
    BY DEF CanLink, Offers, Takes
  <2>5. ~ CanLink(Final(f).plugin, u[1].plugin)
    BY <2>3, <2>4
  <2>6. \E k \in 1..(Len(s) - 1) : ~ CanLink(s[k].plugin, s[k + 1].plugin)
    BY <1>2, <1>3, <1>4, <1>5, <2>5, Breaks
  <2> QED
    BY <2>6
<1>10. CASE EncoderVideoCodec(cfg.venc) = "h264"
  <2>1. IsH264Encoder(cfg.venc)
    BY <1>10 DEF EncoderVideoCodec
  <2>2. e = Element("rtph264pay", "video_pay", i)
    BY <1>1, <1>10 DEF MosaicPay, make_video_pay
  <2>3. ~ CanLink("rtph264pay", "h264parse")
    BY DEF CanLink, Offers, Takes
  <2>4. PICK w, z : w = f \o u /\ z = <<>>
    OBVIOUS
  <2>5. IsSeq(w) /\ Len(w) > 0 /\ Final(w) = e
    <3>1. Final(w) = Final(u)
      BY <1>2, <1>4, <2>4, ConcatEnds
    <3> QED
      BY <1>2, <1>4, <1>7, <2>4, <3>1
  <2>6. ~ CanLink(Final(w).plugin, h[1].plugin)
    BY <1>5, <2>1, <2>2, <2>3, <2>5, ElementIs
  <2>7. s = w \o h \o z /\ IsSeq(z)
    <3>1. IsSeq(w \o h) /\ IsSeq(z) /\ Len(z) = 0
      BY <1>5, <2>4, <2>5, Concat, Literal
    <3>2. (w \o h) \o z = w \o h
      BY <3>1, ConcatEnds
    <3> QED
      BY <1>3, <2>4, <3>1, <3>2
  <2>8. Len(h) > 0
    BY <1>5, <2>1
  <2>9. \E k \in 1..(Len(s) - 1) : ~ CanLink(s[k].plugin, s[k + 1].plugin)
    BY <1>5, <2>5, <2>6, <2>7, <2>8, Breaks
  <2> QED
    BY <2>9
<1> QED
  BY <1>8, <1>9, <1>10

MosaicAudioPats == {"audio_tee_queue", "audioresample", "audio_codec", "mpegaudioparse", "audio_pay"}
MosaicAudioPlugins == {"queue", "audioresample", "mpegaudioparse"} \cup AudioEncoders \cup Pays

\* The queue and the encoder of audio.
LEMMA MosaicAudioFront ==
  ASSUME cfg.aenc \in AudioEncoders, NEW i
  PROVE  LET s == <<Element("queue", "audio_tee_queue", i)>> \o AudioEncoderLine(i)
             P == {"queue"} \cup {cfg.aenc, "audioresample", "mpegaudioparse"}
         IN  /\ PLine(s, MosaicAudioPats \ {"audio_pay"}, i, P) /\ IsSeq(s)
             /\ Len(s) > 0 /\ Linkable(s)
             /\ Final(s).plugin = IF cfg.aenc = "lamemp3enc" THEN "mpegaudioparse" ELSE cfg.aenc
<1>1. PICK x, q, e, s, Q : /\ x = Element("queue", "audio_tee_queue", i) /\ q = <<x>> /\ e = AudioEncoderLine(i)
                           /\ s = q \o e /\ Q = {cfg.aenc, "audioresample", "mpegaudioparse"}
  OBVIOUS
<1>2. cfg.aenc \in AudioEncoders
  OBVIOUS
<1>3. /\ PLine(e, {"audioresample", "audio_codec", "mpegaudioparse"}, i, Q)
      /\ Len(e) > 0 /\ Linkable(e)
      /\ e[1].plugin \notin DOMAIN Takes
      /\ Final(e).plugin = IF cfg.aenc = "lamemp3enc" THEN "mpegaudioparse" ELSE cfg.aenc
  BY <1>1, <1>2, AudioEncoderIs
<1>4. IsSeq(e)
  BY <1>3, PLineIs
<1>5. PLine(q, {"audio_tee_queue"}, i, {"queue"})
  BY <1>1, POne
<1>6. IsSeq(q) /\ Len(q) > 0 /\ Linkable(q)
  BY <1>1, SingleIs
<1>7. PLine(s, MosaicAudioPats \ {"audio_pay"}, i, {"queue"} \cup Q)
  <2>1. PICK A, D : A = {"audio_tee_queue"} /\ D = {"audioresample", "audio_codec", "mpegaudioparse"}
    OBVIOUS
  <2>2. A \cap D = {} /\ A \cup D = MosaicAudioPats \ {"audio_pay"}
    BY <2>1 DEF MosaicAudioPats
  <2>3. PLine(q \o e, A \cup D, i, {"queue"} \cup Q)
    BY <1>3, <1>5, <2>1, <2>2, PConcat
  <2> QED
    BY <1>1, <2>2, <2>3
<1>8. IsSeq(s) /\ Len(s) = Len(q) + Len(e) /\ Len(q) \in Nat /\ Len(e) \in Nat
  BY <1>1, <1>4, <1>6, Concat, SeqDomain
<1>9. Final(s) = Final(e)
  BY <1>1, <1>3, <1>4, <1>6, ConcatEnds
<1>10. Linkable(s)
  <2>1. CanLink(q[Len(q)].plugin, e[1].plugin)
    BY <1>3, SoftLink
  <2> QED
    BY <1>1, <1>3, <1>4, <1>6, <2>1, LinkableConcat
<1>11. Len(s) > 0
  BY <1>3, <1>8
<1> QED
  BY <1>1, <1>3, <1>7, <1>8, <1>9, <1>10, <1>11

\* Audio is payed as aac over udp: mp3 is refused, and nothing else.
LEMMA MosaicAudioIs ==
  ASSUME cfg.aenc \in AudioEncoders, NEW i, NEW scheme, NEW s, s = MosaicAudioBranch(i, scheme)
  PROVE  /\ ~ (scheme = "udp" /\ cfg.aenc = "lamemp3enc") =>
              /\ PLine(s, MosaicAudioPats, i, MosaicAudioPlugins)
              /\ Len(s) > 0 /\ Linkable(s) /\ (scheme = "udp" => Final(s).plugin \in Pays)
         /\ scheme = "udp" /\ cfg.aenc = "lamemp3enc"
              => \E k \in 1..(Len(s) - 1) : ~ CanLink(s[k].plugin, s[k + 1].plugin)
<1>1. PICK f, P, e, u, z : /\ f = <<Element("queue", "audio_tee_queue", i)>> \o AudioEncoderLine(i)
                           /\ P = {"queue"} \cup {cfg.aenc, "audioresample", "mpegaudioparse"}
                           /\ e = make_aac_pay(i) /\ u = <<e>> /\ z = <<>>
  OBVIOUS
<1>2. /\ PLine(f, MosaicAudioPats \ {"audio_pay"}, i, P) /\ IsSeq(f)
      /\ Len(f) > 0 /\ Linkable(f)
      /\ Final(f).plugin = IF cfg.aenc = "lamemp3enc" THEN "mpegaudioparse" ELSE cfg.aenc
  BY <1>1, MosaicAudioFront
<1>3. cfg.aenc \in AudioEncoders
  OBVIOUS
<1>4. MosaicAudioPats \ {"audio_pay"} \subseteq MosaicAudioPats /\ P \subseteq MosaicAudioPlugins
  BY <1>1, <1>3 DEF MosaicAudioPlugins
<1>5. IsSeq(u) /\ Len(u) > 0 /\ Linkable(u) /\ u[1] = e /\ Final(u) = e
  BY <1>1, SingleIs
<1>6. PLine(u, {"audio_pay"}, i, {"rtpmp4apay"}) /\ e.plugin = "rtpmp4apay"
  BY <1>1, POne, ElementIs DEF make_aac_pay
<1>7. IsSeq(z) /\ Len(z) = 0
  BY <1>1, Literal
<1>8. CASE scheme # "udp"
  <2>1. s = f \o z
    BY <1>1, <1>8, IfIs DEF MosaicAudioBranch
  <2>2. s = f
    BY <1>2, <1>7, <2>1, ConcatEnds
  <2>3. PLine(f, MosaicAudioPats, i, MosaicAudioPlugins)
    BY <1>2, <1>4, PWider
  <2> QED
    BY <1>2, <1>8, <2>2, <2>3
<1>9. CASE scheme = "udp"
  <2>1. s = f \o u
    BY <1>1, <1>9, IfIs DEF MosaicAudioBranch
  <2>2. IsSeq(s) /\ Len(s) = Len(f) + Len(u) /\ Len(f) \in Nat /\ Len(u) \in Nat
    BY <1>2, <1>5, <2>1, Concat, SeqDomain
  <2>3. CASE cfg.aenc = "lamemp3enc"
    <3>1. ~ CanLink("mpegaudioparse", "rtpmp4apay")
      BY DEF CanLink, Offers, Takes
    <3>2. ~ CanLink(Final(f).plugin, u[1].plugin)
      BY <1>2, <1>5, <1>6, <2>3, <3>1
    <3>3. s = f \o u \o z
      <4>1. s \o z = s
        BY <1>7, <2>2, ConcatEnds
      <4> QED
        BY <2>1, <4>1
    <3>4. \E k \in 1..(Len(s) - 1) : ~ CanLink(s[k].plugin, s[k + 1].plugin)
      <4>1. IsSeq(f) /\ IsSeq(u) /\ IsSeq(z) /\ Len(f) > 0 /\ Len(u) > 0
        BY <1>2, <1>5, <1>7
      <4> QED
        BY <3>2, <3>3, <4>1, Breaks
    <3> QED
      BY <1>9, <2>3, <3>4
  <2>4. CASE cfg.aenc # "lamemp3enc"
    <3>1. \A p \in {"faac", "voaacenc"} : CanLink(p, "rtpmp4apay")
      BY DEF CanLink, Offers, Takes
    <3>2. CanLink(f[Len(f)].plugin, u[1].plugin)
      BY <1>2, <1>3, <1>5, <1>6, <2>4, <3>1 DEF Final, AudioEncoders
    <3>3. Linkable(s)
      BY <1>2, <1>5, <2>1, <3>2, LinkableConcat
    <3>4. Final(s) = e
      BY <1>2, <1>5, <2>1, ConcatEnds
    <3>5. PICK A, D, Q : A = MosaicAudioPats \ {"audio_pay"} /\ D = {"audio_pay"} /\ Q = {"rtpmp4apay"}
      OBVIOUS
    <3>6. A \cap D = {} /\ A \cup D \subseteq MosaicAudioPats /\ P \cup Q \subseteq MosaicAudioPlugins
      BY <1>4, <3>5 DEF MosaicAudioPats, MosaicAudioPlugins, Pays
    <3>7. PLine(f \o u, A \cup D, i, P \cup Q)
      BY <1>2, <1>6, <3>5, <3>6, PConcat
    <3>8. PLine(s, MosaicAudioPats, i, MosaicAudioPlugins)
      BY <2>1, <3>6, <3>7, PWider
    <3>9. Len(s) > 0
      BY <1>2, <2>2
    <3> QED
      BY <1>6, <2>4, <3>3, <3>4, <3>8, <3>9 DEF Pays
  <2> QED
    BY <2>3, <2>4
<1> QED
  BY <1>8, <1>9

\* An output of a mosaic whose media have fitting payloaders.
LEMMA GoodMosaicOutput ==
  ASSUME GraphInv, ExactInv, stage = "mosaic_output", NEW i, i = out,
         i < Len(cfg.output), NEW scheme \in Muxed, scheme = cfg.output[i + 1], ~ BadMosaicOutput(i + 1),
         AddOutput(i, scheme, MosaicVideoBranch(i, scheme), MosaicAudioBranch(i, scheme))
  PROVE  /\ stage' = stage
         /\ \A n \in Names(elements') : n[1] \in MixedPats \/ (n[1] \in MosaicOutPats /\ n[2] \in 0..i)
<1>1. PICK video, audio, v, a :
        /\ video = MosaicVideoBranch(i, scheme) /\ v = If(HasVideo, video)
        /\ audio = MosaicAudioBranch(i, scheme) /\ a = If(HasAudio, audio)
  OBVIOUS
<1>2. PICK A, D, P, Q : /\ A = MosaicVideoPats /\ D = MosaicAudioPats
                        /\ P = MosaicVideoPlugins /\ Q = MosaicAudioPlugins
  OBVIOUS
<1>3. cfg \in ConfigType /\ i \in Nat /\ NamesIn(MixedPats, MosaicOutPats, i)
  BY AtMosaic, AtMosaicOutput
<1>4. /\ scheme = "udp" /\ HasVideo => EncoderVideoCodec(cfg.venc) \notin {"h264", "mpeg", "none"}
      /\ scheme = "udp" /\ HasAudio => cfg.aenc # "lamemp3enc"
      /\ HasVideo => cfg.venc \in VideoEncoders
      /\ HasAudio => cfg.aenc \in AudioEncoders
  <2>1. ~ UnknownEncoder /\ ~ (scheme = "udp" /\ (NoVideoPay \/ NoAudioPay))
    BY UrlIs DEF BadMosaicOutput
  <2>2. StreamClass = "mosaic"
    BY AtMosaic
  <2> QED
    BY <2>1, <2>2 DEF UnknownEncoder, NoVideoPay, NoAudioPay
<1>5. HasVideo => /\ PLine(video, A, i, P) /\ Len(video) > 0 /\ Linkable(video)
                  /\ scheme = "udp" => Final(video).plugin \in Pays
  BY <1>1, <1>2, <1>3, <1>4, MosaicVideoGood
<1>6. HasAudio => /\ PLine(audio, D, i, Q) /\ Len(audio) > 0 /\ Linkable(audio)
                  /\ scheme = "udp" => Final(audio).plugin \in Pays
  BY <1>1, <1>2, <1>3, <1>4, MosaicAudioIs
<1>7. PLine(v, A, i, P)
  BY <1>1, <1>5, IfIs, PEmpty
<1>8. PLine(a, D, i, Q)
  BY <1>1, <1>6, IfIs, PEmpty
<1>9. /\ A \cap D = {} /\ {"muxer", "sink"} \cap (A \cup D) = {}
      /\ A \cup D \cup {"muxer", "sink"} \subseteq MosaicOutPats
  BY <1>2 DEF MosaicVideoPats, MosaicAudioPats, MosaicFrontPats, RatePats, EncoderPats, MosaicOutPats, OutPats
<1>10. MixedPats \cap MosaicOutPats = {}
  BY DEF MixedPats, CellPats, MixPats, ConvertPats, AudioPostPats, MosaicOutPats, OutPats, RatePats, EncoderPats
<1>11. MixedPats \cap (A \cup D \cup {"muxer", "sink"}) = {}
  BY <1>9, <1>10
<1>12. "null" \notin P \cup Q
  BY <1>2 DEF MosaicVideoPlugins, MosaicAudioPlugins, Pass, VideoEncoders, AudioEncoders, Pays
<1>13. /\ HasVideo => BranchFits(conn.video, v, make_muxer(scheme, i))
       /\ HasAudio => BranchFits(conn.audio, a, make_muxer(scheme, i))
  <2>1. (HasVideo => Leads(conn.video, v)) /\ (HasAudio => Leads(conn.audio, a))
    BY AtMosaic, ConnsLead
  <2>2. (HasVideo => v = video) /\ (HasAudio => a = audio)
    BY <1>1, IfIs
  <2>3. HasVideo => CanLink(Final(v).plugin, make_muxer(scheme, i).plugin)
    BY <1>5, <2>2, MuxerTakes
  <2>4. HasAudio => CanLink(Final(a).plugin, make_muxer(scheme, i).plugin)
    BY <1>6, <2>2, MuxerTakes
  <2> QED
    BY <1>5, <1>6, <2>1, <2>2, <2>3, <2>4 DEF BranchFits
<1>14. stage # "aborted" /\ AddOutput(i, scheme, video, audio)
  BY <1>1
<1> QED
  BY <1>1, <1>3, <1>7, <1>8, <1>9, <1>11, <1>12, <1>13, <1>14, OutputGood

\* One that has not.
LEMMA BadMosaicEnds ==
  ASSUME GraphInv, ExactInv, stage = "mosaic_output", NEW i, i = out,
         i < Len(cfg.output), NEW url, url = cfg.output[i + 1], ~ IsDevice(url),
         NEW scheme, scheme = SchemeOf(url), BadMosaicOutput(i + 1),
         AddOutput(i, url, MosaicVideoBranch(i, scheme), MosaicAudioBranch(i, scheme))
  PROVE  stage' = "aborted" /\ Unbuildable
<1>1. PICK video, audio, v, a :
        /\ video = MosaicVideoBranch(i, scheme) /\ v = If(HasVideo, video)
        /\ audio = MosaicAudioBranch(i, scheme) /\ a = If(HasAudio, audio)
  OBVIOUS
<1>2. IsSeq(v) /\ IsSeq(a)
  <2>1. Plain(video) /\ Plain(audio)
    BY <1>1, MosaicBranchesPlain
  <2> QED
    BY <1>1, <2>1, PlainIf, PlainNone
<1>3. (HasVideo => v = video) /\ (HasAudio => a = audio)
  BY <1>1, IfIs
<1> DEFINE Ends == \/ NullElement \in {build_output(url, i)} \cup Els(v) \cup Els(a)
                   \/ HasVideo /\ \E k \in 1..(Len(v) - 1) : ~ CanLink(v[k].plugin, v[k + 1].plugin)
                   \/ HasAudio /\ \E k \in 1..(Len(a) - 1) : ~ CanLink(a[k].plugin, a[k + 1].plugin)
<1>4. ASSUME BadSink(url) PROVE Ends
  BY <1>4, UrlIs
<1>5. ASSUME UnknownEncoder PROVE Ends
  <2>1. \/ HasVideo /\ cfg.venc \notin VideoEncoders
        \/ HasAudio /\ cfg.aenc \notin AudioEncoders
    BY <1>5 DEF UnknownEncoder
  <2>2. NullElement \in Els(v) \cup Els(a)
    BY <1>1, <1>3, <2>1, MosaicFrontIn
  <2> QED
    BY <2>2
<1>6. ASSUME ~ UnknownEncoder, scheme = "udp", NoVideoPay PROVE Ends
  <2>1. HasVideo /\ v = video /\ cfg.venc \in VideoEncoders
    <3>1. StreamClass = "mosaic"
      BY AtMosaic
    <3> QED
      BY <1>3, <1>6, <3>1 DEF NoVideoPay, UnknownEncoder
  <2>2. \/ NullElement \in Els(v)
        \/ \E k \in 1..(Len(v) - 1) : ~ CanLink(v[k].plugin, v[k + 1].plugin)
    BY <1>1, <1>6, <2>1, MosaicVideoBad DEF NoVideoPay
  <2> QED
    BY <2>1, <2>2
<1>7. ASSUME ~ UnknownEncoder, scheme = "udp", NoAudioPay PROVE Ends
  <2>1. HasAudio /\ a = audio /\ cfg.aenc \in AudioEncoders
    <3>1. StreamClass = "mosaic"
      BY AtMosaic
    <3> QED
      BY <1>3, <1>7, <3>1 DEF NoAudioPay, UnknownEncoder
  <2>2. \E k \in 1..(Len(a) - 1) : ~ CanLink(a[k].plugin, a[k + 1].plugin)
    BY <1>1, <1>7, <2>1, MosaicAudioIs DEF NoAudioPay
  <2> QED
    BY <2>1, <2>2
<1>8. Ends
  <2> HIDE DEF Ends
  <2> QED
    BY <1>4, <1>5, <1>6, <1>7 DEF BadMosaicOutput
<1>9. stage' = "aborted"
  <2>1. stage # "aborted" /\ AddOutput(i, url, video, audio)
    BY <1>1
  <2> QED
    BY <1>1, <1>2, <1>8, <2>1, OutputBad
<1>10. i + 1 \in 1..Len(cfg.output)
  BY AtMosaic
<1>11. Unbuildable
  BY <1>10, AtMosaic, AtMosaicOutput, UnbuildableIs
<1> QED
  BY <1>9, <1>11

\* BuildMosaicOutput ends the process on exactly the outputs that are bad.
LEMMA MosaicOutputExact ==
  ASSUME GraphInv, ExactInv, BuildMosaicOutput
  PROVE  ExactInv'
<1>1. PICK i, url, scheme : i = out /\ url = cfg.output[i + 1] /\ scheme = SchemeOf(url)
  OBVIOUS
<1>2. /\ stage = "mosaic_output" /\ i < Len(cfg.output) /\ out' = out + 1 /\ UNCHANGED <<cfg, class>>
  BY <1>1 DEF BuildMosaicOutput
<1>3. url \in Outputs /\ i \in Nat
  BY <1>1, <1>2, AtMosaic
<1>4. CASE IsDevice(url)
  <2>1. MosaicDeviceOutput(i, url)
    BY <1>1, <1>4 DEF BuildMosaicOutput
  <2>2. ~ BadMosaicOutput(i + 1)
    BY <1>1, <1>4, UrlIs DEF BadMosaicOutput
  <2>3. /\ stage' = stage
        /\ \A n \in Names(elements') : n[1] \in MixedPats \/ (n[1] \in MosaicOutPats /\ n[2] \in 0..i)
    BY <1>1, <1>2, <2>1, DeviceGood
  <2> QED
    BY <1>1, <1>2, <2>2, <2>3, MosaicGoesOn
<1>5. CASE ~ IsDevice(url)
  <2>1. AddOutput(i, url, MosaicVideoBranch(i, scheme), MosaicAudioBranch(i, scheme))
    BY <1>1, <1>5 DEF BuildMosaicOutput
  <2>2. CASE BadMosaicOutput(i + 1)
    <3>1. stage' = "aborted" /\ Unbuildable
      BY <1>1, <1>2, <1>5, <2>1, <2>2, BadMosaicEnds
    <3> QED
      BY <1>2, <3>1, AtMosaic, AtMosaicOutput, AbortsKeep
  <2>3. CASE ~ BadMosaicOutput(i + 1)
    <3>1. url \in Muxed /\ scheme = url
      BY <1>1, <1>3, <1>5, <2>3, UrlIs DEF BadMosaicOutput
    <3>2. /\ stage' = stage
          /\ \A n \in Names(elements') : n[1] \in MixedPats \/ (n[1] \in MosaicOutPats /\ n[2] \in 0..i)
      BY <1>1, <1>2, <2>1, <2>3, <3>1, GoodMosaicOutput
    <3> QED
      BY <1>1, <1>2, <2>3, <3>2, MosaicGoesOn
  <2> QED
    BY <2>2, <2>3
<1> QED
  BY <1>4, <1>5

\* All outputs of a mosaic were added.
LEMMA MosaicDoneExact ==
  ASSUME GraphInv, ExactInv, MosaicDone
  PROVE  ExactInv'
<1>1. /\ stage = "mosaic_output" /\ out = Len(cfg.output) /\ stage' = "built" /\ UNCHANGED <<cfg, class>>
  BY DEF MosaicDone
<1>2. ~ BadSource /\ ~ NamesUnknown
  BY <1>1, AtMosaic DEF BadSource, OneSource, NamesUnknown, Encodes
<1>3. ~ Unbuildable
  BY <1>1, <1>2, AtMosaic, AtMosaicOutput, UnbuildableIs
<1> QED
  BY <1>1, <1>3, AtMosaic, AtMosaicOutput, BuiltKeep

\* Every step of the building.
LEMMA BuildExact ==
  ASSUME GraphInv, ExactInv, Build
  PROVE  ExactInv'
BY CreateExact, BuildInputExact, RtspInputExact, DeviceInputExact, RawInputsExact, UdbActionsExact, KeepExact,
   PostProcExact, ConverterExact, RelayConverterExact, BuildOutputExact, TestOutputExact, RecorderOutputExact,
   DoneExact, InitMosaicExact, MosaicInputExact, MosaicMixExact, MosaicOutputExact, MosaicDoneExact,
   DeclinesExact
   DEF Build

\* The state in which the building begins.
LEMMA InitExact ==
  InitBuild => ExactInv
BY DEF InitBuild, ExactInv, FineInv, OutcomeInv, NameInv, SoftInv, Ended

\* The pads are added to a pipeline that was built, and leave its elements alone.
LEMMA ExactKept ==
  ASSUME ExactInv, UNCHANGED <<cfg, class, stage, elements, conn, out>>
  PROVE  ExactInv'
<1>1. /\ StreamClass' = StreamClass /\ (Unbuildable' <=> Unbuildable) /\ (HasGrid' <=> HasGrid)
      /\ (BadSource' <=> BadSource) /\ (Encodes' <=> Encodes) /\ (Recorder' <=> Recorder)
      /\ (UnknownEncoder' <=> UnknownEncoder) /\ (UnknownParser' <=> UnknownParser)
      /\ UdbPats' = UdbPats /\ PostPats' = PostPats
      /\ \A k : BadCell(k)' <=> BadCell(k)
      /\ \A k : BadOutput(k)' <=> BadOutput(k)
      /\ \A k : BadMosaicOutput(k)' <=> BadMosaicOutput(k)
  BY SameConfig
<1>2. FineInv'
  BY <1>1 DEF ExactInv, FineInv
<1>3. OutcomeInv'
  BY <1>1 DEF ExactInv, OutcomeInv
<1>4. NameInv'
  BY <1>1 DEF ExactInv, NameInv, NamesIn
<1>5. SoftInv'
  BY <1>1 DEF ExactInv, SoftInv, SoftAt
<1> QED
  BY <1>2, <1>3, <1>4, <1>5 DEF ExactInv

\* Every step of the building, and every pad, keeps the invariant of the outcome.
LEMMA NextExact ==
  ExactSound /\ [NextPads]_<<build_vars, pad_vars>> => ExactSound'
<1> SUFFICES ASSUME SoundInv, ExactInv, [NextPads]_<<build_vars, pad_vars>> PROVE SoundInv' /\ ExactInv'
  BY DEF ExactSound
<1>1. SoundInv'
  BY NextSound
<1>2. CASE Build
  BY <1>1, <1>2, BuildExact DEF SoundInv
<1>3. CASE ~ Build
  <2>1. CASE Preroll \/ UNCHANGED <<build_vars, pad_vars>>
    <3>1. UNCHANGED <<cfg, class, stage, elements, conn, out>>
      BY <2>1 DEF Preroll, build_vars
    <3> QED
      BY <1>1, <3>1, ExactKept
  <2>2. CASE RtspRelayPadAdded \/ RtspEncodingPadAdded
    <3>1. UNCHANGED <<cfg, class, stage, elements, conn, out>>
      BY <2>2 DEF RtspRelayPadAdded, RtspEncodingPadAdded, RtspPad
    <3> QED
      BY <1>1, <3>1, ExactKept
  <2>3. ASSUME NEW b \in Bins, PadAdded(b) PROVE ExactInv'
    <3>1. UNCHANGED <<build_vars, source, rtp, rtpLinked>>
      BY <2>3, PadAddedIs
    <3>2. UNCHANGED <<cfg, class, stage, elements, conn, out>>
      BY <3>1 DEF build_vars
    <3> QED
      BY <3>2, ExactKept
  <2> QED
    BY <1>1, <1>3, <2>1, <2>2, <2>3 DEF NextPads
<1> QED
  BY <1>2, <1>3

\* The CHECKs of ElementAdd and ElementLink, and the null elements of the factories,
\* end the process on every configuration Unbuildable lists, and on no other one as
\* long as GStreamer declines nothing; the factory refuses, and a mosaic fails, where
\* the property says so.
THEOREM AbortsStayForeseen == SpecPads => []AbortsAreForeseen
<1>1. InitPads => ExactSound
  BY InitSound, InitExact DEF InitPads, ExactSound
<1>2. ExactSound /\ [NextPads]_<<build_vars, pad_vars>> => ExactSound'
  BY NextExact
<1>3. ExactSound => AbortsAreForeseen
  BY OutcomeExact DEF ExactSound, SoundInv, GraphInv, ExactInv
<1> QED
  BY <1>1, <1>2, <1>3, PTL DEF SpecPads
=============================================================================
