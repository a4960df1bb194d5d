---------------------------- MODULE TimeshiftProofs ----------------------------
(***************************************************************************)
(* Proofs about the files a stream process writes and plays: Timeshift for *)
(* every duration, delay, life time and number of chunks, Catchup for      *)
(* every width of the times, resolution of the file and number of entries, *)
(* and Playlist for every list and number of outputs.                      *)
(***************************************************************************)
EXTENDS Timeshift, Catchup, Playlist, WellFoundedInduction, FiniteSetTheorems, TLAPS

-----------------------------------------------------------------------------
(* The ends of a sorted list of chunks.                                    *)

\* A set of numbers has a least one.
LEMMA LeastNat ==
  ASSUME NEW T \in SUBSET Nat, T # {}
  PROVE  \E x \in T : \A y \in T : x <= y
<1>1. PICK x \in T : \A y \in T : ~(<<y, x>> \in OpToRel(<, Nat))
  BY NatLessThanWellFounded, WFMin
<1>2. ASSUME NEW y \in T PROVE x <= y
  <2>1. <<y, x>> \in Nat \X Nat
    OBVIOUS
  <2>2. ~(y < x)
    BY <1>1, <2>1 DEF OpToRel
  <2> QED
    BY <2>2
<1> QED
  BY <1>2

\* A set of numbers below a bound has a greatest one.
LEMMA GreatestBelow ==
  ASSUME NEW N \in Nat, NEW T \in SUBSET (0..N), T # {}
  PROVE  \E x \in T : \A y \in T : y <= x
<1> DEFINE U == {n \in 0..N : N - n \in T}
<1>1. U # {}
  <2>1. PICK y \in T : TRUE
    OBVIOUS
  <2>2. N - y \in 0..N /\ N - (N - y) = y
    OBVIOUS
  <2> QED
    BY <2>2
<1>2. PICK u \in U : \A v \in U : u <= v
  <2>1. U \in SUBSET Nat
    OBVIOUS
  <2> HIDE DEF U
  <2> QED
    BY <1>1, <2>1, LeastNat
<1>3. ASSUME NEW y \in T PROVE y <= N - u
  <2>1. N - y \in U
    OBVIOUS
  <2> QED
    BY <1>2, <2>1
<1> QED
  BY <1>3

\* The numbers of chunks are natural numbers.
LEMMA IndicesAreNat == Indices \subseteq Nat
BY TimeshiftAssumption DEF Indices

\* LastChunk is what FindLastChunk takes from the back of its sorted list.
LEMMA LastChunkIsLast ==
  ASSUME files \in SUBSET Indices, files # {}
  PROVE  /\ LastChunk \in files
         /\ \A f \in files : f <= LastChunk
<1>1. \E i \in files : \A j \in files : j <= i
  BY GreatestBelow, TimeshiftAssumption DEF Indices
<1> QED
  BY <1>1 DEF LastChunk

\* A search chooses a chunk of its list or none.
LEMMA FindChunkType ==
  ASSUME list \in SUBSET Indices, NEW time
  PROVE  FindChunk(time) \in Indices \cup {NoIndex}
<1> DEFINE M == {i \in list : Matches(desired, time[i])}
<1>1. CASE M = {}
  BY <1>1 DEF FindChunk
<1>2. CASE M # {}
  <2>1. M \in SUBSET Nat
    BY IndicesAreNat
  <2>2. PICK x \in M : \A y \in M : x <= y
    <3> HIDE DEF M
    <3> QED
      BY <1>2, <2>1, LeastNat
  <2> DEFINE c == CHOOSE i \in list : /\ Matches(desired, time[i])
                                      /\ \A j \in list :
                                            Matches(desired, time[j]) => i <= j
  <2>3. c \in list
    BY <2>2
  <2>4. Previous(c) # NoIndex => Previous(c) \in Indices
    <3> DEFINE B == {j \in list : j < c}
    <3>1. CASE B = {}
      BY <3>1 DEF Previous
    <3>2. CASE B # {}
      <4>1. B \in SUBSET (0..MaxIndex)
        BY TimeshiftAssumption DEF Indices
      <4>2. PICK b \in B : \A k \in B : k <= b
        <5> HIDE DEF B
        <5> QED
          BY <3>2, <4>1, GreatestBelow, TimeshiftAssumption
      <4>3. \E j \in list : j < c /\ \A k \in list : k < c => k <= j
        BY <4>2
      <4> HIDE DEF c
      <4>4. Previous(c) \in list
        BY <4>3 DEF Previous
      <4> QED
        BY <4>4
    <3> QED
      BY <3>1, <3>2
  <2>5. FindChunk(time) = IF Diff(desired, time[c]) > 0 /\ Previous(c) # NoIndex
                          THEN Previous(c) ELSE c
    BY <1>2 DEF FindChunk
  <2> HIDE DEF c
  <2> QED
    BY <2>3, <2>4, <2>5
<1> QED
  BY <1>1, <1>2

\* The number a new run should go on with is not below the last chunk's.
LEMMA StrategyGoesOn ==
  ASSUME NEW i \in Nat, NEW t \in Nat, now \in Nat
  PROVE  GetNextChunkStrategy(i, t) \in Nat /\ i <= GetNextChunkStrategy(i, t)
<1>1. now - t > 0 => (now - t) \div ChunkDuration \in Nat
  BY TimeshiftAssumption
<1> QED
  BY <1>1 DEF GetNextChunkStrategy

-----------------------------------------------------------------------------
(* Types.                                                                  *)

\* The chunk that has a name has a number.
NamedIndex == recorder \in {"named", "recording"} => index \in Indices

\* Every step keeps the types.
LEMMA TypeOKStep ==
  TypeOK /\ NamedIndex /\ [Next]_vars => TypeOK' /\ NamedIndex'
<1> SUFFICES ASSUME TypeOK, NamedIndex, [Next]_vars
             PROVE  TypeOK' /\ NamedIndex'
  OBVIOUS
<1> USE TimeshiftAssumption, IndicesAreNat
    DEF TypeOK, NamedIndex, NoIndex, Unsteady, recorder_vars, player_vars
<1>1. CASE SplitmuxsinkCreated
  <2>1. duration' \in Nat \cup {NoIndex}
    <3>1. CASE files = {}
      BY <1>1, <3>1 DEF SplitmuxsinkCreated, ChunkInfo
    <3>2. CASE files # {}
      <4>1. LastChunk \in Nat /\ mtime[LastChunk] \in Nat
        BY <3>2, LastChunkIsLast
      <4> QED
        BY <1>1, <3>2, <4>1, StrategyGoesOn DEF SplitmuxsinkCreated, ChunkInfo
    <3> QED
      BY <3>1, <3>2
  <2> QED
    BY <1>1, <2>1 DEF SplitmuxsinkCreated, ChunkInfo
<1>2. CASE LastChunkVanished
  <2>1. files' \in SUBSET Indices /\ mtime' \in [Indices -> Nat]
    BY <1>2 DEF LastChunkVanished
  <2>2. runs' \in 0..MaxRuns
    BY <1>2 DEF LastChunkVanished
  <2> QED
    BY <1>2, <2>1, <2>2 DEF LastChunkVanished, ChunkInfo
<1>3. CASE OnPathSet
  BY <1>3 DEF OnPathSet
<1>4. CASE OpenChunk
  <2>1. files' \in SUBSET Indices
    BY <1>4 DEF OpenChunk
  <2> QED
    BY <1>4, <2>1 DEF OpenChunk
<1>5. CASE RecorderEnds
  BY <1>5 DEF RecorderEnds
<1>6. ASSUME NEW removed \in SUBSET files, RemoveOldFiles(removed) PROVE TypeOK' /\ NamedIndex'
  BY <1>6 DEF RemoveOldFiles
<1>7. CASE ScanFolder
  BY <1>7 DEF ScanFolder
<1>8. ASSUME NEW unset \in UnsetTimes, FindChunkToPlay(unset) PROVE TypeOK' /\ NamedIndex'
  <2>1. chosen' \in Indices \cup {NoIndex}
    BY <1>8, FindChunkType DEF FindChunkToPlay
  <2> QED
    BY <1>8, <2>1 DEF FindChunkToPlay
<1>9. ASSUME NEW writes \in BOOLEAN, Tick(writes) PROVE TypeOK' /\ NamedIndex'
  <2>1. mtime' \in [Indices -> Nat]
    BY <1>9 DEF Tick
  <2> QED
    BY <1>9, <2>1 DEF Tick
<1>10. CASE UNCHANGED vars
  BY <1>10 DEF vars
<1> QED
  BY <1>1, <1>2, <1>3, <1>4, <1>5, <1>6, <1>7, <1>8, <1>9, <1>10 DEF Next

LEMMA TypeOKInit == Init => TypeOK /\ NamedIndex
BY TimeshiftAssumption DEF Init, TypeOK, NamedIndex, NoIndex, Unsteady

\* Type correctness of recorder and player, of the numbers and times above all:
\* the number of a chunk never leaves its range.
THEOREM TypeCorrect == Spec => []TypeOK
<1> QED
  BY TypeOKInit, TypeOKStep, PTL DEF Spec

-----------------------------------------------------------------------------
(* Numbers, runs and time.                                                 *)

\* No chunk was written after now.
NoFuture == \A i \in Indices : mtime[i] <= now

\* No chunk is of a run that has not begun; before its first chunk a run has none.
OwnerPast ==
    \A i \in Indices : /\ owner[i] <= runs
                       /\ recorder = "built" => owner[i] < runs

\* A run has not named a number above index, and begins without one.
OwnBelow ==
    /\ recorder # "off" => \A f \in files : owner[f] = runs => f <= index
    /\ recorder = "built" => index = NoIndex

\* Below index a run has written every chunk but number 0, and it writes index.
Covered ==
    /\ recorder # "off" => \A f \in files : 0 < f /\ f < index => owner[f] = runs
    /\ recorder = "recording" => owner[index] = runs

\* The name of the next chunk is not that of a chunk of this run.
NameIsFree ==
    recorder = "named" /\ index \in files => owner[index] # runs

OrderInv ==
    /\ TypeOK
    /\ NamedIndex
    /\ NoFuture
    /\ OwnerPast
    /\ OwnBelow
    /\ Covered
    /\ NameIsFree
    /\ ChunksInOrder
    /\ NewerRunsAreLower

LEMMA OrderInvInit == Init => OrderInv
<1> SUFFICES ASSUME Init PROVE OrderInv
  OBVIOUS
<1> QED
  BY TypeOKInit DEF Init, OrderInv, NoFuture, OwnerPast, OwnBelow, Covered,
     NameIsFree, ChunksInOrder, NewerRunsAreLower

\* Every step keeps the order of numbers, runs and times.
LEMMA OrderInvStep == OrderInv /\ [Next]_vars => OrderInv'
<1> SUFFICES ASSUME OrderInv, [Next]_vars PROVE OrderInv'
  OBVIOUS
<1>0. TypeOK' /\ NamedIndex'
  BY TypeOKStep DEF OrderInv
<1> DEFINE Rest == /\ NoFuture /\ OwnerPast /\ OwnBelow /\ Covered /\ NameIsFree
                   /\ ChunksInOrder /\ NewerRunsAreLower
<1> SUFFICES Rest'
  BY <1>0 DEF OrderInv
<1> USE TimeshiftAssumption, IndicesAreNat
    DEF OrderInv, TypeOK, NoIndex, NoFuture, OwnerPast, OwnBelow, Covered,
        NameIsFree, ChunksInOrder, NewerRunsAreLower, recorder_vars, player_vars
<1>1. CASE SplitmuxsinkCreated
  <2>1. /\ UNCHANGED <<files, mtime, now, owner>>
        /\ runs' = runs + 1 /\ recorder' = "built" /\ index' = NoIndex
    BY <1>1 DEF SplitmuxsinkCreated, ChunkInfo
  <2> QED
    BY <2>1
<1>2. CASE LastChunkVanished
  <2>1. /\ LastChunk \in files /\ LastChunk \in Indices
        /\ files' = files \ {LastChunk}
        /\ mtime' = [mtime EXCEPT ![LastChunk] = 0]
        /\ UNCHANGED <<now, owner>>
        /\ runs' = runs + 1 /\ recorder' = "built" /\ index' = NoIndex
    BY <1>2, LastChunkIsLast DEF LastChunkVanished, ChunkInfo
  <2>2. \A f \in files' : f \in files /\ mtime'[f] = mtime[f]
    BY <2>1
  <2>3. \A i \in Indices : mtime'[i] <= now
    BY <2>1
  <2> QED
    BY <2>1, <2>2, <2>3
<1>3. CASE OnPathSet
  <2>1. /\ index' \in Indices /\ index <= index'
        /\ index' \in files => index < index'
    BY <1>3 DEF OnPathSet, CalcNextIndex
  <2>2. /\ UNCHANGED <<files, mtime, now, runs, owner>>
        /\ recorder # "off" /\ recorder' = "named"
    BY <1>3 DEF OnPathSet
  <2>3. \A f \in files : 0 < f /\ f < index' => owner[f] = runs
    <3>1. CASE recorder = "built"
      BY <1>3, <3>1 DEF OnPathSet, CalcNextIndex
    <3>2. CASE recorder = "recording"
      BY <1>3, <3>2 DEF OnPathSet, CalcNextIndex, NamedIndex
    <3> QED
      BY <1>3, <3>1, <3>2 DEF OnPathSet
  <2> QED
    BY <2>1, <2>2, <2>3
<1>4. CASE OpenChunk
  <2>1. /\ index \in Indices /\ recorder = "named" /\ recorder' = "recording"
        /\ files' = files \cup {index}
        /\ UNCHANGED <<now, runs, index>>
        /\ \A f \in Indices : mtime'[f] = IF f = index THEN now ELSE mtime[f]
        /\ \A f \in Indices : owner'[f] = IF f = index THEN runs ELSE owner[f]
    BY <1>4 DEF OpenChunk, NamedIndex
  <2>2. NoFuture' /\ OwnerPast' /\ OwnBelow'
    BY <2>1
  <2>3. Covered' /\ NameIsFree'
    BY <2>1
  <2>4. ChunksInOrder'
    BY <2>1
  <2>5. NewerRunsAreLower'
    BY <2>1
  <2> QED
    BY <2>2, <2>3, <2>4, <2>5
<1>5. CASE RecorderEnds
  BY <1>5 DEF RecorderEnds
<1>6. ASSUME NEW removed \in SUBSET files, RemoveOldFiles(removed) PROVE Rest'
  <2>1. \A f \in files' : f \in files /\ mtime'[f] = mtime[f]
    BY <1>6 DEF RemoveOldFiles
  <2>2. \A i \in Indices : mtime'[i] <= now
    BY <1>6 DEF RemoveOldFiles
  <2>3. UNCHANGED <<now, runs, owner, recorder, index>>
    BY <1>6 DEF RemoveOldFiles
  <2> QED
    BY <2>1, <2>2, <2>3
<1>7. CASE ScanFolder
  BY <1>7 DEF ScanFolder
<1>8. ASSUME NEW unset \in UnsetTimes, FindChunkToPlay(unset) PROVE Rest'
  BY <1>8 DEF FindChunkToPlay
<1>9. ASSUME NEW writes \in BOOLEAN, Tick(writes) PROVE Rest'
  <2>1. /\ now' = now + 1
        /\ UNCHANGED <<files, recorder, index, runs, owner>>
        /\ recorder # "named"
    BY <1>9 DEF Tick
  <2>2. CASE mtime' = mtime
    BY <2>1, <2>2
  <2>3. CASE mtime' # mtime
    <3>1. /\ index \in Indices /\ recorder = "recording"
          /\ \A f \in Indices : mtime'[f] = IF f = index THEN now + 1 ELSE mtime[f]
      BY <1>9, <2>3 DEF Tick, NamedIndex
    <3>2. NoFuture' /\ OwnerPast' /\ OwnBelow' /\ Covered' /\ NameIsFree'
      BY <2>1, <3>1
    <3>3. ChunksInOrder' /\ NewerRunsAreLower'
      BY <2>1, <3>1
    <3> QED
      BY <3>2, <3>3
  <2> QED
    BY <2>2, <2>3
<1>10. CASE UNCHANGED vars
  BY <1>10 DEF vars
<1> QED
  BY <1>1, <1>2, <1>3, <1>4, <1>5, <1>6, <1>7, <1>8, <1>9, <1>10 DEF Next

\* The numbers of the chunks of one run follow the time, over any number of
\* runs, crashes, gaps and clean-ups.
THEOREM NumbersFollowTime == Spec => []ChunksInOrder
<1>1. OrderInv => ChunksInOrder
  BY DEF OrderInv
<1> QED
  BY <1>1, OrderInvInit, OrderInvStep, PTL DEF Spec

\* A later run lies below the earlier ones in the directory.
THEOREM LaterRunsAreLower == Spec => []NewerRunsAreLower
<1>1. OrderInv => NewerRunsAreLower
  BY DEF OrderInv
<1> QED
  BY <1>1, OrderInvInit, OrderInvStep, PTL DEF Spec

\* No run of a recorder writes over a chunk of its own.
THEOREM OwnStay == Spec => OwnChunksStay
<1>1. OrderInv /\ OpenChunk /\ index \in files => owner[index] # runs
  BY DEF OrderInv, NameIsFree, OpenChunk
<1> QED
  BY <1>1, OrderInvInit, OrderInvStep, PTL DEF Spec, OwnChunksStay

\* The order of the chunks over any number of runs, crashes and clean-ups.
THEOREM OrderIsKept == Spec => []ChunksAreOrdered
BY TypeCorrect, NumbersFollowTime, LaterRunsAreLower, PTL DEF ChunksAreOrdered

-----------------------------------------------------------------------------
(* The search.                                                             *)

\* Chunk c is of the running recorder and was finished, if it is, within the
\* length of a chunk after second t, in which it was written.
Covers(c, t) ==
    /\ c \in files /\ owner[c] = runs
    /\ t + 1 <= mtime[c] /\ mtime[c] <= t + MaxLength
    /\ (recorder = "recording" /\ c = index => opened <= t)

\* The open chunk is not longer than splitmuxsink allows; while the recorder
\* writes every second it is there and newer than what earlier runs left.
LiveInv ==
    /\ recorder = "recording" => /\ opened <= now
                                 /\ mtime[index] <= opened + MaxLength
    /\ steady # Unsteady => /\ steady <= now
                            /\ recorder \in {"named", "recording"}
                            /\ (recorder = "recording" => index \in files /\ mtime[index] = now)
                            /\ \A f \in files : owner[f] # runs => mtime[f] <= steady

\* Every second of steady writing is in a chunk, if that is not too old.
CoverInv ==
    steady # Unsteady => \A t \in Int :
        steady <= t /\ t < now /\ now <= t + 1 + LifeTime => \E c \in files : Covers(c, t)

\* A search takes less than a second, and its list has the chunk of every
\* second that was not too old when the directory was scanned. Such a chunk can
\* be removed during the search, then its number is not used again.
ListInv ==
    list # {} =>
        /\ now - Delay - 1 <= desired /\ desired <= now - Delay
        /\ steady # Unsteady => \A t \in Int :
              /\ steady <= t /\ t < desired + Delay /\ desired + Delay <= t + LifeTime
                 => \E c \in list : Covers(c, t)
              /\ steady <= t /\ t < desired + Delay /\ desired + Delay <= t + 1 + LifeTime
                 => \E c \in list : Covers(c, t) \/ (c \notin files /\ c < index)

SearchInv == OrderInv /\ LiveInv /\ CoverInv /\ ListInv

\* A chunk goes on to cover a second when neither it nor the run changes.
LEMMA CoversKept ==
  ASSUME NEW c, NEW t, Covers(c, t), runs' = runs, c \in files',
         owner'[c] = owner[c], mtime'[c] = mtime[c],
         recorder' = "recording" /\ c = index' => opened' <= t
  PROVE  Covers(c, t)'
BY DEF Covers

\* Without steady writing there is little to keep.
LEMMA UnsteadyStep ==
  ASSUME SearchInv, OrderInv', steady' = Unsteady,
         recorder' = "recording" => opened' <= now' /\ mtime'[index'] <= opened' + MaxLength,
         list' # {} => now' - Delay - 1 <= desired' /\ desired' <= now' - Delay
  PROVE  SearchInv'
BY DEF SearchInv, LiveInv, CoverInv, ListInv

\* A step that keeps the chunks that cover a second, and the numbers below the
\* one in use, keeps what is covered.
LEMMA CoveredStep ==
  ASSUME SearchInv, UNCHANGED <<now, steady, list, desired>>,
         \A t \in Int : \A c \in files :
             Covers(c, t) /\ now <= t + 1 + LifeTime => Covers(c, t)',
         \A t \in Int : \A c \in Indices :
             Covers(c, t) \/ (c \notin files /\ c < index)
                 => Covers(c, t)' \/ (c \notin files' /\ c < index')
  PROVE  CoverInv' /\ ListInv'
<1> USE TimeshiftAssumption, IndicesAreNat DEF SearchInv, OrderInv, TypeOK, Unsteady
<1>1. CoverInv'
  <2> SUFFICES ASSUME steady # Unsteady, NEW t \in Int,
                      steady <= t, t < now, now <= t + 1 + LifeTime
               PROVE  \E c \in files' : Covers(c, t)'
    BY DEF CoverInv
  <2>1. PICK c \in files : Covers(c, t)
    BY DEF CoverInv
  <2>2. Covers(c, t)'
    BY <2>1
  <2> QED
    BY <2>2 DEF Covers
<1>2. ASSUME list # {}, steady # Unsteady, NEW t \in Int,
             steady <= t, t < desired + Delay, desired + Delay <= t + LifeTime
      PROVE  \E c \in list : Covers(c, t)'
  <2>1. PICK c \in list : Covers(c, t)
    BY <1>2 DEF ListInv
  <2>2. now <= t + 1 + LifeTime
    BY <1>2 DEF ListInv
  <2>3. c \in files
    BY <2>1 DEF Covers
  <2> QED
    BY <2>1, <2>2, <2>3
<1>3. ASSUME list # {}, steady # Unsteady, NEW t \in Int,
             steady <= t, t < desired + Delay, desired + Delay <= t + 1 + LifeTime
      PROVE  \E c \in list : Covers(c, t)' \/ (c \notin files' /\ c < index')
  <2>1. PICK c \in list : Covers(c, t) \/ (c \notin files /\ c < index)
    BY <1>3 DEF ListInv
  <2> QED
    BY <2>1
<1>4. list # {} => now - Delay - 1 <= desired /\ desired <= now - Delay
  BY DEF ListInv
<1>5. ListInv'
  BY <1>2, <1>3, <1>4 DEF ListInv
<1> QED
  BY <1>1, <1>5

\* The invariant holds in the beginning.
LEMMA SearchInvInit == Init => SearchInv
<1> SUFFICES ASSUME Init PROVE SearchInv
  OBVIOUS
<1>1. OrderInv
  BY OrderInvInit
<1> QED
  BY <1>1 DEF Init, SearchInv, LiveInv, CoverInv, ListInv, Unsteady

\* Every step keeps what the search relies on.
LEMMA SearchInvStep == SearchInv /\ [Next]_vars => SearchInv'
<1> SUFFICES ASSUME SearchInv, [Next]_vars PROVE SearchInv'
  OBVIOUS
<1>0. OrderInv /\ OrderInv' /\ TypeOK /\ NamedIndex
  BY OrderInvStep DEF SearchInv, OrderInv
<1>a. /\ now \in Nat /\ files \in SUBSET Indices /\ mtime \in [Indices -> Nat] /\ opened \in Nat
      /\ owner \in [Indices -> 0..MaxRuns] /\ steady \in Nat \cup {Unsteady}
      /\ list \in SUBSET Indices /\ desired \in Int /\ runs \in Nat
      /\ index \in Nat \cup {NoIndex}
  BY <1>0, TimeshiftAssumption DEF TypeOK
<1>b. /\ MaxLength \in Nat /\ 1 <= MaxLength /\ Delay \in Nat /\ LifeTime \in Nat
      /\ Indices \subseteq Nat
  BY TimeshiftAssumption, IndicesAreNat
<1>c. list # {} => now - Delay - 1 <= desired /\ desired <= now - Delay
  BY DEF SearchInv, ListInv
<1>d. \A t : \A c \in files : Covers(c, t) /\ recorder # "off" => c <= index
  BY <1>0 DEF OrderInv, OwnBelow, Covers
<1>e. \A t : \A c \in files : Covers(c, t) /\ recorder = "named" => c # index
  BY <1>0 DEF OrderInv, NameIsFree, Covers
<1>1. CASE SplitmuxsinkCreated
  <2>1. steady' = Unsteady /\ recorder' = "built" /\ UNCHANGED <<now, list, desired>>
    BY <1>1 DEF SplitmuxsinkCreated, player_vars, SearchInv, LiveInv
  <2> QED
    BY <1>0, <1>c, <2>1, UnsteadyStep
<1>2. CASE LastChunkVanished
  <2>1. steady' = Unsteady /\ recorder' = "built" /\ UNCHANGED <<now, list, desired>>
    BY <1>2 DEF LastChunkVanished, player_vars, SearchInv, LiveInv
  <2> QED
    BY <1>0, <1>c, <2>1, UnsteadyStep
<1>3. CASE OnPathSet
  <2>1. /\ recorder' = "named" /\ UNCHANGED <<now, files, mtime, runs, owner, steady, list, desired>>
        /\ recorder = "built" \/ recorder = "recording"
    BY <1>3 DEF OnPathSet, player_vars
  <2>2. index <= index' /\ index' \in Nat
    BY <1>3, <1>a, <1>b DEF OnPathSet, CalcNextIndex, NoIndex
  <2>3. \A t \in Int : \A c \in Indices : Covers(c, t) => Covers(c, t)'
    BY <2>1 DEF Covers
  <2>4. \A t \in Int : \A c \in Indices :
           Covers(c, t) \/ (c \notin files /\ c < index)
               => Covers(c, t)' \/ (c \notin files' /\ c < index')
    BY <1>a, <1>b, <2>1, <2>2, <2>3 DEF NoIndex
  <2>5. CoverInv' /\ ListInv'
    BY <1>a, <2>1, <2>3, <2>4, CoveredStep
  <2>6. LiveInv'
    BY <2>1 DEF SearchInv, LiveInv
  <2> QED
    BY <1>0, <2>5, <2>6 DEF SearchInv
<1>4. CASE OpenChunk
  <2>1. /\ index \in Indices /\ recorder = "named" /\ recorder' = "recording"
        /\ files' = files \cup {index} /\ opened' = now
        /\ UNCHANGED <<now, runs, index, list, desired>>
        /\ steady' = IF steady = Unsteady THEN now ELSE steady
        /\ \A f \in Indices : mtime'[f] = IF f = index THEN now ELSE mtime[f]
        /\ \A f \in Indices : owner'[f] = IF f = index THEN runs ELSE owner[f]
    BY <1>0, <1>4, <1>a DEF OpenChunk, NamedIndex, player_vars
  <2>2. LiveInv'
    <3>1. opened' <= now' /\ mtime'[index'] <= opened' + MaxLength /\ mtime'[index'] = now'
      BY <1>a, <1>b, <2>1
    <3>2. steady' <= now' /\ \A f \in files' : owner'[f] # runs' => mtime'[f] <= steady'
      <4>1. ASSUME NEW f \in files', owner'[f] # runs' PROVE mtime'[f] <= steady'
        <5>1. f \in files /\ owner[f] # runs /\ mtime'[f] = mtime[f]
          BY <1>a, <2>1, <4>1
        <5>2. CASE steady = Unsteady
          BY <1>0, <1>a, <2>1, <5>1, <5>2 DEF OrderInv, NoFuture
        <5>3. CASE steady # Unsteady
          BY <2>1, <5>1, <5>3 DEF SearchInv, LiveInv
        <5> QED
          BY <5>2, <5>3
      <4>2. steady' <= now'
        BY <1>a, <2>1 DEF SearchInv, LiveInv
      <4> QED
        BY <4>1, <4>2
    <3>3. index' \in files'
      BY <2>1
    <3> QED
      BY <2>1, <3>1, <3>2, <3>3 DEF LiveInv
  <2>3. CASE steady = Unsteady
    <3>1. steady' = now /\ now' = now
      BY <2>1, <2>3
    <3>2. CoverInv'
      BY <1>a, <3>1 DEF CoverInv
    <3>3. ListInv'
      BY <1>a, <1>b, <1>c, <2>1, <3>1 DEF ListInv
    <3> QED
      BY <1>0, <2>2, <3>2, <3>3 DEF SearchInv
  <2>4. CASE steady # Unsteady
    <3>1. ASSUME NEW t \in Int, NEW c \in Indices, Covers(c, t) PROVE Covers(c, t)'
      <4>1. c \in files /\ c # index
        BY <1>e, <2>1, <3>1 DEF Covers
      <4>2. c \in files' /\ mtime'[c] = mtime[c] /\ owner'[c] = owner[c]
        BY <2>1, <4>1
      <4> QED
        BY <2>1, <3>1, <4>1, <4>2, CoversKept
    <3>2. \A t \in Int : \A c \in Indices :
             Covers(c, t) \/ (c \notin files /\ c < index)
                 => Covers(c, t)' \/ (c \notin files' /\ c < index')
      <4>1. \A c \in Indices : c \notin files /\ c < index => c \notin files' /\ c < index'
        BY <1>b, <2>1
      <4> QED
        BY <3>1, <4>1
    <3>3. CoverInv' /\ ListInv'
      <4>1. UNCHANGED <<now, steady, list, desired>>
        BY <2>1, <2>4
      <4> QED
        BY <1>a, <3>1, <3>2, <4>1, CoveredStep
    <3> QED
      BY <1>0, <2>2, <3>3 DEF SearchInv
  <2> QED
    BY <2>3, <2>4
<1>5. CASE RecorderEnds
  <2>1. steady' = Unsteady /\ recorder' = "off" /\ UNCHANGED <<now, list, desired>>
    BY <1>5 DEF RecorderEnds, player_vars
  <2> QED
    BY <1>0, <1>c, <2>1, UnsteadyStep
<1>6. ASSUME NEW removed \in SUBSET files, RemoveOldFiles(removed) PROVE SearchInv'
  <2>1. /\ \A i \in removed : mtime[i] < now - LifeTime
        /\ files' = files \ removed
        /\ \A i \in Indices : mtime'[i] = IF i \in removed THEN 0 ELSE mtime[i]
        /\ UNCHANGED <<now, recorder, index, opened, runs, owner, steady, list, desired>>
    BY <1>6 DEF RemoveOldFiles, Expired, recorder_vars, player_vars
  <2>2. LiveInv'
    <3>1. recorder = "recording" => /\ opened <= now /\ index \in Indices
                                    /\ mtime'[index] <= opened + MaxLength
      BY <1>0, <1>a, <1>b, <2>1 DEF SearchInv, LiveInv, NamedIndex
    <3>2. steady # Unsteady =>
             /\ steady <= now /\ recorder \in {"named", "recording"}
             /\ (recorder = "recording" => index \in files' /\ mtime'[index] = now)
      BY <1>a, <1>b, <2>1 DEF SearchInv, LiveInv
    <3>3. steady # Unsteady => \A f \in files' : owner[f] # runs => mtime'[f] <= steady
      BY <1>a, <2>1 DEF SearchInv, LiveInv
    <3> QED
      BY <2>1, <3>1, <3>2, <3>3 DEF LiveInv
  <2>3. CASE steady = Unsteady
    <3>1. recorder' = "recording" => opened' <= now' /\ mtime'[index'] <= opened' + MaxLength
      BY <2>2 DEF LiveInv
    <3> QED
      BY <1>0, <1>c, <2>1, <2>3, <3>1, UnsteadyStep
  <2>4. CASE steady # Unsteady
    <3>1. ASSUME NEW t \in Int, NEW c \in Indices, Covers(c, t), c \notin removed
          PROVE  Covers(c, t)'
      BY <2>1, <3>1 DEF Covers
    <3>2. \A t \in Int : \A c \in files :
             Covers(c, t) /\ now <= t + 1 + LifeTime => Covers(c, t)'
      <4>1. ASSUME NEW t \in Int, NEW c \in files, Covers(c, t), now <= t + 1 + LifeTime
            PROVE  c \notin removed
        BY <1>a, <1>b, <2>1, <4>1 DEF Covers
      <4> QED
        BY <1>a, <3>1, <4>1
    <3>3. ASSUME NEW t \in Int, NEW c \in Indices,
                 Covers(c, t) \/ (c \notin files /\ c < index)
          PROVE  Covers(c, t)' \/ (c \notin files' /\ c < index')
      <4>1. CASE c \notin removed
        BY <2>1, <3>1, <3>3, <4>1
      <4>2. CASE c \in removed
        <5>1. Covers(c, t) /\ c \in files /\ mtime[c] < now - LifeTime
          BY <2>1, <3>3, <4>2
        <5>2. recorder \in {"named", "recording"} /\ c <= index
          BY <1>d, <2>4, <5>1 DEF SearchInv, LiveInv
        <5>3. c # index
          <6>1. CASE recorder = "named"
            BY <1>e, <5>1, <6>1
          <6>2. CASE recorder = "recording"
            <7>1. mtime[index] = now
              BY <2>4, <6>2 DEF SearchInv, LiveInv
            <7> QED
              BY <1>a, <1>b, <5>1, <7>1
          <6> QED
            BY <5>2, <6>1, <6>2
        <5>4. c \in Nat /\ index \in Int /\ c \notin files' /\ index' = index
          BY <1>a, <1>b, <2>1, <4>2 DEF NoIndex
        <5> QED
          BY <5>2, <5>3, <5>4
      <4> QED
        BY <4>1, <4>2
    <3>4. UNCHANGED <<now, steady, list, desired>>
      BY <2>1
    <3>5. CoverInv' /\ ListInv'
      BY <3>2, <3>3, <3>4, CoveredStep
    <3> QED
      BY <1>0, <2>2, <3>5 DEF SearchInv
  <2> QED
    BY <2>3, <2>4
<1>7. CASE ScanFolder
  <2>1. /\ desired' = now - Delay /\ list' = files
        /\ UNCHANGED <<now, files, mtime, recorder, index, opened, runs, owner, steady>>
    BY <1>7 DEF ScanFolder, recorder_vars
  <2>2. \A c, t : Covers(c, t)' <=> Covers(c, t)
    BY <2>1 DEF Covers
  <2>3. LiveInv' /\ CoverInv'
    BY <2>1, <2>2 DEF SearchInv, LiveInv, CoverInv
  <2>4. desired' \in Int /\ desired' + Delay = now /\ now' - Delay - 1 <= desired' /\ desired' <= now' - Delay
    BY <1>a, <1>b, <2>1
  <2>5. ASSUME steady # Unsteady, NEW t \in Int, steady <= t, t < now, now <= t + 1 + LifeTime
        PROVE  \E c \in files : Covers(c, t)
    BY <2>5 DEF SearchInv, CoverInv
  <2>6. ListInv'
    <3>1. \A t \in Int : now <= t + LifeTime => now <= t + 1 + LifeTime
      BY <1>a, <1>b
    <3> QED
      BY <2>1, <2>2, <2>4, <2>5, <3>1 DEF ListInv
  <2> QED
    BY <1>0, <2>3, <2>6 DEF SearchInv
<1>8. ASSUME NEW unset \in UnsetTimes, FindChunkToPlay(unset) PROVE SearchInv'
  <2>1. /\ list' = {}
        /\ UNCHANGED <<now, files, mtime, recorder, index, opened, runs, owner, steady>>
    BY <1>8 DEF FindChunkToPlay, recorder_vars
  <2>2. \A c, t : Covers(c, t)' <=> Covers(c, t)
    BY <2>1 DEF Covers
  <2>3. LiveInv' /\ CoverInv' /\ ListInv'
    BY <2>1, <2>2 DEF SearchInv, LiveInv, CoverInv, ListInv
  <2> QED
    BY <1>0, <2>3 DEF SearchInv
<1>9. ASSUME NEW writes \in BOOLEAN, Tick(writes) PROVE SearchInv'
  <2>1. /\ now' = now + 1 /\ (list # {} => desired = now - Delay)
        /\ UNCHANGED <<files, recorder, index, opened, runs, owner, list, desired>>
    BY <1>9 DEF Tick
  <2>2. list' # {} => now' - Delay - 1 <= desired' /\ desired' <= now' - Delay
    BY <1>a, <1>b, <2>1
  <2>3. recorder' = "recording" => opened' <= now' /\ mtime'[index'] <= opened' + MaxLength
    <3> SUFFICES ASSUME recorder = "recording"
                 PROVE  opened <= now + 1 /\ mtime'[index] <= opened + MaxLength
      BY <2>1
    <3>1. /\ opened <= now /\ mtime[index] <= opened + MaxLength /\ index \in Indices
      BY <1>0 DEF SearchInv, LiveInv, NamedIndex
    <3>2. CASE mtime' = mtime
      BY <1>a, <3>1, <3>2
    <3>3. CASE mtime' # mtime
      <4>1. now - opened < MaxLength /\ mtime'[index] = now + 1
        BY <1>9, <1>a, <3>1, <3>3 DEF Tick
      <4> QED
        BY <1>a, <1>b, <3>1, <4>1
    <3> QED
      BY <3>2, <3>3
  <2>4. CASE steady' = Unsteady
    BY <1>0, <2>2, <2>3, <2>4, UnsteadyStep
  <2>5. CASE steady' # Unsteady
    <3>1. writes /\ steady' = steady /\ recorder = "recording" /\ now - opened < MaxLength
      BY <1>9, <2>5 DEF Tick
    <3>2. index \in files /\ index \in Indices /\ mtime[index] = now /\ steady <= now /\ opened <= now
      BY <1>a, <2>5, <3>1 DEF SearchInv, LiveInv
    <3>3. \A f \in Indices : mtime'[f] = IF f = index THEN now + 1 ELSE mtime[f]
      BY <1>9, <1>a, <3>1, <3>2 DEF Tick
    <3>4. owner[index] = runs
      BY <1>0, <3>1 DEF OrderInv, Covered
    <3>5. ASSUME NEW t \in Int, NEW c \in Indices, Covers(c, t) PROVE Covers(c, t)'
      <4>1. CASE c = index
        <5>1. opened <= t /\ t + 1 <= now
          BY <3>1, <3>2, <3>5, <4>1 DEF Covers
        <5>2. t + 1 <= now + 1 /\ now + 1 <= t + MaxLength
          BY <1>a, <1>b, <3>1, <5>1
        <5> QED
          BY <2>1, <3>2, <3>3, <3>4, <4>1, <5>1, <5>2 DEF Covers
      <4>2. CASE c # index
        BY <2>1, <3>3, <3>5, <4>2 DEF Covers
      <4> QED
        BY <4>1, <4>2
    <3>6. ASSUME NEW t \in Int, NEW c \in Indices, t = now, c = index PROVE Covers(c, t)'
      <4>1. t + 1 <= now + 1 /\ now + 1 <= t + MaxLength
        BY <1>a, <1>b, <3>6
      <4>2. owner'[c] = runs' /\ c \in files' /\ opened' <= t /\ mtime'[c] = now + 1
        BY <2>1, <3>2, <3>3, <3>4, <3>6
      <4> QED
        BY <4>1, <4>2 DEF Covers
    <3>7. LiveInv'
      <4>1. steady' <= now' /\ index' \in files' /\ mtime'[index'] = now'
        BY <1>a, <2>1, <3>1, <3>2, <3>3
      <4>2. \A f \in files' : owner'[f] # runs' => mtime'[f] <= steady'
        BY <1>a, <2>1, <2>5, <3>1, <3>3, <3>4 DEF SearchInv, LiveInv
      <4> QED
        BY <2>1, <2>3, <3>1, <4>1, <4>2 DEF LiveInv
    <3>8. CoverInv'
      <4> SUFFICES ASSUME NEW t \in Int, steady <= t, t < now + 1, now + 1 <= t + 1 + LifeTime
                   PROVE  \E c \in files' : Covers(c, t)'
        BY <2>1, <3>1 DEF CoverInv
      <4>1. CASE t = now
        <5>1. \A c \in Indices : c = index => Covers(c, t)'
          BY <3>6, <4>1
        <5> QED
          BY <2>1, <3>2, <5>1
      <4>2. CASE t # now
        <5>1. t < now /\ now <= t + 1 + LifeTime
          BY <1>a, <1>b, <4>2
        <5>2. PICK c \in files : Covers(c, t)
          BY <2>5, <3>1, <5>1 DEF SearchInv, CoverInv
        <5>3. c \in Indices /\ c \in files'
          BY <1>a, <2>1
        <5> QED
          BY <3>5, <5>2, <5>3
      <4> QED
        BY <4>1, <4>2
    <3>9. ListInv'
      <4>1. ASSUME list # {}, NEW t \in Int,
                   steady <= t, t < desired + Delay, desired + Delay <= t + LifeTime
            PROVE  \E c \in list : Covers(c, t)'
        <5>1. PICK c \in list : Covers(c, t)
          BY <2>5, <3>1, <4>1 DEF SearchInv, ListInv
        <5> QED
          BY <1>a, <3>5, <5>1
      <4>2. ASSUME list # {}, NEW t \in Int,
                   steady <= t, t < desired + Delay, desired + Delay <= t + 1 + LifeTime
            PROVE  \E c \in list : Covers(c, t)' \/ (c \notin files' /\ c < index')
        <5>1. PICK c \in list : Covers(c, t) \/ (c \notin files /\ c < index)
          BY <2>5, <3>1, <4>2 DEF SearchInv, ListInv
        <5> QED
          BY <1>a, <2>1, <3>5, <5>1
      <4> QED
        BY <2>1, <2>2, <3>1, <4>1, <4>2 DEF ListInv
    <3> QED
      BY <1>0, <3>7, <3>8, <3>9 DEF SearchInv
  <2> QED
    BY <2>4, <2>5
<1>10. CASE UNCHANGED vars
  <2>1. UNCHANGED <<now, files, mtime, recorder, index, opened, runs, owner, steady, list, desired>>
    BY <1>10 DEF vars, recorder_vars, player_vars
  <2>2. \A c, t : Covers(c, t)' <=> Covers(c, t)
    BY <2>1 DEF Covers
  <2>3. LiveInv' /\ CoverInv' /\ ListInv'
    BY <2>1, <2>2 DEF SearchInv, LiveInv, CoverInv, ListInv
  <2> QED
    BY <1>0, <2>3 DEF SearchInv
<1> QED
  BY <1>1, <1>2, <1>3, <1>4, <1>5, <1>6, <1>7, <1>8, <1>9, <1>10 DEF Next

-----------------------------------------------------------------------------

\* What FindChunk chooses: the first chunk that matches, or the one in front of
\* it.
LEMMA FindChunkResult ==
  ASSUME list \in SUBSET Indices, NEW time
  PROVE  \/ /\ FindChunk(time) = NoIndex
            /\ \A i \in list : ~Matches(desired, time[i])
         \/ \E i \in list :
              /\ Matches(desired, time[i])
              /\ \/ FindChunk(time) = i
                 \/ /\ Diff(desired, time[i]) > 0
                    /\ FindChunk(time) \in list /\ FindChunk(time) < i
                    /\ \A k \in list : k < i => k <= FindChunk(time)
<1> DEFINE M == {i \in list : Matches(desired, time[i])}
<1>1. CASE M = {}
  BY <1>1 DEF FindChunk
<1>2. CASE M # {}
  <2>1. M \in SUBSET Nat
    BY IndicesAreNat
  <2>2. PICK x \in M : \A y \in M : x <= y
    <3> HIDE DEF M
    <3> QED
      BY <1>2, <2>1, LeastNat
  <2> DEFINE c == CHOOSE i \in list : /\ Matches(desired, time[i])
                                      /\ \A j \in list :
                                            Matches(desired, time[j]) => i <= j
  <2>3. c \in list /\ Matches(desired, time[c])
    BY <2>2
  <2>4. FindChunk(time) = IF Diff(desired, time[c]) > 0 /\ Previous(c) # NoIndex
                          THEN Previous(c) ELSE c
    BY <1>2 DEF FindChunk
  <2> HIDE DEF c
  <2>5. Previous(c) # NoIndex => /\ Previous(c) \in list /\ Previous(c) < c
                                 /\ \A k \in list : k < c => k <= Previous(c)
    <3> DEFINE B == {j \in list : j < c}
    <3>1. CASE B = {}
      BY <3>1 DEF Previous
    <3>2. CASE B # {}
      <4>1. B \in SUBSET (0..MaxIndex)
        BY TimeshiftAssumption DEF Indices
      <4>2. PICK b \in B : \A k \in B : k <= b
        <5> HIDE DEF B
        <5> QED
          BY <3>2, <4>1, GreatestBelow, TimeshiftAssumption
      <4>3. \E j \in list : j < c /\ \A k \in list : k < c => k <= j
        BY <4>2
      <4> QED
        BY <4>3 DEF Previous
    <3> QED
      BY <3>1, <3>2
  <2>6. CASE Diff(desired, time[c]) > 0 /\ Previous(c) # NoIndex
    <3>1. FindChunk(time) = Previous(c)
      BY <2>4, <2>6
    <3> QED
      BY <2>3, <2>5, <2>6, <3>1
  <2>7. CASE ~(Diff(desired, time[c]) > 0 /\ Previous(c) # NoIndex)
    <3>1. FindChunk(time) = c
      BY <2>4, <2>7
    <3> QED
      BY <2>3, <3>1
  <2> QED
    BY <2>6, <2>7
<1> QED
  BY <1>1, <1>2

\* Only the second half of a search empties the list.
LEMMA SearchEnds ==
  ASSUME [Next]_vars, list # {}, list' = {}
  PROVE  \E unset \in UnsetTimes :
            chosen' = FindChunk([i \in list |-> IF i \in files THEN mtime[i] ELSE unset])
<1>1. CASE \E unset \in UnsetTimes : FindChunkToPlay(unset)
  BY <1>1 DEF FindChunkToPlay
<1>2. CASE UNCHANGED list
  BY <1>2
<1>3. CASE ScanFolder
  BY <1>3 DEF ScanFolder
<1>4. \/ \E unset \in UnsetTimes : FindChunkToPlay(unset)
      \/ UNCHANGED list \/ ScanFolder
  BY DEF Next, SplitmuxsinkCreated, LastChunkVanished, OnPathSet, OpenChunk, RecorderEnds,
         RemoveOldFiles, Tick, vars, player_vars
<1> QED
  BY <1>1, <1>2, <1>3, <1>4

\* Both ways an undisturbed search can end: in a chunk near the desired time.
LEMMA NearDesired ==
  ASSUME SearchInv, [Next]_vars, Undisturbed, list' = {}, chosen' # NoIndex
  PROVE  /\ OneRun => mtime[chosen'] < desired + 2 * ChunkDuration
         /\ /\ steady # Unsteady /\ steady <= desired - MaxLength
            /\ Delay + MaxLength <= LifeTime + 1
            => mtime[chosen'] >= desired - MaxLength
<1>0. OrderInv /\ TypeOK /\ list # {} /\ list \subseteq files
  BY DEF SearchInv, OrderInv, Undisturbed
<1>a. /\ now \in Nat /\ files \in SUBSET Indices /\ mtime \in [Indices -> Nat]
      /\ steady \in Nat \cup {Unsteady} /\ desired \in Int /\ list \in SUBSET Indices
      /\ index \in Int
  BY <1>0 DEF TypeOK, NoIndex
<1>b. /\ ChunkDuration \in Nat /\ MaxLength \in Nat /\ Delay \in Nat /\ LifeTime \in Nat
      /\ 1 <= MaxLength /\ Indices \subseteq Nat
  BY TimeshiftAssumption, IndicesAreNat
<1>1. PICK unset \in UnsetTimes :
         chosen' = FindChunk([i \in list |-> IF i \in files THEN mtime[i] ELSE unset])
  BY <1>0, SearchEnds
<1> DEFINE time == [i \in list |-> IF i \in files THEN mtime[i] ELSE unset]
<1>2. \A i \in list : time[i] = mtime[i]
  BY <1>0
<1>3. chosen' = FindChunk(time)
  BY <1>1
<1> HIDE DEF time
<1>4. PICK i \in list :
         /\ Matches(desired, time[i])
         /\ \/ chosen' = i
            \/ /\ Diff(desired, time[i]) > 0
               /\ chosen' \in list /\ chosen' < i
               /\ \A k \in list : k < i => k <= chosen'
  BY <1>3, <1>a, FindChunkResult
<1>5. i \in files /\ mtime[i] \in Nat /\ desired < mtime[i] /\ mtime[i] < desired + 2 * ChunkDuration
  BY <1>0, <1>2, <1>4, <1>a, <1>b DEF Matches, Diff
<1>6. CASE chosen' = i
  BY <1>5, <1>6, <1>a, <1>b
<1>7. CASE chosen' # i
  <2>1. /\ chosen' \in files /\ chosen' < i /\ mtime[chosen'] \in Nat
        /\ \A k \in list : k < i => k <= chosen'
    BY <1>0, <1>4, <1>7, <1>a
  <2>2. OneRun => mtime[chosen'] < desired + 2 * ChunkDuration
    <3>1. ASSUME OneRun PROVE mtime[chosen'] <= mtime[i]
      BY <1>0, <1>4, <1>5, <1>7, <2>1, <3>1 DEF OneRun, OrderInv, ChunksInOrder
    <3> QED
      BY <1>5, <1>a, <1>b, <2>1, <3>1
  <2>3. ASSUME steady # Unsteady, steady <= desired - MaxLength,
               Delay + MaxLength <= LifeTime + 1
        PROVE  mtime[chosen'] >= desired - MaxLength
    <3> DEFINE t == desired - MaxLength
    <3>1. t \in Int /\ steady <= t /\ t < desired + Delay /\ desired + Delay <= t + 1 + LifeTime
      BY <1>a, <1>b, <2>3
    <3>2. PICK c \in list : Covers(c, t) \/ (c \notin files /\ c < index)
      <4> HIDE DEF t
      <4> QED
        BY <1>0, <2>3, <3>1 DEF SearchInv, ListInv
    <3>3. /\ c \in files /\ owner[c] = runs /\ c \in Nat
          /\ desired - MaxLength + 1 <= mtime[c] /\ mtime[c] <= desired
      BY <1>0, <1>a, <1>b, <3>2 DEF Covers
    <3>4. /\ recorder \in {"named", "recording"}
          /\ \A f \in files : owner[f] # runs => mtime[f] <= steady
      BY <2>3 DEF SearchInv, LiveInv
    <3>5. owner[i] = runs
      BY <1>5, <1>a, <1>b, <2>3, <3>4
    <3>6. c < i
      <4>1. i \in Nat /\ ~(i <= c /\ i # c)
        <5>1. i < c => mtime[i] <= mtime[c]
          BY <1>0, <1>5, <3>3, <3>5 DEF OrderInv, ChunksInOrder
        <5>2. i \in Nat /\ mtime[c] \in Nat
          BY <1>a, <1>b, <1>5, <3>3
        <5> QED
          BY <1>5, <1>a, <3>3, <5>1, <5>2
      <4>2. i # c
        BY <1>5, <1>a, <3>3
      <4> QED
        BY <3>3, <4>1, <4>2
    <3>7. c <= chosen'
      BY <2>1, <3>6
    <3>8. CASE chosen' = c
      BY <1>a, <1>b, <3>3, <3>8
    <3>9. CASE chosen' # c
      <4>1. chosen' \in Nat /\ c < chosen' /\ 0 < chosen'
        BY <1>a, <1>b, <2>1, <3>3, <3>7, <3>9
      <4>2. i <= index
        BY <1>0, <1>5, <3>4, <3>5 DEF OrderInv, OwnBelow
      <4>3. chosen' < index
        BY <1>5, <1>a, <1>b, <2>1, <4>1, <4>2
      <4>4. owner[chosen'] = runs
        BY <1>0, <2>1, <3>4, <4>1, <4>3 DEF OrderInv, Covered
      <4>5. mtime[c] <= mtime[chosen']
        BY <1>0, <2>1, <3>3, <4>1, <4>4 DEF OrderInv, ChunksInOrder
      <4> QED
        BY <1>a, <1>b, <2>1, <3>3, <4>5
    <3> QED
      BY <3>8, <3>9
  <2> QED
    BY <2>2, <2>3
<1> QED
  BY <1>6, <1>7

\* What was recorded steadily at the desired time is found.
LEMMA RecordedFound ==
  ASSUME SearchInv, [Next]_vars, Delay > 0, Delay < LifeTime,
         MaxLength <= 2 * ChunkDuration - 2, list # {}, list' = {},
         steady # Unsteady, steady <= desired
  PROVE  chosen' # NoIndex
<1>a. /\ files \in SUBSET Indices /\ mtime \in [Indices -> Nat]
      /\ steady \in Nat \cup {Unsteady} /\ desired \in Int /\ list \in SUBSET Indices
  BY DEF SearchInv, OrderInv, TypeOK
<1>b. /\ ChunkDuration \in Nat /\ MaxLength \in Nat /\ Delay \in Nat /\ LifeTime \in Nat
      /\ Indices \subseteq Nat
  BY TimeshiftAssumption, IndicesAreNat
<1>1. PICK unset \in UnsetTimes :
         chosen' = FindChunk([i \in list |-> IF i \in files THEN mtime[i] ELSE unset])
  BY SearchEnds
<1> DEFINE time == [i \in list |-> IF i \in files THEN mtime[i] ELSE unset]
<1>2. \A i \in list : i \in files => time[i] = mtime[i]
  OBVIOUS
<1>3. chosen' = FindChunk(time)
  BY <1>1
<1> HIDE DEF time
<1>4. desired < desired + Delay /\ desired + Delay <= desired + LifeTime
  BY <1>a, <1>b
<1>5. PICK c \in list : Covers(c, desired)
  BY <1>4, <1>a DEF SearchInv, ListInv
<1>6. time[c] = mtime[c] /\ mtime[c] \in Nat /\ desired + 1 <= mtime[c] /\ mtime[c] <= desired + MaxLength
  BY <1>2, <1>5, <1>a DEF Covers
<1>7. Matches(desired, time[c])
  BY <1>6, <1>a, <1>b DEF Matches, Diff
<1>8. FindChunk(time) \in list
  BY <1>7, <1>a, FindChunkResult
<1> QED
  BY <1>3, <1>8, <1>a, <1>b DEF NoIndex

\* A player finds what was recorded, and starts near the desired time, for every
\* duration, length and life of chunks, every delay, and any interleaving of
\* recorder, clean-ups and search.
THEOREM SearchesSucceed == Spec => SearchSucceeds
<1>1. SearchInv /\ [Next]_vars =>
        ( Undisturbed /\ list' = {} /\ chosen' # NoIndex =>
          /\ OneRun => mtime[chosen'] < desired + 2 * ChunkDuration
          /\ /\ steady # Unsteady /\ steady <= desired - MaxLength
             /\ Delay + MaxLength <= LifeTime + 1
             => mtime[chosen'] >= desired - MaxLength )
  BY NearDesired
<1>2. SearchInv /\ [Next]_vars =>
        ( /\ Delay > 0 /\ Delay < LifeTime /\ MaxLength <= 2 * ChunkDuration - 2
          /\ list # {} /\ list' = {}
          /\ steady # Unsteady /\ steady <= desired
          => chosen' # NoIndex )
  BY RecordedFound
<1> QED
  BY <1>1, <1>2, SearchInvInit, SearchInvStep, PTL DEF Spec, SearchSucceeds, PlaysNearDesired, RecordedIsFound
-----------------------------------------------------------------------------
(* The playlist of a catchup (Catchup, M3u8): counting and lines.          *)

\* A function on 1..n is a sequence of that length.
LEMMA FunctionIsSeq ==
  ASSUME NEW S, NEW n \in Nat, NEW f \in [1..n -> S]
  PROVE  f \in Seq(S) /\ Len(f) = n
  OBVIOUS

\* The numbers up to n are n.
LEMMA CountTo ==
  ASSUME NEW n \in Nat PROVE Cardinality(1..n) = n
<1>1. n - 1 + 1 = n
  OBVIOUS
<1>2. CASE n = 0
  <2>1. 1..n = {}
    BY <1>2
  <2>2. QED
    BY <1>2, <2>1, FS_EmptySet
<1>3. CASE n # 0
  <2>1. Cardinality(1..n) = IF 1 > n THEN 0 ELSE n - 1 + 1
    BY FS_Interval
  <2>2. QED
    BY <1>3, <2>1
<1>4. QED
  BY <1>2, <1>3

FileLines == [kind : HeaderKinds \cup {"EXTINF", "chunk", "ENDLIST", "cut"}, value : Int]

\* Hundredths are whole numbers and not more than the durations they are of.
LEMMA HundredthsType ==
  ASSUME NEW d \in 0..(UintMod - 1) PROVE Hundredths(d) \in 0..UintMod
<1>1. Resolution \in Nat /\ Resolution > 0 /\ UintMod \in Nat /\ UintMod > 0
  BY M3u8Assumption
<1>2. Resolution \div 2 \in Nat /\ 2 * (Resolution \div 2) <= Resolution
  BY <1>1
<1>3. DEFINE r == Resolution \div 2
             q == (d + r) \div Resolution
<1>4. d \in Int /\ r \in Int
  BY <1>1, <1>2
<1> HIDE DEF r
<1>5. q \in Int /\ q * Resolution <= d + r /\ d + r < (q + 1) * Resolution
  BY <1>1, <1>2, <1>4
<1>6. QED
  BY <1>1, <1>2, <1>4, <1>5 DEF Hundredths, r

\* What the reader makes of hundredths has the width of a duration.
LEMMA NanosecondsType ==
  ASSUME NEW h \in 0..UintMod PROVE Nanoseconds(h) \in 0..(UintMod - 1)
<1>1. Resolution \in Nat /\ Resolution > 0 /\ UintMod \in Nat /\ UintMod > 0
  BY M3u8Assumption
<1>2. Deviation[h] \in Int /\ Deviation[h] >= -(Resolution \div 2)
  BY M3u8Assumption
<1>3. h * Resolution + Deviation[h] >= 0
  <2>1. CASE h = 0
    BY <2>1, M3u8Assumption
  <2>2. CASE h > 0
    <3>1. h * Resolution >= Resolution
      BY <1>1, <2>2
    <3>2. Resolution \div 2 <= Resolution /\ h * Resolution \in Int
      BY <1>1
    <3>3. QED
      BY <1>1, <1>2, <3>1, <3>2
  <2>3. QED
    BY <2>1, <2>2
<1>4. h * Resolution \in Int /\ h * Resolution + Deviation[h] \in Int
  BY <1>1, <1>2
<1>5. TooLarge \in 0..(UintMod - 1)
  BY <1>1, M3u8Assumption DEF NoTime
<1>6. QED
  BY <1>1, <1>3, <1>4, <1>5 DEF Nanoseconds

\* A duration that is written and read is off by a hundredth at most.
LEMMA RoundTrip ==
  ASSUME NEW d \in 0..(UintMod - 1)
  PROVE  \/ Nanoseconds(Hundredths(d)) - d \in -Resolution..Resolution
         \/ d >= UintMod - Resolution
<1>1. Resolution \in Nat /\ Resolution > 0 /\ UintMod \in Nat /\ UintMod > 0
  BY M3u8Assumption
<1> DEFINE r == Resolution \div 2
           h == Hundredths(d)
           p == h * Resolution
<1>2. r \in Nat /\ 2 * r <= Resolution /\ Resolution <= 2 * r + 1
  BY <1>1
<1>3. h \in 0..UintMod
  BY HundredthsType
<1>4. p \in Int /\ p <= d + r /\ d + r < p + Resolution
  <2> HIDE DEF r
  <2>1. h = (d + r) \div Resolution
    BY DEF Hundredths, r
  <2>2. d \in Int /\ d + r \in Int
    BY <1>1, <1>2
  <2> HIDE DEF h
  <2>3. h * Resolution <= d + r /\ d + r < (h + 1) * Resolution
    BY <1>1, <1>3, <2>1, <2>2
  <2>4. (h + 1) * Resolution = h * Resolution + Resolution /\ h * Resolution \in Int
    BY <1>1, <1>3
  <2>5. QED
    BY <2>3, <2>4
<1>5. Deviation[h] \in Int /\ Deviation[h] >= -r /\ Deviation[h] <= (Resolution - 1) \div 2
  BY <1>3, M3u8Assumption
<1>6. (Resolution - 1) \div 2 <= r
  BY <1>1
<1>7. Nanoseconds(h) = IF p + Deviation[h] >= UintMod THEN TooLarge ELSE p + Deviation[h]
  BY DEF Nanoseconds
<1> HIDE DEF r, h, p
<1>8. CASE p + Deviation[h] >= UintMod
  <2>1. d + Resolution >= UintMod
    BY <1>1, <1>2, <1>4, <1>5, <1>6, <1>8
  <2>2. QED
    BY <1>1, <2>1
<1>9. CASE ~(p + Deviation[h] >= UintMod)
  <2>1. Nanoseconds(h) = p + Deviation[h]
    BY <1>7, <1>9
  <2>2. p + Deviation[h] - d \in -Resolution..Resolution
    BY <1>1, <1>2, <1>4, <1>5, <1>6
  <2>3. Nanoseconds(h) - d \in -Resolution..Resolution
    BY <1>1, <1>4, <1>5, <2>1, <2>2
  <2>4. QED
    BY <2>3 DEF h
<1>10. QED
  BY <1>8, <1>9

\* What was read and is written again is read as before.
LEMMA NoDrift ==
  ASSUME NEW h \in 0..UintMod, Nanoseconds(h) # NoTime
  PROVE  Nanoseconds(Hundredths(Nanoseconds(h))) = Nanoseconds(h)
<1>1. Resolution \in Nat /\ Resolution > 0 /\ UintMod \in Nat /\ UintMod > 0
  BY M3u8Assumption
<1> DEFINE r == Resolution \div 2
           p == h * Resolution
           d == p + Deviation[h]
<1>2. r \in Nat /\ r < Resolution /\ p \in Int
  BY <1>1
<1>3. Deviation[h] \in Int /\ Deviation[h] >= -r /\ Deviation[h] <= (Resolution - 1) \div 2
  BY M3u8Assumption
<1>4. (Resolution - 1) \div 2 + r < Resolution
  BY <1>1
<1>5. Nanoseconds(h) = IF d >= UintMod THEN TooLarge ELSE d
  BY DEF Nanoseconds
<1>6. CASE d >= UintMod
  <2>1. Nanoseconds(h) = 0
    BY <1>5, <1>6, M3u8Assumption
  <2>2. Hundredths(0) = 0
    BY <1>1, <1>2 DEF Hundredths
  <2>3. Nanoseconds(0) = 0
    BY <1>1, M3u8Assumption DEF Nanoseconds
  <2>4. QED
    BY <2>1, <2>2, <2>3
<1>7. CASE ~(d >= UintMod)
  <2>1. Nanoseconds(h) = d
    BY <1>5, <1>7
  <2>2. Hundredths(d) = h
    <3> HIDE DEF r
    <3>1. p <= d + r /\ d + r < p + Resolution /\ d + r \in Int
      <4>1. (Resolution - 1) \div 2 \in Int
        BY <1>1
      <4> HIDE DEF p
      <4>2. QED
        BY <1>1, <1>2, <1>3, <1>4, <4>1
    <3>2. Hundredths(d) = (d + r) \div Resolution
      BY DEF Hundredths, r
    <3> DEFINE s == d + r
    <3> HIDE DEF s, d
    <3>3. h * Resolution <= s /\ s < h * Resolution + Resolution /\ s \in Int
      BY <3>1 DEF s
    <3>4. s \div Resolution = h
      BY <1>1, <3>3
    <3>5. QED
      BY <3>2, <3>4 DEF s
  <2>3. QED
    BY <2>1, <2>2
<1>8. QED
  BY <1>6, <1>7

\* The lines of a playlist.
LEMMA LinesAre ==
  ASSUME NEW w \in Seq(Entries)
  PROVE  /\ Lines(w) \in Seq(FileLines) /\ Len(Lines(w)) = 2 * Len(w) + 6
         /\ \A k \in 1..5 : Lines(w)[k].kind \in HeaderKinds
         /\ \A i \in 1..Len(w) :
                /\ Lines(w)[2 * i + 4] = Line("EXTINF", Hundredths(w[i].duration))
                /\ Lines(w)[2 * i + 5] = Line("chunk", w[i].index)
         /\ Lines(w)[2 * Len(w) + 6] = Line("ENDLIST", 0)
<1> DEFINE L == Lines(w)
           N == 2 * Len(w) + 6
<1>1. Len(w) \in Nat /\ N \in Nat
  OBVIOUS
<1>2. L = [k \in 1..N |->
        IF k <= 5
        THEN WriteHeader(IF w = <<>> THEN 0 ELSE w[1].index, EntryDuration)[k]
        ELSE IF k <= 2 * Len(w) + 5
        THEN WriteLine(w[(k - 4) \div 2])[(k % 2) + 1]
        ELSE WriteFooter[1]]
  BY DEF Lines
<1>3. \A k \in 1..5 : L[k] \in FileLines /\ L[k].kind \in HeaderKinds
  <2>1. (IF w = <<>> THEN 0 ELSE w[1].index) \in Int
    <3>1. w # <<>> => w[1] \in Entries
      BY <1>1
    <3>2. UintMod \in Int
      BY M3u8Assumption
    <3>3. QED
      BY <3>1, <3>2 DEF Entries
  <2>2. EntryDuration \in Int
    BY CatchupAssumption, M3u8Assumption
  <2>3. \A k \in 1..5 : L[k] = WriteHeader(IF w = <<>> THEN 0 ELSE w[1].index, EntryDuration)[k]
    BY <1>1, <1>2
  <2>4. ASSUME NEW i \in Int, NEW e \in Int, NEW k \in 1..5
        PROVE  WriteHeader(i, e)[k] \in FileLines /\ WriteHeader(i, e)[k].kind \in HeaderKinds
    <3>1. k = 1 \/ k = 2 \/ k = 3 \/ k = 4 \/ k = 5
      OBVIOUS
    <3>2. QED
      BY <3>1 DEF WriteHeader, Line, FileLines, HeaderKinds
  <2>5. QED
    BY <2>1, <2>2, <2>3, <2>4
<1>4. \A i \in 1..Len(w) :
         /\ L[2 * i + 4] = Line("EXTINF", Hundredths(w[i].duration))
         /\ L[2 * i + 5] = Line("chunk", w[i].index)
  <2> TAKE i \in 1..Len(w)
  <2>1. /\ 2 * i + 4 \in 1..N /\ 2 * i + 5 \in 1..N
        /\ ~(2 * i + 4 <= 5) /\ ~(2 * i + 5 <= 5)
        /\ 2 * i + 4 <= 2 * Len(w) + 5 /\ 2 * i + 5 <= 2 * Len(w) + 5
        /\ (2 * i + 4 - 4) \div 2 = i /\ (2 * i + 5 - 4) \div 2 = i
        /\ (2 * i + 4) % 2 = 0 /\ (2 * i + 5) % 2 = 1
    BY <1>1
  <2>2. L[2 * i + 4] = WriteLine(w[i])[0 + 1] /\ L[2 * i + 5] = WriteLine(w[i])[1 + 1]
    BY <1>2, <2>1
  <2>3. QED
    BY <2>2 DEF WriteLine
<1>5. L[N] = Line("ENDLIST", 0)
  <2>1. N \in 1..N /\ ~(N <= 5) /\ ~(N <= 2 * Len(w) + 5)
    BY <1>1
  <2>2. L[N] = WriteFooter[1]
    BY <1>2, <2>1
  <2>3. QED
    BY <2>2 DEF WriteFooter
<1>6. \A k \in 1..N : L[k] \in FileLines
  <2> TAKE k \in 1..N
  <2>1. CASE k <= 5
    BY <1>3, <2>1
  <2>2. CASE k = N
    BY <1>5, <2>2 DEF Line, FileLines, HeaderKinds
  <2>3. CASE k > 5 /\ k # N
    <3>1. PICK i \in 1..Len(w) : k = 2 * i + 4 \/ k = 2 * i + 5
      <4>1. (k - 4) \div 2 \in 1..Len(w)
        BY <1>1, <2>3
      <4>2. k = 2 * ((k - 4) \div 2) + 4 \/ k = 2 * ((k - 4) \div 2) + 5
        BY <1>1
      <4>3. QED
        BY <4>1, <4>2
    <3>2. w[i] \in Entries
      OBVIOUS
    <3>3. w[i].duration \in 0..(UintMod - 1) /\ w[i].index \in Int
      BY <3>2 DEF Entries
    <3>4. Hundredths(w[i].duration) \in Int
      BY <3>3, HundredthsType
    <3>5. /\ Line("EXTINF", Hundredths(w[i].duration)) \in FileLines
          /\ Line("chunk", w[i].index) \in FileLines
      BY <3>3, <3>4 DEF Line, FileLines
    <3>6. QED
      BY <1>4, <3>1, <3>5
  <2>4. QED
    BY <1>1, <2>1, <2>2, <2>3
<1>7. L \in [1..N -> FileLines]
  BY <1>2, <1>6
<1>8. L \in Seq(FileLines) /\ Len(L) = N
  BY <1>1, <1>7, FunctionIsSeq
<1>9. QED
  BY <1>3, <1>4, <1>5, <1>8

\* What is in a file of which n lines, and perhaps a part of one more, were written.
LEMMA WrittenAre ==
  ASSUME NEW w \in Seq(Entries), NEW n \in 0..(2 * Len(w) + 6), NEW cut \in BOOLEAN
  PROVE  /\ Written(w, n, cut) \in Seq(FileLines)
         /\ Len(Written(w, n, cut)) = n + (IF cut THEN 1 ELSE 0)
         /\ \A k \in 1..n : Written(w, n, cut)[k] = Lines(w)[k]
         /\ cut => Written(w, n, cut)[n + 1] = Cut
<1>1. Lines(w) \in Seq(FileLines) /\ Len(Lines(w)) = 2 * Len(w) + 6
  BY LinesAre
<1> DEFINE S == SubSeq(Lines(w), 1, n)
<1>2. S \in Seq(FileLines) /\ Len(S) = n /\ \A k \in 1..n : S[k] = Lines(w)[k]
  BY <1>1
<1>3. Cut \in FileLines
  BY DEF Cut, Line, FileLines, HeaderKinds
<1> HIDE DEF S
<1>4. Written(w, n, cut) = IF cut THEN Append(S, Cut) ELSE S
  BY DEF Written, S
<1>5. QED
  BY <1>2, <1>3, <1>4

\* The entries that are whole when n lines were written.
WholeEntries(w, n) ==
    IF n <= 5 THEN 0 ELSE IF n > 2 * Len(w) + 5 THEN Len(w) ELSE (n - 5) \div 2

\* A file whose lines begin with m lines of the header, and no more.
LEMMA HeaderCount ==
  ASSUME NEW f \in Seq(FileLines), NEW m \in 0..Len(f),
         \A k \in 1..m : f[k].kind \in HeaderKinds,
         m < Len(f) => f[m + 1].kind \notin HeaderKinds
  PROVE  HeaderLines(f) = m
<1> DEFINE K == {k \in 1..Len(f) : \A i \in 1..k : f[i].kind \in HeaderKinds}
<1>1. K = 1..m
  <2>1. ASSUME NEW k \in K PROVE k \in 1..m
    <3>1. CASE k > m
      <4>1. m + 1 \in 1..k /\ m < Len(f)
        BY <3>1
      <4>2. QED
        BY <4>1
    <3>2. QED
      BY <3>1
  <2>2. QED
    BY <2>1
<1>2. HeaderLines(f) = Cardinality(K)
  BY DEF HeaderLines
<1>3. m \in Nat
  OBVIOUS
<1>4. QED
  BY <1>1, <1>2, <1>3, CountTo

\* Lines that begin with m pairs, and no more.
LEMMA PairCount ==
  ASSUME NEW f \in Seq(FileLines), NEW m \in Nat, 2 * m <= Len(f),
         \A i \in 1..m : f[2 * i - 1].kind = "EXTINF" /\ f[2 * i].kind = "chunk",
         ~IsPair(f, m + 1)
  PROVE  Pairs(f) = m
<1> DEFINE K == {k \in 1..Len(f) : \A i \in 1..k : IsPair(f, i)}
<1>1. \A i \in 1..m : IsPair(f, i)
  BY DEF IsPair
<1>2. K = 1..m
  <2>1. ASSUME NEW k \in K PROVE k \in 1..m
    <3>1. CASE k > m
      <4>1. m + 1 \in 1..k
        BY <3>1
      <4>2. QED
        BY <4>1
    <3>2. QED
      BY <3>1
  <2>2. ASSUME NEW k \in 1..m PROVE k \in K
    BY <1>1
  <2>3. QED
    BY <2>1, <2>2
<1>3. QED
  BY <1>2, CountTo DEF Pairs

\* What the reader makes of a file that was written up to some point.
LEMMA ParseWritten ==
  ASSUME NEW w \in Seq(Entries), NEW n \in 0..(2 * Len(w) + 6), NEW cut \in BOOLEAN,
         cut => n < 2 * Len(w) + 6
  PROVE  /\ WholeEntries(w, n) \in 0..Len(w)
         /\ ParseFile(Written(w, n, cut)).chunks = [i \in 1..WholeEntries(w, n) |-> ReadBack(w[i])]
         /\ ParseFile(Written(w, n, cut)).ok =>
                ~cut /\ (n = 2 * Len(w) + 6 \/ \E e \in 1..Len(w) : n = 5 + 2 * e)
<1> DEFINE P == Written(w, n, cut)
           m == WholeEntries(w, n)
           h == IF n <= 5 THEN n ELSE 5
<1>1. /\ P \in Seq(FileLines) /\ Len(P) = n + (IF cut THEN 1 ELSE 0)
      /\ \A k \in 1..n : P[k] = Lines(w)[k]
      /\ cut => P[n + 1] = Cut
  BY WrittenAre
<1>2. /\ \A k \in 1..5 : Lines(w)[k].kind \in HeaderKinds
      /\ \A i \in 1..Len(w) :
             /\ Lines(w)[2 * i + 4] = Line("EXTINF", Hundredths(w[i].duration))
             /\ Lines(w)[2 * i + 5] = Line("chunk", w[i].index)
      /\ Lines(w)[2 * Len(w) + 6] = Line("ENDLIST", 0)
  BY LinesAre
<1>3. m \in 0..Len(w)
  BY DEF WholeEntries
<1>4. /\ Line("EXTINF", 0).kind = "EXTINF"
      /\ \A v : Line("EXTINF", v).kind = "EXTINF" /\ Line("EXTINF", v).value = v
      /\ \A v : Line("chunk", v).kind = "chunk" /\ Line("chunk", v).value = v
      /\ Line("ENDLIST", 0).kind = "ENDLIST" /\ Cut.kind = "cut"
  BY DEF Line, Cut
<1>5. HeaderLines(P) = h
  <2>1. h \in 0..Len(P) /\ \A k \in 1..h : P[k].kind \in HeaderKinds
    <3>1. h \in 0..5 /\ h <= n /\ n \in Nat /\ n <= Len(P) /\ Len(P) \in Nat
      BY <1>1
    <3>2. \A k \in 1..h : k \in 1..n /\ k \in 1..5
      BY <3>1
    <3>3. \A k \in 1..h : P[k] = Lines(w)[k]
      BY <1>1, <3>2
    <3>4. QED
      BY <1>2, <3>1, <3>2, <3>3
  <2>2. ASSUME h < Len(P) PROVE P[h + 1].kind \notin HeaderKinds
    <3>1. CASE n <= 5
      BY <1>1, <1>4, <2>2, <3>1 DEF HeaderKinds
    <3>2. CASE n > 5 /\ Len(w) > 0
      <4>1. P[6] = Line("EXTINF", Hundredths(w[1].duration))
        <5>1. 1 \in 1..Len(w) /\ 2 * 1 + 4 = 6 /\ 6 \in 1..n
          BY <3>2
        <5>2. QED
          BY <1>1, <1>2, <5>1
      <4>2. QED
        BY <1>4, <3>2, <4>1 DEF HeaderKinds
    <3>3. CASE n > 5 /\ Len(w) = 0
      <4>1. P[6] = Line("ENDLIST", 0)
        BY <1>1, <1>2, <3>3
      <4>2. QED
        BY <1>4, <3>3, <4>1 DEF HeaderKinds
    <3>4. QED
      BY <3>1, <3>2, <3>3
  <2>3. QED
    BY <1>1, <2>1, <2>2, HeaderCount
<1> HIDE DEF P, m, h
<1>6. CASE h = Len(P)
  <2>1. n <= 5 /\ ~cut /\ m = 0
    BY <1>1, <1>6 DEF h, m, WholeEntries
  <2>2. ParseFile(P) = [ok |-> FALSE, chunks |-> <<>>]
    BY <1>5, <1>6 DEF ParseFile
  <2>3. [i \in 1..m |-> ReadBack(w[i])] = <<>>
    BY <2>1
  <2>4. QED
    BY <1>3, <2>2, <2>3 DEF P, m
<1>7. CASE h # Len(P)
  <2> DEFINE R == SubSeq(P, h + 1, Len(P))
  <2>1. h \in Nat /\ h < Len(P) /\ Len(P) \in Nat
    BY <1>1, <1>7 DEF h
  <2>2. R \in Seq(FileLines) /\ Len(R) = Len(P) - h /\ \A j \in 1..Len(R) : R[j] = P[h + j]
    BY <1>1, <2>1
  <2>3. ParseFile(P) = ParseChunks(R)
    BY <1>5, <1>7 DEF ParseFile
  <2> HIDE DEF R
  <2>4. 2 * m <= Len(R) /\ 2 * m + h <= n
    BY <1>1, <1>3, <2>1, <2>2 DEF h, m, WholeEntries
  <2>5. \A i \in 1..m : /\ R[2 * i - 1] = Line("EXTINF", Hundredths(w[i].duration))
                        /\ R[2 * i] = Line("chunk", w[i].index)
    <3> TAKE i \in 1..m
    <3>1. h = 5 /\ n > 5
      BY DEF h, m, WholeEntries
    <3>2. /\ 2 * i - 1 \in 1..Len(R) /\ 2 * i \in 1..Len(R) /\ i \in 1..Len(w)
          /\ 5 + (2 * i - 1) = 2 * i + 4 /\ 5 + 2 * i = 2 * i + 5
          /\ 2 * i + 4 \in 1..n /\ 2 * i + 5 \in 1..n
      BY <1>3, <2>1, <2>2, <2>4, <3>1
    <3>3. R[2 * i - 1] = P[2 * i + 4] /\ R[2 * i] = P[2 * i + 5]
      BY <2>2, <3>1, <3>2
    <3>4. QED
      BY <1>1, <1>2, <3>2, <3>3
  <2>6. /\ ~IsPair(R, m + 1)
        /\ IF 2 * m = Len(R) THEN m > 0 => ~cut /\ n = 5 + 2 * m
           ELSE R[2 * m + 1].kind = "ENDLIST" => ~cut /\ n = 2 * Len(w) + 6
    <3>1. CASE n <= 5
      <4>1. m = 0 /\ cut /\ h = n /\ Len(R) = 1 /\ R[1] = Cut
        BY <1>1, <1>7, <2>2, <3>1 DEF h, m, WholeEntries
      <4>2. QED
        BY <1>4, <4>1 DEF IsPair
    <3>2. CASE n = 2 * Len(w) + 6
      <4>1. m = Len(w) /\ ~cut /\ h = 5 /\ Len(R) = 2 * m + 1
        BY <1>1, <2>2, <3>2 DEF h, m, WholeEntries
      <4>2. R[2 * m + 1] = Line("ENDLIST", 0)
        BY <1>1, <1>2, <2>2, <3>2, <4>1
      <4>3. QED
        BY <1>3, <1>4, <3>2, <4>1, <4>2 DEF IsPair
    <3>3. CASE n > 5 /\ n # 2 * Len(w) + 6
      <4>1. m = (n - 5) \div 2 /\ h = 5 /\ (n = 5 + 2 * m \/ n = 6 + 2 * m)
        BY <3>3 DEF h, m, WholeEntries
      <4>2. CASE n = 5 + 2 * m
        <5>1. Len(R) = (IF cut THEN 2 * m + 1 ELSE 2 * m) /\ (cut => R[2 * m + 1] = Cut)
          <6>1. Len(R) = IF cut THEN 2 * m + 1 ELSE 2 * m
            BY <1>1, <1>3, <2>2, <4>1, <4>2
          <6>2. cut => 2 * m + 1 \in 1..Len(R) /\ h + (2 * m + 1) = n + 1
            BY <1>3, <4>1, <4>2, <6>1
          <6>3. QED
            BY <1>1, <2>2, <6>1, <6>2
        <5>2. QED
          BY <1>3, <1>4, <4>2, <5>1 DEF IsPair
      <4>3. CASE n = 6 + 2 * m
        <5>1. Len(R) = (IF cut THEN 2 * m + 2 ELSE 2 * m + 1) /\ (cut => R[2 * m + 2] = Cut)
          BY <1>1, <1>3, <2>2, <4>1, <4>3
        <5>2. m + 1 \in 1..Len(w) /\ 2 * (m + 1) + 4 = n
          BY <1>3, <3>3, <4>3
        <5>3. R[2 * m + 1] = P[n]
          <6>1. 2 * m + 1 \in 1..Len(R) /\ h + (2 * m + 1) = n
            BY <1>3, <4>1, <4>3, <5>1
          <6>2. QED
            BY <2>2, <6>1
        <5>4. R[2 * m + 1].kind = "EXTINF"
          BY <1>1, <1>2, <1>4, <5>2, <5>3
        <5>5. QED
          BY <1>3, <1>4, <5>1, <5>4 DEF IsPair
      <4>4. QED
        BY <4>1, <4>2, <4>3
    <3>4. QED
      BY <3>1, <3>2, <3>3
  <2>7. Pairs(R) = m
    <3>1. \A i \in 1..m : R[2 * i - 1].kind = "EXTINF" /\ R[2 * i].kind = "chunk"
      BY <1>4, <2>5
    <3>2. m \in Nat /\ 2 * m <= Len(R) /\ ~IsPair(R, m + 1) /\ R \in Seq(FileLines)
      BY <1>3, <2>2, <2>4, <2>6
    <3>3. QED
      BY <3>1, <3>2, PairCount
  <2>8. ChunksOf(R, m) = [i \in 1..m |-> ReadBack(w[i])]
    <3>1. \A i \in 1..m : /\ R[2 * i].value = w[i].index
                          /\ R[2 * i - 1].value = Hundredths(w[i].duration)
      BY <1>4, <2>5
    <3>2. \A i \in 1..m : ReadBack(w[i]) = [index |-> R[2 * i].value, duration |-> Nanoseconds(R[2 * i - 1].value)]
      BY <3>1 DEF ReadBack, Entry
    <3>3. QED
      BY <3>2 DEF ChunksOf
  <2>9. /\ ParseFile(P).chunks = [i \in 1..m |-> ReadBack(w[i])]
        /\ ParseFile(P).ok = IF 2 * m = Len(R) THEN m > 0 ELSE R[2 * m + 1].kind = "ENDLIST"
    BY <2>3, <2>7, <2>8 DEF ParseChunks
  <2>10. ParseFile(P).ok => ~cut /\ (n = 2 * Len(w) + 6 \/ \E e \in 1..Len(w) : n = 5 + 2 * e)
    <3>1. CASE 2 * m = Len(R) /\ m > 0
      <4>1. ~cut /\ n = 5 + 2 * m /\ m \in 1..Len(w)
        BY <1>3, <2>6, <3>1
      <4>2. QED
        BY <4>1
    <3>2. CASE 2 * m # Len(R) /\ R[2 * m + 1].kind = "ENDLIST"
      BY <2>6, <3>2
    <3>3. QED
      BY <2>9, <3>1, <3>2
  <2>11. QED
    BY <1>3, <2>9, <2>10 DEF P, m
<1>8. QED
  BY <1>6, <1>7

-----------------------------------------------------------------------------
(* The invariant: the file is a beginning of what the last run wanted to   *)
(* write, and a run has its own entries behind the ones it read.           *)

FileInv ==
    \E n \in 0..(2 * Len(written) + 6), cut \in BOOLEAN :
        /\ cut => n < 2 * Len(written) + 6
        /\ playlist = Written(written, n, cut)

\* What was read is a multiple of hundredths, as far as double can tell.
LoadedInv == \A i \in 1..Len(loaded) : \E h \in 0..UintMod : loaded[i].duration = Nanoseconds(h)

RunInv ==
    /\ run # "off" =>
           /\ Len(loaded) <= Len(chunks_)
           /\ \A i \in 1..Len(loaded) : chunks_[i].index = loaded[i].index
           /\ \A i \in 1..(Len(loaded) - 1) : chunks_[i] = loaded[i]
    /\ run = "on" => Len(chunks_) = Len(loaded) /\ chunk_.index = NoTime
    /\ run \in {"named", "recording"} =>
           /\ Len(chunks_) > Len(loaded)
           /\ chunk_.index \in 0..MaxEntryIndex
           /\ chunks_[Len(chunks_)].index = chunk_.index

CatchupInv == CatchupTypeOK /\ FileInv /\ LoadedInv /\ RunInv /\ EntriesFollow

\* The invariant holds before the first run.
LEMMA CatchupInvInit == InitCatchup => CatchupInv
<1> SUFFICES ASSUME InitCatchup PROVE CatchupInv
  OBVIOUS
<1>1. CatchupTypeOK
  BY M3u8Assumption, CatchupAssumption DEF InitCatchup, CatchupTypeOK, Entry, Entries
<1>2. FileInv
  <2>1. written \in Seq(Entries) /\ Len(written) = 0 /\ 0 \in 0..(2 * Len(written) + 6)
    BY DEF InitCatchup
  <2>2. Lines(written) \in Seq(FileLines) /\ Len(Lines(written)) = 2 * Len(written) + 6
    BY <2>1, LinesAre
  <2>3. playlist = Written(written, 0, FALSE)
    <3>1. \A q \in Seq(FileLines) : SubSeq(q, 1, 0) = <<>>
      OBVIOUS
    <3>2. SubSeq(Lines(written), 1, 0) = <<>>
      BY <2>2, <3>1
    <3>3. Written(written, 0, FALSE) = SubSeq(Lines(written), 1, 0)
      BY Zenon DEF Written
    <3>4. QED
      BY <3>2, <3>3 DEF InitCatchup
  <2>4. QED
    BY <2>1, <2>3 DEF FileInv
<1>3. LoadedInv /\ RunInv /\ EntriesFollow
  BY DEF InitCatchup, LoadedInv, RunInv, EntriesFollow
<1>4. QED
  BY <1>1, <1>2, <1>3 DEF CatchupInv

\* What the reader gets from the file, as far as its types go.
LEMMA ReadTypes ==
  ASSUME CatchupTypeOK, FileInv
  PROVE  LET read == ParseFile(playlist).chunks
         IN /\ read \in Seq(Entries) /\ Len(read) <= Len(written)
            /\ \A i \in 1..Len(read) : /\ read[i] = ReadBack(written[i])
                                       /\ written[i] \in Entries
                                       /\ Hundredths(written[i].duration) \in 0..UintMod
<1>1. PICK n \in 0..(2 * Len(written) + 6), cut \in BOOLEAN :
        /\ cut => n < 2 * Len(written) + 6
        /\ playlist = Written(written, n, cut)
  BY DEF FileInv
<1>2. written \in Seq(Entries)
  BY DEF CatchupTypeOK
<1> DEFINE m == WholeEntries(written, n)
           read == ParseFile(playlist).chunks
<1>3. m \in 0..Len(written) /\ read = [i \in 1..m |-> ReadBack(written[i])]
  BY <1>1, <1>2, ParseWritten
<1>4. \A i \in 1..m : /\ written[i] \in Entries
                      /\ Hundredths(written[i].duration) \in 0..UintMod
                      /\ ReadBack(written[i]) \in Entries
  <2> TAKE i \in 1..m
  <2>1. written[i] \in Entries
    BY <1>2, <1>3
  <2>2. written[i].duration \in 0..(UintMod - 1) /\ written[i].index \in 0..(UintMod - 1)
    BY <2>1 DEF Entries
  <2>3. Hundredths(written[i].duration) \in 0..UintMod
    BY <2>2, HundredthsType
  <2>4. Nanoseconds(Hundredths(written[i].duration)) \in 0..(UintMod - 1)
    BY <2>3, NanosecondsType
  <2>5. QED
    BY <2>1, <2>2, <2>3, <2>4 DEF ReadBack, Entry, Entries
<1> HIDE DEF m, read
<1>5. read \in [1..m -> Entries] /\ m \in Nat
  BY <1>3, <1>4
<1>6. read \in Seq(Entries) /\ Len(read) = m
  BY <1>5, FunctionIsSeq
<1>7. Len(read) <= Len(written) /\ \A i \in 1..Len(read) : read[i] = ReadBack(written[i])
  BY <1>3, <1>6
<1>8. QED
  BY <1>4, <1>6, <1>7 DEF read

\* The constructor takes what the file holds.
LEMMA StartRunStep == ASSUME CatchupInv, StartRun PROVE CatchupInv'
<1> DEFINE read == ParseFile(playlist).chunks
<1>1. /\ read \in Seq(Entries)
      /\ \A i \in 1..Len(read) : /\ read[i] = ReadBack(written[i])
                                 /\ Hundredths(written[i].duration) \in 0..UintMod
  BY ReadTypes DEF CatchupInv
<1>2. /\ run' = "on" /\ catchups' = catchups + 1 /\ catchups < MaxCatchups
      /\ chunks_' = read /\ loaded' = read
      /\ present' = present /\ playlist' = playlist /\ written' = written
      /\ chunk_' = Entry(IF present = {} THEN NoTime
                         ELSE (CHOOSE i \in present : \A j \in present : j <= i) + 1, NoTime)
  BY DEF StartRun
<1> HIDE DEF read
<1>3. chunk_' \in Entries /\ chunk_'.index = NoTime
  <2>1. UintMod \in Nat /\ UintMod > 0 /\ MaxEntryIndex \in Nat /\ MaxEntryIndex + 1 < NoTime
        /\ NoTime = UintMod - 1
    BY M3u8Assumption, CatchupAssumption DEF NoTime
  <2>2. CASE present = {}
    BY <1>2, <2>1, <2>2 DEF Entry, Entries
  <2>3. CASE present # {}
    <3>1. present \in SUBSET (0..MaxEntryIndex)
      BY DEF CatchupInv, CatchupTypeOK
    <3>2. \E x \in present : \A y \in present : y <= x
      BY <2>1, <2>3, <3>1, GreatestBelow
    <3> DEFINE l == CHOOSE i \in present : \A j \in present : j <= i
    <3>3. l \in present
      BY <3>2
    <3>4. l \in 0..MaxEntryIndex
      BY <3>1, <3>3
    <3>5. chunk_' = Entry(l + 1, NoTime)
      BY <1>2, <2>3
    <3> HIDE DEF l
    <3>6. QED
      BY <2>1, <3>4, <3>5 DEF Entry, Entries
  <2>4. QED
    BY <2>2, <2>3
<1>4. CatchupTypeOK'
  BY <1>1, <1>2, <1>3, CatchupAssumption DEF CatchupInv, CatchupTypeOK
<1>5. FileInv'
  BY <1>2 DEF CatchupInv, FileInv
<1>6. LoadedInv'
  <2>1. \A i \in 1..Len(read) : read[i].duration = Nanoseconds(Hundredths(written[i].duration))
    <3>1. \A c : ReadBack(c).duration = Nanoseconds(Hundredths(c.duration))
      BY DEF ReadBack, Entry
    <3>2. QED
      BY <1>1, <3>1
  <2>2. QED
    BY <1>1, <1>2, <2>1 DEF LoadedInv
<1>7. RunInv'
  BY <1>1, <1>2, <1>3 DEF RunInv
<1>8. EntriesFollow'
  BY <1>1, <1>2 DEF EntriesFollow
<1>9. QED
  BY <1>4, <1>5, <1>6, <1>7, <1>8 DEF CatchupInv

\* EndLast changes the duration of the last entry only.
LEMMA EndsLastOnly ==
  ASSUME NEW e \in Seq(Entries), NEW t \in 0..(UintMod - 1), chunk_ \in Entries
  PROVE  /\ EndLast(e, t) \in Seq(Entries) /\ Len(EndLast(e, t)) = Len(e)
         /\ \A i \in 1..Len(e) : EndLast(e, t)[i].index = e[i].index
         /\ \A i \in 1..(Len(e) - 1) : EndLast(e, t)[i] = e[i]
<1>1. CASE e # <<>> /\ t # NoTime /\ chunk_.duration # NoTime
  <2> DEFINE v == (t - chunk_.duration) % UintMod
             x == [e[Len(e)] EXCEPT !.duration = v]
  <2>1. v \in 0..(UintMod - 1)
    <3>1. UintMod \in Nat /\ UintMod > 0 /\ t \in Int /\ chunk_.duration \in Int
      BY M3u8Assumption DEF Entries
    <3>2. QED
      BY <3>1
  <2>2. Len(e) \in 1..Len(e) /\ e[Len(e)] \in Entries
    BY <1>1
  <2>3. x \in Entries /\ x.index = e[Len(e)].index
    <3> HIDE DEF v
    <3>1. QED
      BY <2>1, <2>2 DEF Entries
  <2>4. EndLast(e, t) = [e EXCEPT ![Len(e)] = x]
    BY <1>1 DEF EndLast
  <2> HIDE DEF x, v
  <2>5. QED
    BY <2>2, <2>3, <2>4
<1>2. CASE ~(e # <<>> /\ t # NoTime /\ chunk_.duration # NoTime)
  BY <1>2 DEF EndLast
<1>3. QED
  BY <1>1, <1>2

\* A new chunk ends the last entry and follows it.
LEMMA CatchupOnPathSetStep ==
  ASSUME CatchupInv, NEW sample \in BOOLEAN, NEW time \in Times \cup {NoTime},
         CatchupOnPathSet(sample, time)
  PROVE  CatchupInv'
<1>1. /\ UintMod \in Nat /\ UintMod > 0 /\ MaxEntryIndex \in Nat /\ MaxEntryIndex + 1 < NoTime
      /\ NoTime = UintMod - 1 /\ time \in 0..(UintMod - 1)
  BY M3u8Assumption, CatchupAssumption DEF NoTime
<1> DEFINE e == IF sample THEN EndLast(chunks_, time) ELSE chunks_
           x == Entry(NoTime, NextEntryIndex)
<1>2. /\ run \in {"on", "recording"} /\ NextEntryIndex <= MaxEntryIndex
      /\ chunks_' = Append(e, x)
      /\ chunk_' = Entry(IF sample THEN time ELSE chunk_.duration, NextEntryIndex)
      /\ run' = "named"
      /\ catchups' = catchups /\ present' = present /\ playlist' = playlist
      /\ loaded' = loaded /\ written' = written
  BY DEF CatchupOnPathSet
<1>3. /\ chunk_ \in Entries /\ chunk_.index \in Nat /\ chunk_.duration \in 0..(UintMod - 1)
      /\ chunks_ \in Seq(Entries) /\ loaded \in Seq(Entries)
  BY DEF CatchupInv, CatchupTypeOK, Entries
<1>4. /\ e \in Seq(Entries) /\ Len(e) = Len(chunks_)
      /\ \A i \in 1..Len(chunks_) : e[i].index = chunks_[i].index
      /\ \A i \in 1..(Len(chunks_) - 1) : e[i] = chunks_[i]
  BY <1>1, <1>3, EndsLastOnly
<1>5. /\ NextEntryIndex \in 0..MaxEntryIndex
      /\ chunk_.index # NoTime => NextEntryIndex - chunk_.index \in {0, 1}
  BY <1>2, <1>3 DEF NextEntryIndex
<1>6. x \in Entries /\ x.index = NextEntryIndex
  BY <1>1, <1>5 DEF Entry, Entries
<1>7. chunk_' \in Entries /\ chunk_'.index = NextEntryIndex
  BY <1>1, <1>2, <1>3, <1>5 DEF Entry, Entries
<1> HIDE DEF e, x
<1>8. /\ chunks_' \in Seq(Entries) /\ Len(chunks_') = Len(chunks_) + 1
      /\ \A i \in 1..Len(chunks_) : chunks_'[i].index = chunks_[i].index
      /\ \A i \in 1..(Len(chunks_) - 1) : chunks_'[i] = chunks_[i]
      /\ chunks_'[Len(chunks_) + 1].index = NextEntryIndex
  <2>1. /\ Append(e, x) \in Seq(Entries) /\ Len(Append(e, x)) = Len(e) + 1
        /\ \A i \in 1..Len(e) : Append(e, x)[i] = e[i]
        /\ Append(e, x)[Len(e) + 1] = x
    BY <1>4, <1>6
  <2>2. \A i \in 1..(Len(chunks_) - 1) : i \in 1..Len(chunks_)
    BY <1>3
  <2>3. QED
    BY <1>2, <1>4, <1>6, <2>1, <2>2
<1>9. CatchupTypeOK'
  BY <1>2, <1>7, <1>8 DEF CatchupInv, CatchupTypeOK
<1>10. FileInv' /\ LoadedInv'
  BY <1>2 DEF CatchupInv, FileInv, LoadedInv
<1>11. RunInv /\ run # "off"
  BY <1>2 DEF CatchupInv
<1>12. /\ Len(loaded) \in Nat /\ Len(chunks_) \in Nat /\ Len(loaded) <= Len(chunks_)
  BY <1>3, <1>11 DEF RunInv
<1>13. RunInv'
  <2>1. \A i \in 1..Len(loaded) : chunks_'[i].index = loaded[i].index
    <3>1. \A i \in 1..Len(loaded) : i \in 1..Len(chunks_)
      BY <1>12
    <3>2. QED
      BY <1>8, <1>11, <3>1 DEF RunInv
  <2>2. \A i \in 1..(Len(loaded) - 1) : chunks_'[i] = loaded[i]
    <3>1. \A i \in 1..(Len(loaded) - 1) : i \in 1..(Len(chunks_) - 1)
      BY <1>12
    <3>2. QED
      BY <1>8, <1>11, <3>1 DEF RunInv
  <2>3. Len(chunks_') > Len(loaded) /\ Len(loaded) <= Len(chunks_')
    BY <1>8, <1>12
  <2>4. chunks_'[Len(chunks_')].index = chunk_'.index
    BY <1>7, <1>8
  <2>5. QED
    BY <1>2, <1>5, <1>7, <2>1, <2>2, <2>3, <2>4 DEF RunInv
<1>14. EntriesFollow'
  <2>1. ASSUME NEW i \in (Len(loaded) + 1)..(Len(chunks_') - 1)
        PROVE  chunks_'[i + 1].index - chunks_'[i].index \in {0, 1}
    <3>1. i \in 1..Len(chunks_) /\ i >= Len(loaded) + 1
      BY <1>8, <1>12
    <3>2. CASE i < Len(chunks_)
      <4>1. i \in (Len(loaded) + 1)..(Len(chunks_) - 1) /\ i + 1 \in 1..Len(chunks_)
        BY <1>12, <3>1, <3>2
      <4>2. chunks_[i + 1].index - chunks_[i].index \in {0, 1}
        BY <4>1 DEF CatchupInv, EntriesFollow
      <4>3. QED
        BY <1>8, <3>1, <4>1, <4>2
    <3>3. CASE i = Len(chunks_)
      <4>1. run = "recording" /\ chunks_[i].index = chunk_.index /\ chunk_.index \in 0..MaxEntryIndex
        BY <1>2, <1>11, <1>12, <3>1, <3>3 DEF RunInv
      <4>2. chunk_.index # NoTime
        BY <1>1, <4>1
      <4>3. QED
        BY <1>5, <1>8, <3>1, <3>3, <4>1, <4>2
    <3>4. QED
      BY <1>12, <3>1, <3>2, <3>3
  <2>2. QED
    BY <1>2, <2>1 DEF EntriesFollow
<1>15. QED
  BY <1>9, <1>10, <1>13, <1>14 DEF CatchupInv

\* splitmuxsink creates the file of the open chunk.
LEMMA ChunkOpenedStep == ASSUME CatchupInv, ChunkOpened PROVE CatchupInv'
<1>1. CatchupTypeOK'
  BY DEF CatchupInv, CatchupTypeOK, RunInv, ChunkOpened
<1>2. FileInv' /\ LoadedInv' /\ EntriesFollow'
  BY DEF CatchupInv, FileInv, LoadedInv, EntriesFollow, ChunkOpened
<1>3. RunInv'
  BY DEF CatchupInv, RunInv, ChunkOpened
<1>4. QED
  BY <1>1, <1>2, <1>3 DEF CatchupInv

\* A clean-up touches neither the playlist nor the lists of the run.
LEMMA RemoveOldChunksStep ==
  ASSUME CatchupInv, NEW removed \in SUBSET present, RemoveOldChunks(removed)
  PROVE  CatchupInv'
<1>1. CatchupTypeOK'
  BY DEF CatchupInv, CatchupTypeOK, RemoveOldChunks
<1>2. FileInv' /\ LoadedInv' /\ EntriesFollow'
  BY DEF CatchupInv, FileInv, LoadedInv, EntriesFollow, RemoveOldChunks
<1>3. RunInv'
  BY DEF CatchupInv, RunInv, RemoveOldChunks
<1>4. QED
  BY <1>1, <1>2, <1>3 DEF CatchupInv

\* What is written are the entries of the run, each with a duration.
LEMMA FinishedAre ==
  ASSUME NEW e \in Seq(Entries)
  PROVE  /\ Finished(e) \in Seq(Entries) /\ Len(Finished(e)) = Len(e)
         /\ \A i \in 1..Len(e) : /\ Finished(e)[i].index = e[i].index
                                 /\ e[i].duration # NoTime => Finished(e)[i] = e[i]
<1>1. EntryDuration \in 0..(UintMod - 1)
  BY CatchupAssumption
<1>2. \A i \in 1..Len(e) : e[i] \in Entries
  OBVIOUS
<1>3. \A i \in 1..Len(e) : /\ Entry(EntryDuration, e[i].index) \in Entries
                           /\ Entry(EntryDuration, e[i].index).index = e[i].index
  BY <1>1, <1>2 DEF Entry, Entries
<1>4. Len(e) \in Nat /\ DOMAIN e = 1..Len(e)
  OBVIOUS
<1>5. Finished(e) \in [1..Len(e) -> Entries]
  BY <1>2, <1>3, <1>4 DEF Finished
<1>6. Finished(e) \in Seq(Entries) /\ Len(Finished(e)) = Len(e)
  BY <1>4, <1>5, FunctionIsSeq
<1>7. QED
  BY <1>3, <1>4, <1>6 DEF Finished

\* The write leaves a beginning of the lines in the file.
LEMMA WriteM3u8ListStep ==
  ASSUME CatchupInv, NEW n \in 0..(2 * Len(chunks_) + 6), NEW cut \in BOOLEAN,
         WriteM3u8List(n, cut)
  PROVE  CatchupInv'
<1>1. /\ run' = "off" /\ written' = Finished(chunks_) /\ chunks_' = <<>> /\ chunk_' = Entry(0, 0)
      /\ playlist' = Written(Finished(chunks_), n, cut)
      /\ cut => n < Len(Lines(Finished(chunks_)))
      /\ catchups' = catchups /\ present' = present /\ loaded' = loaded
  BY DEF WriteM3u8List
<1>2. Finished(chunks_) \in Seq(Entries) /\ Len(Finished(chunks_)) = Len(chunks_)
  BY FinishedAre DEF CatchupInv, CatchupTypeOK
<1>3. Len(Lines(Finished(chunks_))) = 2 * Len(chunks_) + 6
  BY <1>2, LinesAre
<1>4. Entry(0, 0) \in Entries
  BY M3u8Assumption DEF Entry, Entries
<1>5. CatchupTypeOK'
  BY <1>1, <1>2, <1>4 DEF CatchupInv, CatchupTypeOK
<1>6. FileInv'
  BY <1>1, <1>2, <1>3 DEF FileInv
<1>7. LoadedInv' /\ RunInv'
  BY <1>1 DEF CatchupInv, LoadedInv, RunInv
<1>8. EntriesFollow'
  <2>1. Len(loaded') \in Nat /\ Len(chunks_') = 0
    BY <1>1 DEF CatchupInv, CatchupTypeOK
  <2>2. QED
    BY <2>1 DEF EntriesFollow
<1>9. QED
  BY <1>5, <1>6, <1>7, <1>8 DEF CatchupInv

\* A run that is lost leaves the file as it was.
LEMMA RunLostStep == ASSUME CatchupInv, RunLost PROVE CatchupInv'
<1>1. /\ run' = "off" /\ chunks_' = <<>> /\ chunk_' = Entry(0, 0) /\ catchups' = catchups
      /\ present' = present /\ playlist' = playlist /\ loaded' = loaded /\ written' = written
  BY DEF RunLost
<1>2. Entry(0, 0) \in Entries
  BY M3u8Assumption DEF Entry, Entries
<1>3. CatchupTypeOK'
  BY <1>1, <1>2 DEF CatchupInv, CatchupTypeOK
<1>4. FileInv' /\ LoadedInv' /\ RunInv'
  BY <1>1 DEF CatchupInv, FileInv, LoadedInv, RunInv
<1>5. EntriesFollow'
  <2>1. Len(loaded') \in Nat /\ Len(chunks_') = 0
    BY <1>1 DEF CatchupInv, CatchupTypeOK
  <2>2. QED
    BY <2>1 DEF EntriesFollow
<1>6. QED
  BY <1>3, <1>4, <1>5 DEF CatchupInv

\* Every step of the catchups keeps the invariant.
LEMMA CatchupInvStep == CatchupInv /\ [NextCatchup]_catchup_vars => CatchupInv'
<1> SUFFICES ASSUME CatchupInv, [NextCatchup]_catchup_vars PROVE CatchupInv'
  OBVIOUS
<1>1. CASE StartRun
  BY <1>1, StartRunStep
<1>2. ASSUME NEW sample \in BOOLEAN, NEW time \in Times \cup {NoTime}, CatchupOnPathSet(sample, time)
      PROVE  CatchupInv'
  BY <1>2, CatchupOnPathSetStep
<1>3. CASE ChunkOpened
  BY <1>3, ChunkOpenedStep
<1>4. ASSUME NEW removed \in SUBSET present, RemoveOldChunks(removed) PROVE CatchupInv'
  BY <1>4, RemoveOldChunksStep
<1>5. ASSUME NEW n \in 0..(2 * Len(chunks_) + 6), NEW cut \in BOOLEAN, WriteM3u8List(n, cut)
      PROVE  CatchupInv'
  BY <1>5, WriteM3u8ListStep
<1>6. CASE RunLost
  BY <1>6, RunLostStep
<1>7. CASE UNCHANGED catchup_vars
  BY <1>7 DEF catchup_vars, CatchupInv, CatchupTypeOK, FileInv, LoadedInv, RunInv, EntriesFollow
<1>8. QED
  BY <1>1, <1>2, <1>3, <1>4, <1>5, <1>6, <1>7 DEF NextCatchup

\* The invariant of the catchups holds in every state.
THEOREM CatchupInvHolds == SpecCatchup => []CatchupInv
<1>1. InitCatchup => CatchupInv
  BY CatchupInvInit
<1>2. CatchupInv /\ [NextCatchup]_catchup_vars => CatchupInv'
  BY CatchupInvStep
<1>3. QED
  BY <1>1, <1>2, PTL DEF SpecCatchup

\* What the reader gets is what was written.
LEMMA InvReadsBack == CatchupInv => ReadsBackPrefix
<1> SUFFICES ASSUME CatchupInv PROVE ReadsBackPrefix
  OBVIOUS
<1> DEFINE read == ParseFile(playlist).chunks
<1>1. /\ Len(read) <= Len(written)
      /\ \A i \in 1..Len(read) : read[i] = ReadBack(written[i]) /\ written[i] \in Entries
  BY ReadTypes DEF CatchupInv
<1> HIDE DEF read
<1>2. ASSUME NEW i \in 1..Len(read) PROVE SameEntry(read[i], written[i])
  <2>1. written[i].duration \in 0..(UintMod - 1)
    BY <1>1 DEF Entries
  <2>2. /\ read[i].duration = Nanoseconds(Hundredths(written[i].duration))
        /\ read[i].index = written[i].index
    <3>1. /\ \A c : ReadBack(c).duration = Nanoseconds(Hundredths(c.duration))
          /\ \A c : ReadBack(c).index = c.index
      BY DEF ReadBack, Entry
    <3>2. QED
      BY <1>1, <3>1
  <2>3. QED
    BY <2>1, <2>2, RoundTrip DEF SameEntry
<1>3. QED
  BY <1>1, <1>2 DEF ReadsBackPrefix, read

\* An accepted file ends behind an entry.
LEMMA InvAccepts == CatchupInv => AcceptedIsWhole
<1> SUFFICES ASSUME CatchupInv, ParseFile(playlist).ok
             PROVE  \/ playlist = Lines(written)
                    \/ \E n \in 1..Len(written) : playlist = Written(written, 5 + 2 * n, FALSE)
  BY DEF AcceptedIsWhole
<1>1. PICK n \in 0..(2 * Len(written) + 6), cut \in BOOLEAN :
        /\ cut => n < 2 * Len(written) + 6
        /\ playlist = Written(written, n, cut)
  BY DEF CatchupInv, FileInv
<1>2. written \in Seq(Entries)
  BY DEF CatchupInv, CatchupTypeOK
<1>3. ~cut /\ (n = 2 * Len(written) + 6 \/ \E e \in 1..Len(written) : n = 5 + 2 * e)
  BY <1>1, <1>2, ParseWritten
<1>4. CASE n = 2 * Len(written) + 6
  <2>1. playlist = SubSeq(Lines(written), 1, n)
    BY <1>1, <1>3 DEF Written
  <2>2. Lines(written) \in Seq(FileLines) /\ Len(Lines(written)) = n
    BY <1>2, <1>4, LinesAre
  <2>3. SubSeq(Lines(written), 1, n) = Lines(written)
    BY <2>2
  <2>4. QED
    BY <2>1, <2>3
<1>5. CASE \E e \in 1..Len(written) : n = 5 + 2 * e
  <2>1. PICK e \in 1..Len(written) : n = 5 + 2 * e
    BY <1>5
  <2>2. playlist = Written(written, 5 + 2 * e, FALSE)
    BY <1>1, <1>3, <2>1
  <2>3. QED
    BY <2>2
<1>6. QED
  BY <1>3, <1>4, <1>5

\* A run writes again what it has read.
LEMMA InvKeepsEntries ==
  ASSUME CatchupInv, [NextCatchup]_catchup_vars, run # "off", run' = "off",
         <<playlist, written>>' # <<playlist, written>>
  PROVE  /\ Len(loaded) <= Len(written')
         /\ \A i \in 1..Len(loaded) :
                /\ written'[i].index = loaded[i].index
                /\ i < Len(loaded) /\ loaded[i].duration # NoTime =>
                       ReadBack(written'[i]) = loaded[i]
<1>1. written' = Finished(chunks_)
  BY DEF NextCatchup, StartRun, CatchupOnPathSet, ChunkOpened, RemoveOldChunks, WriteM3u8List,
         RunLost, catchup_vars
<1>2. chunks_ \in Seq(Entries) /\ loaded \in Seq(Entries)
  BY DEF CatchupInv, CatchupTypeOK
<1>3. /\ Len(written') = Len(chunks_)
      /\ \A i \in 1..Len(chunks_) : /\ written'[i].index = chunks_[i].index
                                    /\ chunks_[i].duration # NoTime => written'[i] = chunks_[i]
  BY <1>1, <1>2, FinishedAre
<1>4. /\ Len(loaded) <= Len(chunks_)
      /\ \A i \in 1..Len(loaded) : chunks_[i].index = loaded[i].index
      /\ \A i \in 1..(Len(loaded) - 1) : chunks_[i] = loaded[i]
  BY DEF CatchupInv, RunInv
<1>5. ASSUME NEW i \in 1..Len(loaded)
      PROVE  /\ written'[i].index = loaded[i].index
             /\ i < Len(loaded) /\ loaded[i].duration # NoTime =>
                    ReadBack(written'[i]) = loaded[i]
  <2>1. i \in 1..Len(chunks_)
    BY <1>2, <1>4
  <2>2. written'[i].index = loaded[i].index
    BY <1>3, <1>4, <2>1
  <2>3. ASSUME i < Len(loaded), loaded[i].duration # NoTime
        PROVE  ReadBack(written'[i]) = loaded[i]
    <3>1. i \in 1..(Len(loaded) - 1)
      BY <1>2, <2>3
    <3>2. written'[i] = loaded[i]
      BY <1>3, <1>4, <2>1, <2>3, <3>1
    <3>3. PICK h \in 0..UintMod : loaded[i].duration = Nanoseconds(h)
      BY DEF CatchupInv, LoadedInv
    <3>4. Nanoseconds(Hundredths(loaded[i].duration)) = loaded[i].duration
      BY <2>3, <3>3, NoDrift
    <3>5. loaded[i] \in Entries
      BY <1>2
    <3>6. QED
      BY <3>2, <3>4, <3>5 DEF ReadBack, Entry, Entries
  <2>4. QED
    BY <2>2, <2>3
<1>6. QED
  BY <1>3, <1>4, <1>5

\* For every length of the list and every kind of rounding: wherever a write of
\* the playlist is cut off and however runs end, a later run reads whole entries
\* of what was to be written, accepts only a file that ends behind an entry, adds
\* its own chunks in order and writes the earlier ones again as they were.
THEOREM PlaylistsAreFaithful == SpecCatchup => PlaylistIsFaithful
<1>1. CatchupInv => CatchupTypeOK /\ ReadsBackPrefix /\ AcceptedIsWhole /\ EntriesFollow
  BY InvReadsBack, InvAccepts DEF CatchupInv
<1>2. CatchupInv /\ [NextCatchup]_catchup_vars =>
        [run # "off" /\ run' = "off" /\ <<playlist, written>>' # <<playlist, written>> =>
           /\ Len(loaded) <= Len(written')
           /\ \A i \in 1..Len(loaded) :
                  /\ written'[i].index = loaded[i].index
                  /\ i < Len(loaded) /\ loaded[i].duration # NoTime =>
                         ReadBack(written'[i]) = loaded[i]]_catchup_vars
  BY InvKeepsEntries
<1>3. QED
  BY <1>1, <1>2, CatchupInvHolds, PTL DEF SpecCatchup, PlaylistIsFaithful, EarlierEntriesStay

-----------------------------------------------------------------------------
(* The order of a playlist. What the list says of buffers, as operators of     *)
(* the list l and of whether it is looped.                                     *)

EmptyIn(l, from, to) == \A i \in from..to : l[i] = 0

BeginsFileIn(l, x) == x.pos \in DOMAIN l /\ x.nr = 1 /\ l[x.pos] > 0

BeginsIn(l, x) == BeginsFileIn(l, x) /\ EmptyIn(l, 1, x.pos - 1)

FollowsIn(l, lp, x, y) ==
    \/ y.pos = x.pos /\ y.nr = x.nr + 1 /\ y.nr <= l[x.pos]
    \/ /\ x.nr = l[x.pos] /\ BeginsFileIn(l, y)
       /\ \/ x.pos < y.pos /\ EmptyIn(l, x.pos + 1, y.pos - 1)
          \/ lp /\ EmptyIn(l, x.pos + 1, Len(l)) /\ EmptyIn(l, 1, y.pos - 1)

EndsIn(l, lp, i) ==
    \E k \in (i + 1)..(Len(l) + 1) :
        /\ EmptyIn(l, i + 1, k - 1)
        /\ IF k = Len(l) + 1 THEN ~lp ELSE l[k] = Missing

CompleteIn(l, lp, a) ==
    IF a = <<>> THEN EndsIn(l, lp, 0)
    ELSE a[Len(a)].nr = l[a[Len(a)].pos] /\ EndsIn(l, lp, a[Len(a)].pos)

\* The model's definitions are these of its list.
LEMMA OfTheList ==
    /\ \A x : BeginsList(x) <=> BeginsIn(input, x)
    /\ \A x, y : Follows(x, y) <=> FollowsIn(input, loop, x, y)
    /\ \A o : IsComplete(o) <=> CompleteIn(input, loop, arrived[o])
<1>1. \A x : BeginsList(x) <=> BeginsIn(input, x)
  BY DEF BeginsList, BeginsIn, BeginsFile, BeginsFileIn, Empty, EmptyIn
<1>2. \A x, y : Follows(x, y) <=> FollowsIn(input, loop, x, y)
  BY DEF Follows, FollowsIn, EndsFile, BeginsFile, BeginsFileIn, Empty, EmptyIn
<1>3. \A i : EndsAfter(i) <=> EndsIn(input, loop, i)
  BY DEF EndsAfter, EndsIn, Empty, EmptyIn
<1>4. \A o : IsComplete(o) <=> CompleteIn(input, loop, arrived[o])
  BY <1>3 DEF IsComplete, CompleteIn, EndsFile
<1> QED
  BY <1>1, <1>2, <1>4

Kinds_ == {"none", "stream_start", "segment", "buffer", "eos"}
Items  == [kind : Kinds_, pos : Nat, nr : Nat]
Probes == [linked : BOOLEAN, segment : BOOLEAN, eos : BOOLEAN,
           saw_stream_start : BOOLEAN, saw_serialized_event : BOOLEAN]

\* Item y may come directly after x.
ItemNext(l, lp, x, y) ==
    \/ x.kind = "none" /\ y.kind = "stream_start"
    \/ x.kind = "stream_start" /\ y.kind = "segment"
    \/ x.kind = "stream_start" /\ y.kind = "eos" /\ EndsIn(l, lp, 0)
    \/ x.kind = "segment" /\ y.kind = "buffer" /\ BeginsIn(l, y)
    \/ x.kind = "buffer" /\ y.kind = "buffer" /\ FollowsIn(l, lp, x, y)
    \/ x.kind = "buffer" /\ y.kind = "eos" /\ x.nr = l[x.pos] /\ EndsIn(l, lp, x.pos)

\* A sink with the buffers a and the probe pr, after item x.
SinkAfter(l, lp, a, pr, x) ==
    \/ x.kind \in {"none", "stream_start"} /\ a = <<>> /\ pr.segment = FALSE /\ pr.eos = TRUE
    \/ x.kind = "segment" /\ a = <<>> /\ pr.segment = TRUE /\ pr.eos = FALSE
    \/ x.kind = "buffer" /\ a # <<>> /\ a[Len(a)] = x /\ pr.segment = TRUE /\ pr.eos = FALSE
    \/ x.kind = "eos" /\ pr.segment = FALSE /\ pr.eos = TRUE /\ CompleteIn(l, lp, a)

\* The last item of the queue w, or the last one its sink got, is x.
Newest(l, lp, a, pr, w, x) ==
    IF w = <<>> THEN SinkAfter(l, lp, a, pr, x) ELSE w[Len(w)] = x

\* What a sink has got and what is queued for it are in the order of the list.
QueueInv(l, lp, a, pr, w) ==
    /\ \A k \in DOMAIN a :
           IF k = 1 THEN BeginsIn(l, a[k]) ELSE FollowsIn(l, lp, a[k - 1], a[k])
    /\ a # <<>> /\ pr.eos = TRUE => CompleteIn(l, lp, a)
    /\ \A k \in 1..(Len(w) - 1) : ItemNext(l, lp, w[k], w[k + 1])
    /\ w # <<>> => \E x \in Items : SinkAfter(l, lp, a, pr, x) /\ ItemNext(l, lp, x, w[1])

\* All files behind position i, up to c, were empty.
PassedIn(l, lp, i, c) ==
    \/ i <= c /\ EmptyIn(l, i + 1, c)
    \/ lp /\ EmptyIn(l, i + 1, Len(l)) /\ EmptyIn(l, 1, c)

\* All files between those two were empty.
OpenedIn(l, lp, i, c) ==
    \/ i < c /\ EmptyIn(l, i + 1, c - 1)
    \/ lp /\ EmptyIn(l, i + 1, Len(l)) /\ EmptyIn(l, 1, c - 1)

\* x is no buffer yet or one of the list, and the way to it was free.
IsRead(l, x) ==
    /\ x.pos \in 0..Len(l)
    /\ x.pos = 0 => x.nr = 0
    /\ x.pos > 0 => x.nr \in 1..l[x.pos]
    /\ \A j \in 1..x.pos : l[j] # Missing

AtEnd(l, x) == x.pos = 0 \/ x.nr = l[x.pos]

\* Item x is the last that was read, with c files opened in this round and f the
\* open one.
ReadUpTo(l, lp, c, f, x) ==
    /\ IsRead(l, x)
    /\ f = NoFile => AtEnd(l, x) /\ PassedIn(l, lp, x.pos, c)
    /\ f # NoFile =>
           /\ f.pos = c /\ c >= 1 /\ l[c] \in Nat /\ f.left \in 0..l[c]
           /\ \/ f.left < l[c] /\ x.pos = c /\ x.nr = l[c] - f.left
              \/ f.left = l[c] /\ AtEnd(l, x) /\ OpenedIn(l, lp, x.pos, c)

\* What the thread of appsrc is about to do after item x, which is the last it
\* pushed; its pad has seen a segment (seg) and the end of stream (eos).
SourceAfter(l, lp, c, f, pc, it, seg, eos, x) ==
    /\ (seg = TRUE <=> x.kind \in {"segment", "buffer"})
    /\ x.kind = "none" =>
           /\ pc = "stopped" \/ (pc = "push" /\ it.kind = "stream_start")
           /\ c = 0 /\ f = NoFile /\ (pc = "push" => it.pos = 0 /\ it.nr = 0)
    /\ x.kind = "eos" => pc = "stopped" /\ eos = TRUE
    /\ x.kind \in {"stream_start", "segment", "buffer"} => pc \in {"idle", "need_data", "push"}
    /\ x.kind = "stream_start" => x.pos = 0
    /\ x.kind = "buffer" => x.pos > 0
    /\ pc \in {"idle", "need_data"} => x.kind # "segment" /\ ReadUpTo(l, lp, c, f, x)
    /\ pc = "push" /\ x.kind # "none" =>
           \/ it.kind = "eos" /\ ItemNext(l, lp, x, it)
           \/ /\ it.kind = "buffer" /\ it.pos > 0 /\ ReadUpTo(l, lp, c, f, it)
              /\ IF x.kind = "stream_start" THEN BeginsIn(l, it) ELSE ItemNext(l, lp, x, it)

Types_ ==
    /\ input \in Lists /\ loop \in BOOLEAN /\ vod \in BOOLEAN /\ told \in BOOLEAN
    /\ exec \in {"new", "built", "playing", "looping", "left", "stopping", "returned", "destroyed"}
    /\ source_pc \in {"stopped", "push", "idle", "need_data"}
    /\ curent_pos_ \in 0..Len(input)
    /\ current_file_ \in [pos : Nat, left : Int]
    /\ item \in Items
    /\ pipe \in [Sinks -> Seq(Items)]
    /\ arrived \in [Sinks -> Seq(Items)]
    /\ probe_in \in Probes
    /\ probe_out \in [Sinks -> Probes]
    /\ eos_posted \in BOOLEAN

\* Before the pipeline plays nothing runs, and once it is being stopped nothing
\* is on its way.
PhaseInv ==
    /\ exec \in {"new", "built"} => source_pc = "stopped" /\ item.kind = "none"
    /\ exec \in {"new", "built"} => \A o \in Sinks : pipe[o] = <<>>
    /\ exec \in {"returned", "destroyed"} => source_pc = "stopped"
    /\ exec \in {"stopping", "returned", "destroyed"} => \A o \in Sinks : pipe[o] = <<>>

QueuesInv == \A o \in Sinks : QueueInv(input, loop, arrived[o], probe_out[o], pipe[o])

SourceIs(x) ==
    /\ \A o \in Sinks : Newest(input, loop, arrived[o], probe_out[o], pipe[o], x)
    /\ SourceAfter(input, loop, curent_pos_, current_file_, source_pc, item,
                   probe_in.segment, probe_in.eos, x)
    /\ exec \in {"new", "built"} <=> x.kind = "none" /\ source_pc = "stopped"

SourceInv ==
    exec \in {"new", "built", "playing", "looping", "left"} => \E x \in Items : SourceIs(x)

\* Everything has arrived and nothing more will come.
AllDone ==
    /\ source_pc = "stopped" /\ exec \notin {"new", "built"}
    /\ probe_in.eos = TRUE
    /\ \A o \in Sinks : /\ pipe[o] = <<>> /\ probe_out[o].eos = TRUE
                        /\ CompleteIn(input, loop, arrived[o])

EndInv ==
    /\ eos_posted => AllDone
    /\ exit_status # NoExit /\ ~told =>
           AllDone /\ exit_status = IF vod THEN "EXIT_SELF" ELSE "EXIT_INNER"

PlaylistInv == Types_ /\ PhaseInv /\ QueuesInv /\ SourceInv /\ EndInv

\* What the probes make of an item.
LEMMA ProbeSees ==
  ASSUME NEW pr \in Probes, NEW x \in Items
  PROVE  /\ SeesEvent(pr, x) \in Probes
         /\ x.kind = "segment" => SeesEvent(pr, x).segment = TRUE /\ SeesEvent(pr, x).eos = FALSE
         /\ x.kind = "eos" => SeesEvent(pr, x).segment = FALSE /\ SeesEvent(pr, x).eos = TRUE
         /\ x.kind \notin {"segment", "eos"} => SeesEvent(pr, x) = pr
<1>1. CASE x.kind = "segment"
  <2>1. SeesEvent(pr, x) = [pr EXCEPT !.segment = TRUE, !.eos = FALSE]
    BY <1>1 DEF SeesEvent
  <2> QED
    BY <1>1, <2>1 DEF Probes
<1>2. CASE x.kind = "eos"
  <2>1. SeesEvent(pr, x) = [pr EXCEPT !.segment = FALSE, !.eos = TRUE]
    BY <1>2 DEF SeesEvent
  <2> QED
    BY <1>2, <2>1 DEF Probes
<1>3. CASE x.kind \notin {"segment", "eos"}
  <2>1. SeesEvent(pr, x) = pr
    BY <1>3 DEF SeesEvent
  <2> QED
    BY <1>3, <2>1
<1> QED
  BY <1>1, <1>2, <1>3

\* The same for the probe of the source.
LEMMA InputProbeSees ==
  ASSUME NEW pr \in Probes, NEW x \in Items
  PROVE  /\ InputSees(pr, x) \in Probes
         /\ x.kind = "segment" => InputSees(pr, x).segment = TRUE /\ InputSees(pr, x).eos = FALSE
         /\ x.kind = "eos" => InputSees(pr, x).segment = FALSE /\ InputSees(pr, x).eos = TRUE
         /\ x.kind \notin {"segment", "eos"} => /\ InputSees(pr, x).segment = pr.segment
                                                /\ InputSees(pr, x).eos = pr.eos
<1> DEFINE q == SeesEvent(pr, x)
           u == q.saw_stream_start \/ x.kind = "stream_start"
           v == q.saw_serialized_event \/ x.kind # "buffer"
<1>1. q \in Probes
  BY ProbeSees
<1>2. InputSees(pr, x) = [q EXCEPT !.saw_stream_start = u, !.saw_serialized_event = v]
  BY DEF InputSees
<1>3. u \in BOOLEAN /\ v \in BOOLEAN
  OBVIOUS
<1> HIDE DEF q, u, v
<1>4. /\ InputSees(pr, x) \in Probes
      /\ InputSees(pr, x).segment = q.segment /\ InputSees(pr, x).eos = q.eos
  BY <1>1, <1>2, <1>3 DEF Probes
<1> QED
  BY <1>4, ProbeSees DEF q

\* Linking and clearing a probe leave its statuses.
LEMMA ProbeLinks ==
  ASSUME NEW pr \in Probes
  PROVE  /\ Link(pr) \in Probes /\ Link(pr).segment = pr.segment /\ Link(pr).eos = pr.eos
         /\ Clear(pr) \in Probes /\ Clear(pr).segment = pr.segment /\ Clear(pr).eos = pr.eos
  BY DEF Link, Clear, Probes

\* The items of the model.
LEMMA ItemTypes ==
    /\ \A k \in Kinds_ : Event(k) \in Items /\ Event(k).kind = k /\ Event(k).pos = 0 /\ Event(k).nr = 0
    /\ Nothing \in Items /\ Nothing.kind = "none"
    /\ \A p, n \in Nat : /\ Buffer(p, n) \in Items /\ Buffer(p, n).kind = "buffer"
                         /\ Buffer(p, n).pos = p /\ Buffer(p, n).nr = n
    /\ Unlinked \in Probes /\ Unlinked.segment = FALSE /\ Unlinked.eos = TRUE
    /\ NoFile \in [pos : Nat, left : Int]
  BY DEF Event, Nothing, Buffer, Items, Kinds_, Unlinked, Probes, NoFile

-----------------------------------------------------------------------------
(* What a sink does with the next item.                                        *)

\* The buffers a sink has after an item.
Got(a, x) == IF x.kind = "buffer" THEN Append(a, x) ELSE a

\* A sink that gets what may come next is as after that item.
LEMMA SinkGoesOn ==
  ASSUME NEW l, NEW lp, NEW a \in Seq(Items), NEW pr \in Probes,
         NEW x \in Items, NEW y \in Items,
         SinkAfter(l, lp, a, pr, x), ItemNext(l, lp, x, y)
  PROVE  SinkAfter(l, lp, Got(a, y), SeesEvent(pr, y), y)
<1>1. CASE y.kind = "stream_start"
  <2>1. Got(a, y) = a /\ SeesEvent(pr, y) = pr
    BY <1>1, ProbeSees DEF Got
  <2>2. x.kind = "none"
    BY <1>1 DEF ItemNext
  <2> QED
    BY <1>1, <2>1, <2>2 DEF SinkAfter
<1>2. CASE y.kind = "segment"
  <2>1. Got(a, y) = a /\ SeesEvent(pr, y).segment = TRUE /\ SeesEvent(pr, y).eos = FALSE
    BY <1>2, ProbeSees DEF Got
  <2>2. x.kind = "stream_start"
    BY <1>2 DEF ItemNext
  <2> QED
    BY <1>2, <2>1, <2>2 DEF SinkAfter
<1>3. CASE y.kind = "buffer"
  <2>1. Got(a, y) = Append(a, y) /\ SeesEvent(pr, y) = pr
    BY <1>3, ProbeSees DEF Got
  <2>2. x.kind \in {"segment", "buffer"}
    BY <1>3 DEF ItemNext
  <2>3. Append(a, y) # <<>> /\ Append(a, y)[Len(Append(a, y))] = y
    OBVIOUS
  <2>4. pr.segment = TRUE /\ pr.eos = FALSE
    BY <2>2 DEF SinkAfter
  <2> QED
    BY <1>3, <2>1, <2>3, <2>4 DEF SinkAfter
<1>4. CASE y.kind = "eos"
  <2>1. Got(a, y) = a /\ SeesEvent(pr, y).segment = FALSE /\ SeesEvent(pr, y).eos = TRUE
    BY <1>4, ProbeSees DEF Got
  <2>2. CompleteIn(l, lp, a)
    <3>1. CASE x.kind = "stream_start"
      BY <1>4, <3>1 DEF ItemNext, SinkAfter, CompleteIn
    <3>2. CASE x.kind = "buffer"
      BY <1>4, <3>2 DEF ItemNext, SinkAfter, CompleteIn
    <3> QED
      BY <1>4, <3>1, <3>2 DEF ItemNext
  <2> QED
    BY <1>4, <2>1, <2>2 DEF SinkAfter
<1> QED
  BY <1>1, <1>2, <1>3, <1>4 DEF ItemNext

\* What a sink has got stays in the order of the list.
LEMMA GotInOrder ==
  ASSUME NEW l, NEW lp, NEW a \in Seq(Items), NEW pr \in Probes,
         NEW x \in Items, NEW y \in Items,
         SinkAfter(l, lp, a, pr, x), ItemNext(l, lp, x, y),
         \A k \in DOMAIN a : IF k = 1 THEN BeginsIn(l, a[k]) ELSE FollowsIn(l, lp, a[k - 1], a[k])
  PROVE  \A k \in DOMAIN Got(a, y) :
             IF k = 1 THEN BeginsIn(l, Got(a, y)[k]) ELSE FollowsIn(l, lp, Got(a, y)[k - 1], Got(a, y)[k])
<1>1. CASE y.kind # "buffer"
  BY <1>1 DEF Got
<1>2. CASE y.kind = "buffer"
  <2>1. Got(a, y) = Append(a, y)
    BY <1>2 DEF Got
  <2>2. CASE x.kind = "segment"
    <3>1. a = <<>> /\ BeginsIn(l, y)
      BY <1>2, <2>2 DEF SinkAfter, ItemNext
    <3>2. Append(a, y) = <<y>>
      BY <3>1
    <3>3. DOMAIN <<y>> = {1} /\ <<y>>[1] = y
      OBVIOUS
    <3> QED
      BY <2>1, <3>1, <3>2, <3>3
  <2>3. CASE x.kind = "buffer"
    <3>1. a # <<>> /\ a[Len(a)] = x /\ FollowsIn(l, lp, x, y)
      BY <1>2, <2>3 DEF SinkAfter, ItemNext
    <3>2. /\ DOMAIN Append(a, y) = 1..(Len(a) + 1) /\ DOMAIN a = 1..Len(a) /\ Len(a) \in Nat \ {0}
          /\ \A k \in 1..Len(a) : Append(a, y)[k] = a[k]
          /\ Append(a, y)[Len(a) + 1] = y
      BY <3>1
    <3> SUFFICES ASSUME NEW k \in 1..(Len(a) + 1)
                 PROVE  IF k = 1 THEN BeginsIn(l, Append(a, y)[k])
                        ELSE FollowsIn(l, lp, Append(a, y)[k - 1], Append(a, y)[k])
      BY <2>1, <3>2
    <3>3. CASE k = Len(a) + 1
      <4>1. k # 1 /\ k - 1 = Len(a) /\ k - 1 \in 1..Len(a)
        BY <3>2, <3>3
      <4> QED
        BY <3>1, <3>2, <3>3, <4>1
    <3>4. CASE k \in 1..Len(a) /\ k # 1
      <4>1. k - 1 \in 1..Len(a)
        BY <3>2, <3>4
      <4> QED
        BY <3>2, <3>4, <4>1
    <3>5. CASE k = 1
      <4>1. k \in 1..Len(a)
        BY <3>2, <3>5
      <4> QED
        BY <3>2, <3>5, <4>1
    <3> QED
      BY <3>2, <3>3, <3>4, <3>5
  <2> QED
    BY <1>2, <2>2, <2>3 DEF ItemNext
<1> QED
  BY <1>1, <1>2

\* A sink after an item has the end of stream only if it is complete.
LEMMA EndedIsComplete ==
  ASSUME NEW l, NEW lp, NEW a \in Seq(Items), NEW pr, NEW x \in Items, SinkAfter(l, lp, a, pr, x),
         a # <<>>, pr.eos = TRUE
  PROVE  CompleteIn(l, lp, a)
  BY DEF SinkAfter

\* An item leaves the queue for its sink.
LEMMA QueueReceives ==
  ASSUME NEW l, NEW lp, NEW a \in Seq(Items), NEW pr \in Probes, NEW w \in Seq(Items), w # <<>>,
         QueueInv(l, lp, a, pr, w)
  PROVE  /\ QueueInv(l, lp, Got(a, Head(w)), SeesEvent(pr, Head(w)), Tail(w))
         /\ SinkAfter(l, lp, Got(a, Head(w)), SeesEvent(pr, Head(w)), Head(w))
         /\ \A x : Newest(l, lp, a, pr, w, x) =>
                Newest(l, lp, Got(a, Head(w)), SeesEvent(pr, Head(w)), Tail(w), x)
         /\ Head(w) \in Items
         /\ Head(w).kind = "eos" => Tail(w) = <<>> /\ Len(w) = 1
<1> DEFINE y == w[1]
           b == Got(a, y)
           q == SeesEvent(pr, y)
           t == Tail(w)
<1>1. /\ Head(w) = y /\ y \in Items /\ t \in Seq(Items) /\ Len(w) \in Nat \ {0}
      /\ Len(t) = Len(w) - 1 /\ \A k \in 1..(Len(w) - 1) : t[k] = w[k + 1]
  OBVIOUS
<1>1a. t = <<>> <=> Len(w) = 1
  <2>1. t = <<>> <=> Len(t) = 0
    BY <1>1
  <2> QED
    BY <1>1, <2>1
<1>2. PICK x \in Items : SinkAfter(l, lp, a, pr, x) /\ ItemNext(l, lp, x, y)
  BY DEF QueueInv
<1>3. SinkAfter(l, lp, b, q, y)
  BY <1>1, <1>2, SinkGoesOn
<1>4. \A k \in DOMAIN b : IF k = 1 THEN BeginsIn(l, b[k]) ELSE FollowsIn(l, lp, b[k - 1], b[k])
  BY <1>1, <1>2, GotInOrder DEF QueueInv
<1>5. b \in Seq(Items)
  BY <1>1 DEF Got
<1> HIDE DEF b, q, y, t
<1>6. b # <<>> /\ q.eos = TRUE => CompleteIn(l, lp, b)
  BY <1>1, <1>3, <1>5, EndedIsComplete
<1>7. \A k \in 1..(Len(w) - 1) : ItemNext(l, lp, w[k], w[k + 1])
  BY DEF QueueInv
<1>8. \A k \in 1..(Len(t) - 1) : ItemNext(l, lp, t[k], t[k + 1])
  <2> SUFFICES ASSUME NEW k \in 1..(Len(t) - 1) PROVE ItemNext(l, lp, t[k], t[k + 1])
    OBVIOUS
  <2>1. k \in 1..(Len(w) - 1) /\ k + 1 \in 1..(Len(w) - 1)
    BY <1>1
  <2>2. t[k] = w[k + 1] /\ t[k + 1] = w[(k + 1) + 1]
    BY <1>1, <2>1
  <2> QED
    BY <1>7, <2>1, <2>2
<1>9. t # <<>> => ItemNext(l, lp, y, t[1])
  <2> SUFFICES ASSUME t # <<>> PROVE ItemNext(l, lp, y, t[1])
    OBVIOUS
  <2>1. 1 \in 1..(Len(w) - 1) /\ t[1] = w[1 + 1]
    BY <1>1, <1>1a
  <2> QED
    BY <1>7, <2>1 DEF y
<1>10. QueueInv(l, lp, b, q, t)
  BY <1>1, <1>3, <1>4, <1>6, <1>8, <1>9 DEF QueueInv
<1>11. \A z : Newest(l, lp, a, pr, w, z) => Newest(l, lp, b, q, t, z)
  <2> SUFFICES ASSUME NEW z, Newest(l, lp, a, pr, w, z) PROVE Newest(l, lp, b, q, t, z)
    OBVIOUS
  <2>1. w[Len(w)] = z
    BY DEF Newest
  <2>2. CASE t = <<>>
    <3>1. z = y
      BY <1>1, <1>1a, <2>1, <2>2 DEF y
    <3> QED
      BY <1>3, <2>2, <3>1 DEF Newest
  <2>3. CASE t # <<>>
    <3>1. Len(t) \in 1..(Len(w) - 1) /\ Len(t) + 1 = Len(w)
      BY <1>1, <1>1a, <2>3
    <3>2. t[Len(t)] = z
      BY <1>1, <2>1, <3>1
    <3> QED
      BY <2>3, <3>2 DEF Newest
  <2> QED
    BY <2>2, <2>3
<1>12. y.kind = "eos" => t = <<>> /\ Len(w) = 1
  BY <1>1a, <1>9 DEF ItemNext
<1> QED
  BY <1>1, <1>3, <1>10, <1>11, <1>12 DEF b, q, t

\* An item enters the queue.
LEMMA QueueGrows ==
  ASSUME NEW l, NEW lp, NEW a \in Seq(Items), NEW pr \in Probes, NEW w \in Seq(Items),
         QueueInv(l, lp, a, pr, w),
         NEW x \in Items, NEW y \in Items,
         Newest(l, lp, a, pr, w, x), ItemNext(l, lp, x, y)
  PROVE  /\ QueueInv(l, lp, a, pr, Append(w, y))
         /\ Newest(l, lp, a, pr, Append(w, y), y)
         /\ Append(w, y) \in Seq(Items)
<1> DEFINE v == Append(w, y)
<1>1. /\ v \in Seq(Items) /\ v # <<>> /\ Len(v) = Len(w) + 1 /\ v[Len(v)] = y /\ Len(w) \in Nat
      /\ \A k \in 1..Len(w) : v[k] = w[k]
  OBVIOUS
<1> HIDE DEF v
<1>2. Newest(l, lp, a, pr, v, y)
  BY <1>1 DEF Newest
<1>3. CASE w = <<>>
  <2>1. SinkAfter(l, lp, a, pr, x)
    BY <1>3 DEF Newest
  <2>2. Len(v) = 1 /\ v[1] = y
    BY <1>1, <1>3
  <2>3. \A k \in 1..(Len(v) - 1) : ItemNext(l, lp, v[k], v[k + 1])
    BY <2>2
  <2> QED
    BY <1>1, <1>2, <2>1, <2>2, <2>3 DEF QueueInv, v
<1>4. CASE w # <<>>
  <2>1. w[Len(w)] = x /\ Len(w) >= 1 /\ v[1] = w[1]
    BY <1>1, <1>4 DEF Newest
  <2>2. \A k \in 1..(Len(w) - 1) : ItemNext(l, lp, w[k], w[k + 1])
    BY DEF QueueInv
  <2>3. \A k \in 1..(Len(v) - 1) : ItemNext(l, lp, v[k], v[k + 1])
    <3> SUFFICES ASSUME NEW k \in 1..(Len(v) - 1) PROVE ItemNext(l, lp, v[k], v[k + 1])
      OBVIOUS
    <3>1. CASE k = Len(w)
      BY <1>1, <2>1, <3>1
    <3>2. CASE k # Len(w)
      <4>1. k \in 1..(Len(w) - 1) /\ k \in 1..Len(w) /\ k + 1 \in 1..Len(w)
        BY <1>1, <3>2
      <4> QED
        BY <1>1, <2>2, <4>1
    <3> QED
      BY <3>1, <3>2
  <2> QED
    BY <1>1, <1>2, <1>4, <2>1, <2>3 DEF QueueInv, v
<1> QED
  BY <1>3, <1>4

-----------------------------------------------------------------------------
(* Reading the files of the list.                                              *)

IsList(l) == l \in Seq(Nat \cup {Missing}) /\ Len(l) > 0

Files_ == [pos : Nat, left : Int]

\* The file of position n, just opened.
FileAt(l, n) == [pos |-> n, left |-> l[n]]

\* The next position after c.
Successor(l, c) == IF c >= Len(l) THEN 1 ELSE c + 1

\* fread returns the next buffer of the list.
LEMMA ReadsNext ==
  ASSUME NEW l, IsList(l), NEW lp \in BOOLEAN, NEW c \in 0..Len(l), NEW f \in Files_, NEW x \in Items,
         ReadUpTo(l, lp, c, f, x), f # NoFile, f.left # 0
  PROVE  LET y == Buffer(f.pos, l[f.pos] - f.left + 1)
             g == [f EXCEPT !.left = @ - 1]
         IN  /\ y \in Items /\ y.kind = "buffer" /\ y.pos > 0 /\ g \in Files_
             /\ ReadUpTo(l, lp, c, g, y)
             /\ x.pos = 0 => BeginsIn(l, y)
             /\ x.pos > 0 => FollowsIn(l, lp, x, y)
<1> DEFINE y == Buffer(f.pos, l[f.pos] - f.left + 1)
           g == [f EXCEPT !.left = @ - 1]
<1>1. /\ c \in 1..Len(l) /\ f.pos = c /\ l[c] \in Nat /\ f.left \in 1..l[c] /\ Len(l) \in Nat
      /\ \/ f.left < l[c] /\ x.pos = c /\ x.nr = l[c] - f.left
         \/ f.left = l[c] /\ AtEnd(l, x) /\ OpenedIn(l, lp, x.pos, c)
  BY DEF ReadUpTo, Files_, IsList
<1>2. l[f.pos] - f.left + 1 \in Nat
  BY <1>1
<1>3. /\ y \in Items /\ y.kind = "buffer" /\ y.pos = c /\ y.nr = l[c] - f.left + 1 /\ y.pos > 0
  BY <1>1, <1>2, ItemTypes
<1>4. g \in Files_ /\ g.pos = c /\ g.left = f.left - 1 /\ g # NoFile
  BY <1>1 DEF Files_, NoFile
<1> HIDE DEF y, g
<1>5. IsRead(l, x)
  BY DEF ReadUpTo
<1>6. x.pos \in 0..Len(l) /\ (x.pos > 0 => x.nr \in 1..l[x.pos])
  BY <1>5 DEF IsRead
<1>7. \A j \in 1..(c - 1) : l[j] # Missing
  <2>1. CASE x.pos = c
    BY <1>1, <1>5, <2>1 DEF IsRead
  <2>2. CASE x.pos < c /\ EmptyIn(l, x.pos + 1, c - 1)
    <3> SUFFICES ASSUME NEW j \in 1..(c - 1) PROVE l[j] # Missing
      OBVIOUS
    <3>1. j \in 1..x.pos \/ j \in (x.pos + 1)..(c - 1)
      BY <1>1, <1>6
    <3> QED
      BY <1>5, <2>2, <3>1 DEF IsRead, EmptyIn, Missing
  <2>3. CASE EmptyIn(l, 1, c - 1)
    BY <2>3 DEF EmptyIn, Missing
  <2> QED
    BY <1>1, <2>1, <2>2, <2>3 DEF OpenedIn
<1>8. IsRead(l, y)
  <2>1. y.nr \in 1..l[y.pos]
    BY <1>1, <1>3
  <2>2. \A j \in 1..y.pos : l[j] # Missing
    <3> SUFFICES ASSUME NEW j \in 1..c PROVE l[j] # Missing
      BY <1>3
    <3>1. j \in 1..(c - 1) \/ j = c
      BY <1>1
    <3> QED
      BY <1>1, <1>7, <3>1 DEF Missing
  <2> QED
    BY <1>1, <1>3, <2>1, <2>2 DEF IsRead
<1>9. ReadUpTo(l, lp, c, g, y)
  BY <1>1, <1>3, <1>4, <1>8 DEF ReadUpTo
<1>10. c \in DOMAIN l
  BY <1>1 DEF IsList
<1>11. x.pos = 0 => BeginsIn(l, y)
  <2> SUFFICES ASSUME x.pos = 0 PROVE BeginsIn(l, y)
    OBVIOUS
  <2>1. f.left = l[c] /\ OpenedIn(l, lp, 0, c)
    BY <1>1
  <2>2. EmptyIn(l, 1, c - 1)
    BY <2>1 DEF OpenedIn
  <2> QED
    BY <1>1, <1>3, <1>10, <2>1, <2>2 DEF BeginsIn, BeginsFileIn
<1>12. x.pos > 0 => FollowsIn(l, lp, x, y)
  <2> SUFFICES ASSUME x.pos > 0 PROVE FollowsIn(l, lp, x, y)
    OBVIOUS
  <2>1. CASE f.left < l[c] /\ x.pos = c /\ x.nr = l[c] - f.left
    BY <1>1, <1>3, <2>1 DEF FollowsIn
  <2>2. CASE f.left = l[c] /\ AtEnd(l, x) /\ OpenedIn(l, lp, x.pos, c)
    <3>1. x.nr = l[x.pos]
      BY <1>6, <2>2 DEF AtEnd
    <3>2. BeginsFileIn(l, y)
      BY <1>1, <1>3, <1>10, <2>2 DEF BeginsFileIn
    <3>3. \/ x.pos < y.pos /\ EmptyIn(l, x.pos + 1, y.pos - 1)
          \/ lp /\ EmptyIn(l, x.pos + 1, Len(l)) /\ EmptyIn(l, 1, y.pos - 1)
      BY <1>3, <2>2 DEF OpenedIn
    <3> QED
      BY <3>1, <3>2, <3>3 DEF FollowsIn
  <2> QED
    BY <1>1, <2>1, <2>2
<1> QED
  BY <1>3, <1>4, <1>9, <1>11, <1>12 DEF y, g

\* The open file is at its end.
LEMMA ReadsEnd ==
  ASSUME NEW l, IsList(l), NEW lp \in BOOLEAN, NEW c \in 0..Len(l), NEW f \in Files_, NEW x \in Items,
         ReadUpTo(l, lp, c, f, x), f # NoFile, f.left = 0
  PROVE  ReadUpTo(l, lp, c, NoFile, x)
<1>1. /\ c \in 1..Len(l) /\ l[c] \in Nat /\ Len(l) \in Nat
      /\ \/ l[c] > 0 /\ x.pos = c /\ x.nr = l[c]
         \/ l[c] = 0 /\ AtEnd(l, x) /\ OpenedIn(l, lp, x.pos, c)
  BY DEF ReadUpTo, Files_, IsList
<1>2. IsRead(l, x) /\ x.pos \in 0..Len(l)
  BY DEF ReadUpTo, IsRead
<1>3. AtEnd(l, x)
  BY <1>1 DEF AtEnd
<1>4. PassedIn(l, lp, x.pos, c)
  <2>1. CASE x.pos = c
    <3>1. EmptyIn(l, x.pos + 1, c)
      BY <1>1, <2>1 DEF EmptyIn
    <3> QED
      BY <1>1, <2>1, <3>1 DEF PassedIn
  <2>2. CASE l[c] = 0 /\ x.pos < c /\ EmptyIn(l, x.pos + 1, c - 1)
    <3>1. EmptyIn(l, x.pos + 1, c)
      BY <1>1, <1>2, <2>2 DEF EmptyIn
    <3> QED
      BY <1>1, <1>2, <2>2, <3>1 DEF PassedIn
  <2>3. CASE l[c] = 0 /\ lp /\ EmptyIn(l, x.pos + 1, Len(l)) /\ EmptyIn(l, 1, c - 1)
    <3>1. EmptyIn(l, 1, c)
      BY <1>1, <1>2, <2>3 DEF EmptyIn
    <3> QED
      BY <2>3, <3>1 DEF PassedIn
  <2> QED
    BY <1>1, <2>1, <2>2, <2>3 DEF OpenedIn
<1> QED
  BY <1>2, <1>3, <1>4 DEF ReadUpTo

\* OpenNextFile finds the end of the list.
LEMMA NoMore ==
  ASSUME NEW l, IsList(l), NEW lp \in BOOLEAN, NEW c \in 0..Len(l), NEW x \in Items,
         ReadUpTo(l, lp, c, NoFile, x), ~lp, c >= Len(l)
  PROVE  AtEnd(l, x) /\ EndsIn(l, lp, x.pos)
<1>1. AtEnd(l, x) /\ PassedIn(l, lp, x.pos, c) /\ x.pos \in 0..Len(l) /\ Len(l) \in Nat /\ c = Len(l)
  BY DEF ReadUpTo, IsRead, IsList
<1>2. EmptyIn(l, x.pos + 1, Len(l))
  BY <1>1 DEF PassedIn
<1>3. Len(l) + 1 \in (x.pos + 1)..(Len(l) + 1) /\ (Len(l) + 1) - 1 = Len(l)
  BY <1>1
<1> QED
  BY <1>1, <1>2, <1>3 DEF EndsIn

\* OpenNextFile comes to a file.
LEMMA OpensNext ==
  ASSUME NEW l, IsList(l), NEW lp \in BOOLEAN, NEW c \in 0..Len(l), NEW x \in Items,
         ReadUpTo(l, lp, c, NoFile, x), c >= Len(l) => lp
  PROVE  LET n == Successor(l, c)
         IN  /\ n \in 1..Len(l)
             /\ l[n] = Missing => AtEnd(l, x) /\ EndsIn(l, lp, x.pos)
             /\ l[n] # Missing => FileAt(l, n) \in Files_ /\ ReadUpTo(l, lp, n, FileAt(l, n), x)
<1> DEFINE n == Successor(l, c)
<1>1. /\ IsRead(l, x) /\ AtEnd(l, x) /\ PassedIn(l, lp, x.pos, c) /\ x.pos \in 0..Len(l)
      /\ Len(l) \in Nat \ {0} /\ c \in 0..Len(l)
  BY DEF ReadUpTo, IsRead, IsList
<1>2. n \in 1..Len(l) /\ (c < Len(l) => n = c + 1) /\ (c = Len(l) => n = 1 /\ lp = TRUE)
  BY <1>1 DEF Successor
<1> HIDE DEF n
<1>3. \A j \in 1..Len(l) : l[j] \in Nat \cup {Missing}
  BY DEF IsList
<1>4. /\ \A j \in 1..x.pos : l[j] # Missing
      /\ x.pos > 0 => l[x.pos] > 0
  <2>1. x.pos > 0 => l[x.pos] \in Nat \cup {Missing} /\ x.nr \in 1..l[x.pos]
    BY <1>1, <1>3 DEF IsRead
  <2> QED
    BY <1>1, <2>1 DEF IsRead, Missing
<1>5. ASSUME l[n] = Missing PROVE EndsIn(l, lp, x.pos)
  <2>1. x.pos < n
    <3>1. ~(n \in 1..x.pos)
      BY <1>4, <1>5
    <3> QED
      BY <1>1, <1>2, <3>1
  <2>2. EmptyIn(l, x.pos + 1, n - 1)
    <3>1. CASE c = Len(l)
      <4>1. x.pos = 0 /\ n = 1
        BY <1>1, <1>2, <2>1, <3>1
      <4> QED
        BY <4>1 DEF EmptyIn
    <3>2. CASE c < Len(l) /\ x.pos <= c /\ EmptyIn(l, x.pos + 1, c)
      BY <1>1, <1>2, <3>2
    <3>3. CASE c < Len(l) /\ EmptyIn(l, 1, c)
      BY <1>1, <1>2, <3>3 DEF EmptyIn
    <3> QED
      BY <1>1, <3>1, <3>2, <3>3 DEF PassedIn
  <2>3. n \in (x.pos + 1)..(Len(l) + 1) /\ n # Len(l) + 1
    BY <1>1, <1>2, <2>1
  <2> QED
    BY <1>5, <2>2, <2>3 DEF EndsIn
<1>6. ASSUME l[n] # Missing PROVE FileAt(l, n) \in Files_ /\ ReadUpTo(l, lp, n, FileAt(l, n), x)
  <2>1. l[n] \in Nat
    BY <1>2, <1>3, <1>6
  <2>2. FileAt(l, n) \in Files_ /\ FileAt(l, n).pos = n /\ FileAt(l, n).left = l[n] /\ FileAt(l, n) # NoFile
    BY <1>1, <1>2, <2>1 DEF FileAt, Files_, NoFile
  <2>3. OpenedIn(l, lp, x.pos, n)
    <3>1. CASE c = Len(l)
      <4>1. EmptyIn(l, x.pos + 1, Len(l))
        BY <1>1, <3>1 DEF PassedIn
      <4>2. EmptyIn(l, 1, n - 1)
        BY <1>2, <3>1 DEF EmptyIn
      <4> QED
        BY <1>2, <3>1, <4>1, <4>2 DEF OpenedIn
    <3>2. CASE c < Len(l) /\ x.pos <= c /\ EmptyIn(l, x.pos + 1, c)
      <4>1. x.pos < n /\ n - 1 = c
        BY <1>1, <1>2, <3>2
      <4> QED
        BY <3>2, <4>1 DEF OpenedIn
    <3>3. CASE c < Len(l) /\ lp /\ EmptyIn(l, x.pos + 1, Len(l)) /\ EmptyIn(l, 1, c)
      <4>1. n - 1 = c
        BY <1>1, <1>2, <3>3
      <4> QED
        BY <3>3, <4>1 DEF OpenedIn
    <3> QED
      BY <1>1, <3>1, <3>2, <3>3 DEF PassedIn
  <2> QED
    BY <1>1, <1>2, <2>1, <2>2, <2>3 DEF ReadUpTo
<1> QED
  BY <1>1, <1>2, <1>5, <1>6 DEF n

-----------------------------------------------------------------------------
(* The steps.                                                                  *)

\* Only two statuses of a probe matter to its queue.
LEMMA SameStatuses ==
  ASSUME NEW l, NEW lp, NEW a, NEW pr, NEW q, NEW w, pr.segment = q.segment, pr.eos = q.eos
  PROVE  /\ QueueInv(l, lp, a, pr, w) => QueueInv(l, lp, a, q, w)
         /\ \A x : Newest(l, lp, a, pr, w, x) => Newest(l, lp, a, q, w, x)
<1>1. \A x : SinkAfter(l, lp, a, pr, x) <=> SinkAfter(l, lp, a, q, x)
  BY DEF SinkAfter
<1> QED
  BY <1>1 DEF QueueInv, Newest

\* A step that touches neither probes nor queues keeps what is in these.
LEMMA SameQueues ==
  ASSUME UNCHANGED <<input, loop, arrived, probe_out, pipe>>
  PROVE  /\ QueuesInv => QueuesInv'
         /\ \A x : (\A o \in Sinks : Newest(input, loop, arrived[o], probe_out[o], pipe[o], x))
                => (\A o \in Sinks : Newest(input', loop', arrived'[o], probe_out'[o], pipe'[o], x))
  BY DEF QueuesInv

\* What is done stays done when nothing of it is touched.
LEMMA SameDone ==
  ASSUME AllDone, exec' \notin {"new", "built"},
         UNCHANGED <<input, loop, source_pc, probe_in, probe_out, arrived, pipe>>
  PROVE  AllDone'
  BY DEF AllDone

\* The types of the lists.
LEMMA ListTypes == ASSUME NEW l \in Lists PROVE IsList(l)
  BY PlaylistAssumption DEF IsList

\* The invariant holds before the pipeline is built.
LEMMA PlaylistInvInit == ASSUME InitPlaylist PROVE PlaylistInv
<1> USE DEF InitPlaylist
<1>1. Types_
  <2>1. Len(input) \in Nat
    BY ListTypes DEF IsList
  <2>2. pipe \in [Sinks -> Seq(Items)] /\ arrived \in [Sinks -> Seq(Items)]
    <3>1. <<>> \in Seq(Items)
      OBVIOUS
    <3> QED
      BY <3>1
  <2>3. item \in Items /\ current_file_ \in [pos : Nat, left : Int]
    BY ItemTypes
  <2>4. probe_in \in Probes /\ probe_out \in [Sinks -> Probes]
    BY ItemTypes
  <2>5. curent_pos_ \in 0..Len(input)
    BY <2>1
  <2>6. told \in BOOLEAN /\ eos_posted \in BOOLEAN
    OBVIOUS
  <2> QED
    BY <2>2, <2>3, <2>4, <2>5, <2>6 DEF Types_
<1>2. PhaseInv
  BY ItemTypes DEF PhaseInv
<1>3. QueuesInv
  <2> SUFFICES ASSUME NEW o \in Sinks PROVE QueueInv(input, loop, <<>>, Unlinked, <<>>)
    BY DEF QueuesInv
  <2>1. DOMAIN <<>> = {} /\ Len(<<>>) = 0
    OBVIOUS
  <2> QED
    BY <2>1 DEF QueueInv
<1>4. SourceInv
  <2>1. SinkAfter(input, loop, <<>>, Unlinked, Nothing)
    BY ItemTypes DEF SinkAfter
  <2>2. SourceAfter(input, loop, curent_pos_, current_file_, source_pc, item,
                    probe_in.segment, probe_in.eos, Nothing)
    BY ItemTypes DEF SourceAfter
  <2>3. SourceIs(Nothing)
    BY <2>1, <2>2, ItemTypes DEF SourceIs, Newest
  <2> QED
    BY <2>3, ItemTypes DEF SourceInv
<1>5. EndInv
  BY DEF EndInv
<1> QED
  BY <1>1, <1>2, <1>3, <1>4, <1>5 DEF PlaylistInv

\* The builder links the probes.
LEMMA InitPipeLineStep == ASSUME PlaylistInv, InitPipeLine PROVE PlaylistInv'
<1> USE DEF InitPipeLine, LinkInputPad, LinkOutputPad, list_vars, file_vars
<1>1. Types_
  BY DEF PlaylistInv
<1>2. /\ probe_in' \in Probes /\ probe_in'.segment = probe_in.segment /\ probe_in'.eos = probe_in.eos
      /\ probe_out' \in [Sinks -> Probes]
      /\ \A o \in Sinks : probe_out'[o].segment = probe_out[o].segment /\ probe_out'[o].eos = probe_out[o].eos
  BY <1>1, ProbeLinks DEF Types_
<1>3. Types_'
  BY <1>1, <1>2 DEF Types_
<1>4. PhaseInv'
  BY DEF PhaseInv, PlaylistInv
<1>5. QueuesInv'
  BY <1>2, SameStatuses DEF QueuesInv, PlaylistInv
<1>6. SourceInv'
  <2>1. PICK x \in Items : SourceIs(x)
    BY DEF SourceInv, PlaylistInv
  <2>2. \A o \in Sinks : Newest(input', loop', arrived'[o], probe_out'[o], pipe'[o], x)
    BY <1>2, <2>1, SameStatuses DEF SourceIs
  <2>3. SourceIs(x)'
    BY <1>2, <2>1, <2>2 DEF SourceIs
  <2> QED
    BY <2>3 DEF SourceInv
<1>7. EndInv'
  <2>1. ~AllDone
    BY DEF AllDone
  <2>2. ~eos_posted /\ (exit_status = NoExit \/ told)
    BY <2>1 DEF EndInv, PlaylistInv
  <2> QED
    BY <2>2 DEF EndInv
<1> QED
  BY <1>3, <1>4, <1>5, <1>6, <1>7 DEF PlaylistInv

\* The thread of appsrc starts.
LEMMA PlayStep == ASSUME PlaylistInv, Play PROVE PlaylistInv'
<1> USE DEF Play, list_vars, file_vars
<1>1. Types_ /\ PhaseInv /\ exec = "built" /\ source_pc = "stopped"
  BY DEF PlaylistInv, PhaseInv
<1>2. item' \in Items /\ item'.kind = "stream_start" /\ item'.pos = 0 /\ item'.nr = 0
  BY ItemTypes DEF Kinds_
<1>3. Types_'
  BY <1>1, <1>2 DEF Types_
<1>4. PhaseInv'
  BY DEF PhaseInv
<1>5. QueuesInv'
  BY SameQueues DEF PlaylistInv
<1>6. SourceInv'
  <2>1. PICK x \in Items : SourceIs(x)
    BY DEF SourceInv, PlaylistInv
  <2>2. x.kind = "none"
    BY <1>1, <2>1 DEF SourceIs
  <2>3. \A o \in Sinks : Newest(input', loop', arrived'[o], probe_out'[o], pipe'[o], x)
    BY <2>1, SameQueues DEF SourceIs
  <2>4. SourceAfter(input, loop, curent_pos_, current_file_, source_pc, item,
                    probe_in.segment, probe_in.eos, x)
    BY <2>1 DEF SourceIs
  <2>5. SourceAfter(input', loop', curent_pos_', current_file_', source_pc', item',
                    probe_in'.segment, probe_in'.eos, x)
    BY <1>2, <2>2, <2>4 DEF SourceAfter
  <2>6. SourceIs(x)'
    BY <2>2, <2>3, <2>5 DEF SourceIs
  <2> QED
    BY <2>6 DEF SourceInv
<1>7. EndInv'
  <2>1. ~AllDone
    BY <1>1 DEF AllDone
  <2>2. ~eos_posted /\ (exit_status = NoExit \/ told)
    BY <2>1 DEF EndInv, PlaylistInv
  <2> QED
    BY <2>2 DEF EndInv
<1> QED
  BY <1>3, <1>4, <1>5, <1>6, <1>7 DEF PlaylistInv

\* A step of the main thread that only moves on while the pipeline plays.
LEMMA MainMoves ==
  ASSUME PlaylistInv, exec \in {"playing", "looping"}, exec' \in {"looping", "left"},
         UNCHANGED <<input, loop, vod, file_vars, source_pc, item, pipe, probe_in, probe_out, arrived>>,
         told' \in BOOLEAN, eos_posted' \in BOOLEAN
  PROVE  Types_' /\ PhaseInv' /\ QueuesInv' /\ SourceInv' /\ (AllDone => AllDone')
<1> USE DEF file_vars
<1>1. Types_'
  BY DEF PlaylistInv, Types_
<1>2. PhaseInv'
  BY DEF PhaseInv
<1>3. QueuesInv'
  BY SameQueues DEF PlaylistInv
<1>4. SourceInv'
  <2>1. PICK x \in Items : SourceIs(x)
    BY DEF SourceInv, PlaylistInv
  <2>2. SourceIs(x)'
    BY <2>1 DEF SourceIs
  <2> QED
    BY <2>2 DEF SourceInv
<1>5. AllDone => AllDone'
  BY SameDone
<1> QED
  BY <1>1, <1>2, <1>3, <1>4, <1>5

\* The main loop starts while the pipeline already plays.
LEMMA RunMainLoopStep == ASSUME PlaylistInv, RunMainLoop PROVE PlaylistInv'
<1> USE DEF RunMainLoop, list_vars, file_vars
<1>1. Types_' /\ PhaseInv' /\ QueuesInv' /\ SourceInv' /\ (AllDone => AllDone')
  <2>1. told' \in BOOLEAN /\ eos_posted' \in BOOLEAN
    BY DEF PlaylistInv, Types_
  <2> QED
    BY <2>1, MainMoves
<1>2. EndInv'
  BY <1>1 DEF EndInv, PlaylistInv
<1> QED
  BY <1>1, <1>2 DEF PlaylistInv

\* The end of stream quits the main loop: everything has arrived.
LEMMA HandleEOSStep == ASSUME PlaylistInv, HandleEOS PROVE PlaylistInv'
<1> USE DEF HandleEOS, OnPipelineEOS, Quit, list_vars, file_vars
<1>1. Types_' /\ PhaseInv' /\ QueuesInv' /\ SourceInv' /\ (AllDone => AllDone')
  <2>1. told' \in BOOLEAN /\ eos_posted' \in BOOLEAN
    BY DEF PlaylistInv, Types_
  <2> QED
    BY <2>1, MainMoves
<1>2. AllDone
  BY DEF EndInv, PlaylistInv
<1>3. EndInv'
  BY <1>1, <1>2 DEF EndInv
<1> QED
  BY <1>1, <1>3 DEF PlaylistInv

\* A command or the watchdog quits: what is in the pipeline stays as it is.
LEMMA OtherQuitStep == ASSUME PlaylistInv, NEW status, OtherQuit(status) PROVE PlaylistInv'
<1> USE DEF OtherQuit, Quit, list_vars, file_vars
<1>1. Types_' /\ PhaseInv' /\ QueuesInv' /\ SourceInv' /\ (AllDone => AllDone')
  <2>1. told' \in BOOLEAN /\ eos_posted' \in BOOLEAN
    BY DEF PlaylistInv, Types_
  <2> QED
    BY <2>1, MainMoves
<1>2. EndInv'
  BY <1>1 DEF EndInv, PlaylistInv
<1> QED
  BY <1>1, <1>2 DEF PlaylistInv

\* The queue of a sink is thrown away.
LEMMA QueueCleared ==
  ASSUME NEW l, NEW lp, NEW a, NEW pr, NEW w, QueueInv(l, lp, a, pr, w)
  PROVE  QueueInv(l, lp, a, pr, <<>>)
<1>1. Len(<<>>) = 0
  OBVIOUS
<1> QED
  BY <1>1 DEF QueueInv

\* Stop throws away what is on its way; what has arrived stays in order.
LEMMA StopStep == ASSUME PlaylistInv, Stop PROVE PlaylistInv'
<1> USE DEF Stop, list_vars, file_vars
<1>1. Types_'
  <2>1. pipe' \in [Sinks -> Seq(Items)]
    <3>1. <<>> \in Seq(Items)
      OBVIOUS
    <3> QED
      BY <3>1
  <2> QED
    BY <2>1 DEF PlaylistInv, Types_
<1>2. \A o \in Sinks : pipe'[o] = <<>>
  OBVIOUS
<1>3. PhaseInv'
  BY <1>2 DEF PhaseInv
<1>4. QueuesInv'
  BY <1>2, QueueCleared DEF QueuesInv, PlaylistInv
<1>5. SourceInv'
  BY DEF SourceInv
<1>6. EndInv'
  BY <1>2 DEF EndInv, PlaylistInv, AllDone
<1> QED
  BY <1>1, <1>3, <1>4, <1>5, <1>6 DEF PlaylistInv

\* The pipeline has stopped once the thread of appsrc has ended.
LEMMA StoppedStep == ASSUME PlaylistInv, Stopped PROVE PlaylistInv'
<1> USE DEF Stopped, list_vars, file_vars
<1>1. Types_'
  BY DEF PlaylistInv, Types_
<1>2. PhaseInv'
  BY DEF PhaseInv, PlaylistInv
<1>3. QueuesInv'
  BY SameQueues DEF PlaylistInv
<1>4. SourceInv'
  BY DEF SourceInv
<1>5. EndInv'
  BY SameDone DEF EndInv, PlaylistInv
<1> QED
  BY <1>1, <1>2, <1>3, <1>4, <1>5 DEF PlaylistInv

\* The destructors clear the probes and close the file, with no thread left.
LEMMA DestroyStep == ASSUME PlaylistInv, Destroy PROVE PlaylistInv'
<1> USE DEF Destroy, list_vars
<1>1. Types_
  BY DEF PlaylistInv
<1>2. /\ probe_in' \in Probes /\ probe_in'.eos = probe_in.eos
      /\ probe_out' \in [Sinks -> Probes]
      /\ \A o \in Sinks : probe_out'[o].segment = probe_out[o].segment /\ probe_out'[o].eos = probe_out[o].eos
  BY <1>1, ProbeLinks DEF Types_
<1>3. Types_'
  BY <1>1, <1>2, ItemTypes DEF Types_
<1>4. PhaseInv'
  BY DEF PhaseInv, PlaylistInv
<1>5. QueuesInv'
  BY <1>2, SameStatuses DEF QueuesInv, PlaylistInv
<1>6. SourceInv'
  BY DEF SourceInv
<1>7. AllDone => AllDone'
  BY <1>2 DEF AllDone
<1>8. EndInv'
  BY <1>7 DEF EndInv, PlaylistInv
<1> QED
  BY <1>3, <1>4, <1>5, <1>6, <1>8 DEF PlaylistInv

\* A step of the thread of appsrc that leaves the pad alone: after the same item
\* it is where the list says.
LEMMA SourceMoves ==
  ASSUME PlaylistInv, source_pc \in {"idle", "need_data"}, source_pc' \in {"idle", "need_data", "push"},
         UNCHANGED <<input, loop, vod, main_vars, pipe, probe_in, probe_out, arrived, eos_posted>>,
         curent_pos_' \in 0..Len(input), current_file_' \in [pos : Nat, left : Int], item' \in Items,
         \A x \in Items : exec # "stopping" /\ SourceIs(x) =>
             SourceAfter(input, loop, curent_pos_', current_file_', source_pc', item',
                         probe_in.segment, probe_in.eos, x)
  PROVE  PlaylistInv'
<1> USE DEF main_vars
<1>1. Types_'
  BY DEF PlaylistInv, Types_
<1>2. exec \notin {"new", "built", "returned", "destroyed"}
  BY DEF PhaseInv, PlaylistInv
<1>3. PhaseInv'
  BY <1>2 DEF PhaseInv, PlaylistInv
<1>4. QueuesInv'
  BY SameQueues DEF PlaylistInv
<1>5. SourceInv'
  <2>1. CASE exec = "stopping"
    BY <2>1 DEF SourceInv
  <2>2. CASE exec # "stopping"
    <3>1. PICK x \in Items : SourceIs(x)
      BY <1>2, <2>2 DEF SourceInv, PlaylistInv, Types_
    <3>2. SourceAfter(input', loop', curent_pos_', current_file_', source_pc', item',
                      probe_in'.segment, probe_in'.eos, x)
      BY <2>2, <3>1
    <3>3. \A o \in Sinks : Newest(input', loop', arrived'[o], probe_out'[o], pipe'[o], x)
      BY <3>1, SameQueues DEF SourceIs
    <3>4. x.kind # "none"
      BY <3>1 DEF SourceIs, SourceAfter
    <3>5. SourceIs(x)'
      BY <1>2, <3>2, <3>3, <3>4 DEF SourceIs
    <3> QED
      BY <3>5 DEF SourceInv
  <2> QED
    BY <2>1, <2>2
<1>6. EndInv'
  <2>1. ~AllDone
    BY DEF AllDone
  <2> QED
    BY <2>1 DEF EndInv, PlaylistInv
<1> QED
  BY <1>1, <1>3, <1>4, <1>5, <1>6 DEF PlaylistInv

\* appsrc enters the callback after its last item was pushed.
LEMMA NeedDataStep == ASSUME PlaylistInv, NeedData PROVE PlaylistInv'
<1> USE DEF NeedData, list_vars, file_vars
<1>1. curent_pos_' \in 0..Len(input) /\ current_file_' \in [pos : Nat, left : Int] /\ item' \in Items
  BY DEF PlaylistInv, Types_
<1>2. ASSUME NEW x \in Items, SourceIs(x)
      PROVE  SourceAfter(input, loop, curent_pos_', current_file_', source_pc', item',
                         probe_in.segment, probe_in.eos, x)
  BY <1>2 DEF SourceIs, SourceAfter
<1> QED
  BY <1>1, <1>2, SourceMoves

\* What the thread of appsrc knows in the callback.
LEMMA InCallback ==
  ASSUME PlaylistInv, source_pc = "need_data", NEW x \in Items, SourceIs(x)
  PROVE  /\ (x.kind = "stream_start" /\ x.pos = 0) \/ (x.kind = "buffer" /\ x.pos > 0)
         /\ (probe_in.segment = TRUE <=> x.kind \in {"segment", "buffer"})
         /\ ReadUpTo(input, loop, curent_pos_, current_file_, x)
<1>1. SourceAfter(input, loop, curent_pos_, current_file_, source_pc, item,
                  probe_in.segment, probe_in.eos, x)
  BY DEF SourceIs
<1>2. x.kind \in {"stream_start", "buffer"}
  BY <1>1 DEF SourceAfter, Items, Kinds_
<1>3. /\ x.kind = "stream_start" => x.pos = 0
      /\ x.kind = "buffer" => x.pos > 0
  BY <1>1 DEF SourceAfter
<1>4. probe_in.segment = TRUE <=> x.kind \in {"segment", "buffer"}
  BY <1>1 DEF SourceAfter
<1>5. ReadUpTo(input, loop, curent_pos_, current_file_, x)
  BY <1>1 DEF SourceAfter
<1>6. (x.kind = "stream_start" /\ x.pos = 0) \/ (x.kind = "buffer" /\ x.pos > 0)
  BY <1>2, <1>3
<1> QED
  BY <1>4, <1>5, <1>6

\* SendEOS after item x.
LEMMA EndGiven ==
  ASSUME NEW l, NEW lp, NEW c, NEW f, NEW x \in Items, NEW seg, NEW eos,
         (x.kind = "stream_start" /\ x.pos = 0) \/ (x.kind = "buffer" /\ x.pos > 0),
         seg = TRUE <=> x.kind \in {"segment", "buffer"},
         AtEnd(l, x), EndsIn(l, lp, x.pos)
  PROVE  SourceAfter(l, lp, c, f, "push", Event("eos"), seg, eos, x)
<1>1. Event("eos").kind = "eos"
  BY ItemTypes DEF Kinds_
<1>2. ItemNext(l, lp, x, Event("eos"))
  <2>1. x.pos > 0 => x.nr = l[x.pos]
    BY DEF AtEnd, Items
  <2> QED
    BY <1>1, <2>1 DEF ItemNext
<1> QED
  BY <1>1, <1>2 DEF SourceAfter

\* OpenNextFile stands behind the last item, whichever files it skips.
LEMMA OpenNextFileStep == ASSUME PlaylistInv, OpenNextFile PROVE PlaylistInv'
<1> USE DEF OpenNextFile, list_vars, SendEOS, Give
<1>1. Types_ /\ IsList(input) /\ Len(input) \in Nat
  BY ListTypes DEF PlaylistInv, Types_, IsList
<1>2. Event("eos") \in Items
  BY ItemTypes DEF Kinds_
<1>3. CASE NoMoreFiles
  <2>1. source_pc' = "push" /\ item' = Event("eos") /\ UNCHANGED file_vars
    BY <1>3
  <2>2. curent_pos_' \in 0..Len(input) /\ current_file_' \in [pos : Nat, left : Int]
    BY <1>1, <2>1 DEF Types_, file_vars
  <2>3. ASSUME NEW x \in Items, SourceIs(x)
        PROVE  SourceAfter(input, loop, curent_pos_', current_file_', source_pc', item',
                           probe_in.segment, probe_in.eos, x)
    <3>1. /\ (x.kind = "stream_start" /\ x.pos = 0) \/ (x.kind = "buffer" /\ x.pos > 0)
          /\ (probe_in.segment = TRUE <=> x.kind \in {"segment", "buffer"})
          /\ ReadUpTo(input, loop, curent_pos_, NoFile, x)
      BY <2>3, InCallback
    <3>2. ~loop /\ curent_pos_ >= Len(input)
      BY <1>3 DEF NoMoreFiles
    <3>3. AtEnd(input, x) /\ EndsIn(input, loop, x.pos)
      BY <1>1, <3>1, <3>2, NoMore DEF Types_
    <3> QED
      BY <2>1, <3>1, <3>3, EndGiven
  <2> QED
    BY <1>2, <2>1, <2>2, <2>3, SourceMoves
<1>4. CASE ~NoMoreFiles
  <2> DEFINE n == Successor(input, curent_pos_)
  <2>1. n = NextPos /\ (curent_pos_ >= Len(input) => loop)
    BY <1>1, <1>4 DEF NextPos, NoMoreFiles, Successor, Types_
  <2>2. OpenFile
    BY <1>4
  <2>3. n \in 1..Len(input) /\ (input[n] # Missing => FileAt(input, n) \in [pos : Nat, left : Int])
    <3>1. n \in 1..Len(input)
      BY <1>1 DEF Successor, Types_, IsList
    <3>2. input[n] # Missing => input[n] \in Nat
      BY <1>1, <3>1 DEF IsList
    <3> QED
      BY <1>1, <3>1, <3>2 DEF FileAt
  <2>4. ASSUME NEW x \in Items, SourceIs(x)
        PROVE  /\ (x.kind = "stream_start" /\ x.pos = 0) \/ (x.kind = "buffer" /\ x.pos > 0)
               /\ (probe_in.segment = TRUE <=> x.kind \in {"segment", "buffer"})
               /\ input[n] = Missing => AtEnd(input, x) /\ EndsIn(input, loop, x.pos)
               /\ input[n] # Missing => ReadUpTo(input, loop, n, FileAt(input, n), x)
    <3>1. /\ (x.kind = "stream_start" /\ x.pos = 0) \/ (x.kind = "buffer" /\ x.pos > 0)
          /\ (probe_in.segment = TRUE <=> x.kind \in {"segment", "buffer"})
          /\ ReadUpTo(input, loop, curent_pos_, NoFile, x)
      BY <2>4, InCallback
    <3>2. curent_pos_ \in 0..Len(input) /\ loop \in BOOLEAN
      BY <1>1 DEF Types_
    <3> QED
      BY <1>1, <2>1, <3>1, <3>2, OpensNext
  <2>5. curent_pos_' = n
    BY <2>1, <2>2 DEF OpenFile
  <2>6. CASE input[n] = Missing
    <3>1. source_pc' = "push" /\ item' = Event("eos") /\ current_file_' = current_file_
      BY <2>1, <2>2, <2>6 DEF OpenFile
    <3>2. curent_pos_' \in 0..Len(input) /\ current_file_' \in [pos : Nat, left : Int]
      BY <1>1, <2>3, <2>5, <3>1 DEF Types_
    <3>3. ASSUME NEW x \in Items, SourceIs(x)
          PROVE  SourceAfter(input, loop, curent_pos_', current_file_', source_pc', item',
                             probe_in.segment, probe_in.eos, x)
      BY <2>4, <2>6, <3>1, <3>3, EndGiven
    <3> QED
      BY <1>2, <3>1, <3>2, <3>3, SourceMoves
  <2>7. CASE input[n] # Missing
    <3>1. source_pc' = "need_data" /\ item' = item /\ current_file_' = FileAt(input, n)
      BY <2>1, <2>2, <2>7 DEF OpenFile, FileAt
    <3>2. curent_pos_' \in 0..Len(input) /\ current_file_' \in [pos : Nat, left : Int] /\ item' \in Items
      BY <1>1, <2>3, <2>5, <2>7, <3>1 DEF Types_
    <3> HIDE DEF n
    <3>3. ASSUME NEW x \in Items, SourceIs(x)
          PROVE  SourceAfter(input, loop, curent_pos_', current_file_', source_pc', item',
                             probe_in.segment, probe_in.eos, x)
      BY <2>4, <2>5, <2>7, <3>1, <3>3 DEF SourceAfter
    <3> QED
      BY <3>1, <3>2, <3>3, SourceMoves
  <2> QED
    BY <2>6, <2>7
<1> QED
  BY <1>3, <1>4

\* fread gives the buffer that follows the last item, or ends the file.
LEMMA ReadFileStep == ASSUME PlaylistInv, ReadFile PROVE PlaylistInv'
<1> USE DEF ReadFile, list_vars, Give
<1> DEFINE y == Buffer(current_file_.pos, input[current_file_.pos] - current_file_.left + 1)
           g == [current_file_ EXCEPT !.left = @ - 1]
<1>1. Types_ /\ IsList(input) /\ Len(input) \in Nat /\ current_file_ \in Files_
  BY ListTypes DEF PlaylistInv, Types_, IsList, Files_
<1>2. curent_pos_' \in 0..Len(input) /\ loop \in BOOLEAN /\ curent_pos_' = curent_pos_
  BY <1>1 DEF Types_
<1>3. CASE current_file_.left = 0
  <2>1. source_pc' = "need_data" /\ item' = item /\ current_file_' = NoFile
    BY <1>3
  <2>2. current_file_' \in [pos : Nat, left : Int] /\ item' \in Items
    BY <1>1, <2>1, ItemTypes DEF Types_
  <2>3. ASSUME NEW x \in Items, SourceIs(x)
        PROVE  SourceAfter(input, loop, curent_pos_', current_file_', source_pc', item',
                           probe_in.segment, probe_in.eos, x)
    <3>1. /\ (x.kind = "stream_start" /\ x.pos = 0) \/ (x.kind = "buffer" /\ x.pos > 0)
          /\ (probe_in.segment = TRUE <=> x.kind \in {"segment", "buffer"})
          /\ ReadUpTo(input, loop, curent_pos_, current_file_, x)
      BY <2>3, InCallback
    <3>2. ReadUpTo(input, loop, curent_pos_, NoFile, x)
      BY <1>1, <1>2, <1>3, <3>1, ReadsEnd
    <3> QED
      BY <1>2, <2>1, <3>1, <3>2 DEF SourceAfter
  <2> QED
    BY <1>2, <2>1, <2>2, <2>3, SourceMoves
<1>4. CASE current_file_.left # 0 /\ exec # "stopping"
  <2>1. source_pc' = "push" /\ item' = y /\ current_file_' = g
    BY <1>4
  <2>2. PICK z \in Items : SourceIs(z)
    BY <1>4 DEF PlaylistInv, SourceInv, PhaseInv, Types_
  <2>3. ASSUME NEW x \in Items, SourceIs(x)
        PROVE  /\ y \in Items /\ g \in Files_
               /\ SourceAfter(input, loop, curent_pos_, g, "push", y,
                              probe_in.segment, probe_in.eos, x)
    <3>1. /\ (x.kind = "stream_start" /\ x.pos = 0) \/ (x.kind = "buffer" /\ x.pos > 0)
          /\ (probe_in.segment = TRUE <=> x.kind \in {"segment", "buffer"})
          /\ ReadUpTo(input, loop, curent_pos_, current_file_, x)
      BY <2>3, InCallback
    <3>2. /\ y \in Items /\ y.kind = "buffer" /\ y.pos > 0 /\ g \in Files_
          /\ ReadUpTo(input, loop, curent_pos_, g, y)
          /\ x.pos = 0 => BeginsIn(input, y)
          /\ x.pos > 0 => FollowsIn(input, loop, x, y)
      BY <1>1, <1>2, <1>4, <3>1, ReadsNext
    <3> HIDE DEF y, g
    <3>3. x.kind = "stream_start" => BeginsIn(input, y)
      BY <3>1, <3>2
    <3>4. x.kind = "buffer" => ItemNext(input, loop, x, y)
      BY <3>1, <3>2 DEF ItemNext
    <3> QED
      BY <3>1, <3>2, <3>3, <3>4 DEF SourceAfter
  <2>4. item' \in Items /\ current_file_' \in [pos : Nat, left : Int]
    BY <2>1, <2>2, <2>3 DEF Files_
  <2> HIDE DEF y, g
  <2>5. ASSUME NEW x \in Items, SourceIs(x)
        PROVE  SourceAfter(input, loop, curent_pos_', current_file_', source_pc', item',
                           probe_in.segment, probe_in.eos, x)
    BY <1>2, <2>1, <2>3, <2>5
  <2> QED
    BY <1>2, <2>1, <2>4, <2>5, SourceMoves
<1>5. CASE current_file_.left # 0 /\ exec = "stopping"
  <2>1. source_pc' = "stopped" /\ item' = item /\ current_file_' = g
    BY <1>5
  <2>2. current_file_' \in [pos : Nat, left : Int]
    BY <1>1, <2>1 DEF Files_
  <2>3. Types_'
    BY <1>1, <1>2, <2>1, <2>2 DEF Types_, main_vars
  <2>4. PhaseInv'
    BY <1>5, <2>1 DEF PhaseInv, PlaylistInv, main_vars
  <2>5. QueuesInv'
    BY SameQueues DEF PlaylistInv
  <2>6. SourceInv'
    BY <1>5 DEF SourceInv, main_vars
  <2>7. EndInv'
    <3>1. ~AllDone
      BY DEF AllDone
    <3> QED
      BY <3>1 DEF EndInv, PlaylistInv, main_vars
  <2> QED
    BY <2>3, <2>4, <2>5, <2>6, <2>7 DEF PlaylistInv
<1> QED
  BY <1>3, <1>4, <1>5

\* The thread of appsrc ends outside of the callback.
LEMMA SourceStopsStep == ASSUME PlaylistInv, SourceStops PROVE PlaylistInv'
<1> USE DEF SourceStops, list_vars, main_vars, file_vars
<1>1. Types_'
  BY ItemTypes DEF PlaylistInv, Types_
<1>2. PhaseInv'
  BY DEF PhaseInv, PlaylistInv
<1>3. QueuesInv'
  BY SameQueues DEF PlaylistInv
<1>4. SourceInv'
  BY DEF SourceInv
<1>5. EndInv'
  <2>1. ~AllDone
    BY DEF AllDone
  <2> QED
    BY <2>1 DEF EndInv, PlaylistInv
<1> QED
  BY <1>1, <1>2, <1>3, <1>4, <1>5 DEF PlaylistInv

\* An item passes the source pad: what follows is ready for the next one.
LEMMA PushItemStep == ASSUME PlaylistInv, PushItem PROVE PlaylistInv'
<1>0. PICK y : y = IF item.kind = "buffer" /\ ~probe_in.segment THEN Event("segment") ELSE item
  OBVIOUS
<1>1. /\ source_pc = "push" /\ exec # "stopping"
      /\ probe_in' = InputSees(probe_in, y)
      /\ pipe' = [o \in Sinks |-> Append(pipe[o], y)]
      /\ source_pc' = CASE y # item -> "push" [] y.kind = "eos" -> "stopped" [] OTHER -> "idle"
      /\ item' = IF y # item THEN item ELSE Nothing
      /\ UNCHANGED <<list_vars, main_vars, file_vars, probe_out, eos_posted, arrived>>
  BY <1>0 DEF PushItem
<1>2. Types_ /\ exec \in {"playing", "looping", "left"}
  BY <1>1 DEF PlaylistInv, PhaseInv, Types_
<1>3. PICK x \in Items : SourceIs(x)
  BY <1>2 DEF PlaylistInv, SourceInv
<1>4. SourceAfter(input, loop, curent_pos_, current_file_, "push", item,
                  probe_in.segment, probe_in.eos, x)
  BY <1>1, <1>3 DEF SourceIs
<1>5. y \in Items /\ item \in Items /\ probe_in \in Probes
  BY <1>0, <1>2, ItemTypes DEF Types_, Kinds_
<1>6. /\ y = item \/ (y = Event("segment") /\ y.kind = "segment" /\ item.kind = "buffer")
      /\ item.kind = "buffer" => (y = item <=> probe_in.segment = TRUE)
  BY <1>0, <1>5, ItemTypes DEF Probes, Kinds_
<1>7. ItemNext(input, loop, x, y)
  <2>1. CASE x.kind = "none"
    <3>1. item.kind = "stream_start"
      BY <1>4, <2>1 DEF SourceAfter
    <3> QED
      BY <1>6, <2>1, <3>1 DEF ItemNext
  <2>2. CASE x.kind # "none" /\ item.kind = "eos"
    <3>1. ItemNext(input, loop, x, item)
      BY <1>4, <2>2 DEF SourceAfter
    <3> QED
      BY <1>6, <2>2, <3>1
  <2>3. CASE x.kind = "stream_start" /\ item.kind = "buffer"
    <3>1. probe_in.segment # TRUE
      BY <1>4, <2>3 DEF SourceAfter
    <3> QED
      BY <1>6, <2>3, <3>1 DEF ItemNext
  <2>4. CASE x.kind \notin {"none", "stream_start"} /\ item.kind = "buffer"
    <3>1. x.kind # "eos"
      BY <1>4 DEF SourceAfter
    <3>2. probe_in.segment = TRUE
      BY <1>4, <2>4, <3>1 DEF SourceAfter, Items, Kinds_
    <3>3. ItemNext(input, loop, x, item)
      BY <1>4, <2>4 DEF SourceAfter
    <3> QED
      BY <1>6, <2>4, <3>2, <3>3
  <2>5. x.kind = "none" \/ item.kind \in {"eos", "buffer"}
    BY <1>4 DEF SourceAfter
  <2> QED
    BY <2>1, <2>2, <2>3, <2>4, <2>5
<1>8. ASSUME NEW o \in Sinks
      PROVE  /\ QueueInv(input, loop, arrived[o], probe_out[o], Append(pipe[o], y))
             /\ Newest(input, loop, arrived[o], probe_out[o], Append(pipe[o], y), y)
             /\ Append(pipe[o], y) \in Seq(Items)
  <2>1. arrived[o] \in Seq(Items) /\ probe_out[o] \in Probes /\ pipe[o] \in Seq(Items)
    BY <1>2 DEF Types_
  <2>2. QueueInv(input, loop, arrived[o], probe_out[o], pipe[o])
    BY DEF PlaylistInv, QueuesInv
  <2>3. Newest(input, loop, arrived[o], probe_out[o], pipe[o], x)
    BY <1>3 DEF SourceIs
  <2> QED
    BY <1>5, <1>7, <2>1, <2>2, <2>3, QueueGrows
<1>9. \A o \in Sinks : pipe'[o] = Append(pipe[o], y)
  BY <1>1
<1>10. QueuesInv'
  BY <1>1, <1>8, <1>9 DEF QueuesInv, list_vars
<1>11. /\ y # item => source_pc' = "push" /\ item' = item
       /\ y = item /\ y.kind = "eos" => source_pc' = "stopped"
       /\ y = item /\ y.kind # "eos" => source_pc' = "idle"
       /\ item' \in Items
  <2>1. CASE y # item
    BY <1>1, <1>5, <1>6, <2>1
  <2>2. CASE y = item /\ y.kind = "eos"
    BY <1>1, <2>2, ItemTypes
  <2>3. CASE y = item /\ y.kind # "eos"
    BY <1>1, <2>3, ItemTypes
  <2> QED
    BY <2>1, <2>2, <2>3
<1>12. Types_'
  <2>1. pipe' \in [Sinks -> Seq(Items)]
    BY <1>1, <1>8
  <2>2. probe_in' \in Probes
    BY <1>1, <1>5, InputProbeSees
  <2>3. source_pc' \in {"stopped", "push", "idle", "need_data"}
    BY <1>11
  <2> QED
    BY <1>1, <1>2, <1>11, <2>1, <2>2, <2>3 DEF Types_, list_vars, main_vars, file_vars
<1>13. PhaseInv'
  BY <1>1, <1>2 DEF PhaseInv, main_vars
<1>14. SourceAfter(input, loop, curent_pos_, current_file_, source_pc', item',
                   probe_in'.segment, probe_in'.eos, y)
  <2>1. CASE y # item
    <3>1. y.kind = "segment" /\ item.kind = "buffer" /\ probe_in'.segment = TRUE
      BY <1>1, <1>5, <1>6, <2>1, InputProbeSees
    <3>2. x.kind = "stream_start"
      BY <1>4, <1>7, <3>1 DEF ItemNext
    <3>3. item.pos > 0 /\ ReadUpTo(input, loop, curent_pos_, current_file_, item) /\ BeginsIn(input, item)
      BY <1>4, <3>1, <3>2 DEF SourceAfter
    <3>4. ItemNext(input, loop, y, item)
      BY <3>1, <3>3 DEF ItemNext
    <3> QED
      BY <1>11, <2>1, <3>1, <3>3, <3>4 DEF SourceAfter
  <2>2. CASE y = item /\ item.kind = "eos"
    <3>1. source_pc' = "stopped" /\ probe_in'.segment = FALSE /\ probe_in'.eos = TRUE
      BY <1>1, <1>5, <1>11, <2>2, InputProbeSees
    <3> QED
      BY <2>2, <3>1 DEF SourceAfter
  <2>3. CASE y = item /\ item.kind = "buffer"
    <3>1. source_pc' = "idle" /\ probe_in'.segment = TRUE
      BY <1>1, <1>5, <1>6, <1>11, <2>3, InputProbeSees
    <3>2. x.kind # "none"
      BY <1>7, <2>3 DEF ItemNext
    <3>3. item.pos > 0 /\ ReadUpTo(input, loop, curent_pos_, current_file_, item)
      BY <1>4, <2>3, <3>2 DEF SourceAfter
    <3> QED
      BY <2>3, <3>1, <3>3 DEF SourceAfter
  <2>4. CASE y = item /\ item.kind = "stream_start"
    <3>1. x.kind = "none"
      BY <1>7, <2>4 DEF ItemNext
    <3>2. curent_pos_ = 0 /\ current_file_ = NoFile /\ item.pos = 0 /\ item.nr = 0
      BY <1>4, <3>1 DEF SourceAfter
    <3>3. probe_in.segment # TRUE
      BY <1>4, <3>1 DEF SourceAfter
    <3>4. source_pc' = "idle" /\ probe_in'.segment # TRUE
      BY <1>1, <1>5, <1>11, <2>4, <3>3, InputProbeSees
    <3>5. Len(input) \in Nat
      BY <1>2, ListTypes DEF Types_, IsList
    <3>6. ReadUpTo(input, loop, curent_pos_, current_file_, item)
      <4>1. IsRead(input, item)
        BY <3>2, <3>5 DEF IsRead
      <4>2. PassedIn(input, loop, 0, 0)
        BY DEF PassedIn, EmptyIn
      <4> QED
        BY <3>2, <4>1, <4>2 DEF ReadUpTo, AtEnd
    <3> QED
      BY <2>4, <3>2, <3>4, <3>6 DEF SourceAfter
  <2>5. item.kind \in {"eos", "buffer", "stream_start"}
    BY <1>4 DEF SourceAfter
  <2> QED
    BY <2>1, <2>2, <2>3, <2>4, <2>5
<1>15. SourceInv'
  <2>1. y.kind # "none"
    BY <1>7 DEF ItemNext
  <2>2. SourceIs(y)'
    BY <1>1, <1>2, <1>8, <1>9, <1>14, <2>1 DEF SourceIs, list_vars, main_vars, file_vars
  <2> QED
    BY <1>5, <2>2 DEF SourceInv
<1>16. EndInv'
  <2>1. ~AllDone
    BY <1>1 DEF AllDone
  <2> QED
    BY <1>1, <2>1 DEF EndInv, PlaylistInv, main_vars, list_vars
<1> QED
  BY <1>10, <1>12, <1>13, <1>15, <1>16 DEF PlaylistInv

\* An item reaches a sink; the last end of stream is that of all.
LEMMA SinkReceivesStep == ASSUME PlaylistInv, NEW o \in Sinks, SinkReceives(o) PROVE PlaylistInv'
<1>0. PICK y : y = Head(pipe[o])
  OBVIOUS
<1>1. Types_ /\ pipe[o] \in Seq(Items) /\ arrived[o] \in Seq(Items) /\ probe_out[o] \in Probes
  BY DEF PlaylistInv, Types_
<1>2. /\ pipe[o] # <<>>
      /\ pipe' = [pipe EXCEPT ![o] = Tail(@)]
      /\ probe_out' = [probe_out EXCEPT ![o] = SeesEvent(@, y)]
      /\ arrived' = IF y.kind = "buffer" THEN [arrived EXCEPT ![o] = Append(@, y)] ELSE arrived
      /\ eos_posted' = (eos_posted \/ (y.kind = "eos" /\ \A p \in Sinks \ {o} : pipe[p] = <<>>))
      /\ UNCHANGED <<list_vars, main_vars, file_vars, source_pc, item, probe_in>>
  BY <1>0 DEF SinkReceives
<1>3. /\ pipe'[o] = Tail(pipe[o]) /\ probe_out'[o] = SeesEvent(probe_out[o], y)
      /\ \A p \in Sinks : p # o => /\ pipe'[p] = pipe[p] /\ probe_out'[p] = probe_out[p]
                                   /\ arrived'[p] = arrived[p]
  BY <1>1, <1>2 DEF Types_
<1>4. arrived'[o] = Got(arrived[o], y)
  BY <1>1, <1>2 DEF Types_, Got
<1>5. QueueInv(input, loop, arrived[o], probe_out[o], pipe[o])
  BY DEF PlaylistInv, QueuesInv
<1>6. /\ QueueInv(input, loop, arrived'[o], probe_out'[o], pipe'[o])
      /\ SinkAfter(input, loop, arrived'[o], probe_out'[o], y)
      /\ \A x : Newest(input, loop, arrived[o], probe_out[o], pipe[o], x) =>
             Newest(input, loop, arrived'[o], probe_out'[o], pipe'[o], x)
      /\ y \in Items
      /\ y.kind = "eos" => pipe'[o] = <<>> /\ Len(pipe[o]) = 1
  <2> DEFINE w == pipe[o]
             a == arrived[o]
             pr == probe_out[o]
  <2>1. w \in Seq(Items) /\ w # <<>> /\ a \in Seq(Items) /\ pr \in Probes
        /\ QueueInv(input, loop, a, pr, w)
    BY <1>1, <1>2, <1>5
  <2>2. y = Head(w) /\ pipe'[o] = Tail(w) /\ probe_out'[o] = SeesEvent(pr, Head(w))
        /\ arrived'[o] = Got(a, Head(w))
    BY <1>0, <1>3, <1>4
  <2> HIDE DEF w, a, pr
  <2>3. /\ QueueInv(input, loop, Got(a, Head(w)), SeesEvent(pr, Head(w)), Tail(w))
        /\ SinkAfter(input, loop, Got(a, Head(w)), SeesEvent(pr, Head(w)), Head(w))
        /\ \A x : Newest(input, loop, a, pr, w, x) =>
               Newest(input, loop, Got(a, Head(w)), SeesEvent(pr, Head(w)), Tail(w), x)
        /\ Head(w) \in Items
        /\ Head(w).kind = "eos" => Tail(w) = <<>> /\ Len(w) = 1
    BY <2>1, QueueReceives
  <2> QED
    BY <2>2, <2>3 DEF w, a, pr
<1>7. Types_'
  <2>1. pipe'[o] \in Seq(Items) /\ pipe' \in [Sinks -> Seq(Items)]
    BY <1>1, <1>2, <1>3 DEF Types_
  <2>2. arrived' \in [Sinks -> Seq(Items)]
    BY <1>1, <1>2, <1>6 DEF Types_
  <2>3. probe_out' \in [Sinks -> Probes]
    <3>1. SeesEvent(probe_out[o], y) \in Probes
      BY <1>1, <1>6, ProbeSees
    <3> QED
      BY <1>1, <1>2, <3>1 DEF Types_
  <2>4. eos_posted' \in BOOLEAN
    BY <1>2
  <2> QED
    BY <1>1, <1>2, <2>1, <2>2, <2>3, <2>4 DEF Types_, list_vars, main_vars, file_vars
<1>8. exec \in {"playing", "looping", "left"} /\ exec' = exec
  BY <1>1, <1>2 DEF PlaylistInv, PhaseInv, Types_, main_vars
<1>9. PhaseInv'
  BY <1>8 DEF PhaseInv
<1>10. QueuesInv'
  BY <1>2, <1>3, <1>6 DEF PlaylistInv, QueuesInv, list_vars
<1>11. PICK x \in Items : SourceIs(x)
  BY <1>8 DEF PlaylistInv, SourceInv
<1>12. SourceInv'
  <2>1. \A p \in Sinks : Newest(input, loop, arrived'[p], probe_out'[p], pipe'[p], x)
    BY <1>3, <1>6, <1>11 DEF SourceIs
  <2>2. SourceIs(x)'
    BY <1>2, <1>11, <2>1 DEF SourceIs, list_vars, main_vars, file_vars
  <2> QED
    BY <2>2 DEF SourceInv
<1>13. ~AllDone
  BY <1>2 DEF AllDone
<1>14. ASSUME y.kind = "eos", \A p \in Sinks \ {o} : pipe[p] = <<>> PROVE AllDone'
  <2>1. y = x
    <3>1. pipe[o][Len(pipe[o])] = x
      BY <1>2, <1>11 DEF SourceIs, Newest
    <3>3. Len(pipe[o]) = 1
      BY <1>6, <1>14
    <3> QED
      BY <1>0, <1>1, <1>2, <3>1, <3>3
  <2>2. SourceAfter(input, loop, curent_pos_, current_file_, source_pc, item,
                    probe_in.segment, probe_in.eos, x)
    BY <1>11 DEF SourceIs
  <2>3. source_pc = "stopped" /\ probe_in.eos = TRUE
    BY <1>14, <2>1, <2>2 DEF SourceAfter
  <2>4. ASSUME NEW p \in Sinks
        PROVE  /\ pipe'[p] = <<>> /\ probe_out'[p].eos = TRUE
               /\ CompleteIn(input, loop, arrived'[p])
    <3>1. SinkAfter(input, loop, arrived'[p], probe_out'[p], y) /\ pipe'[p] = <<>>
      <4>1. CASE p = o
        BY <1>6, <1>14, <4>1
      <4>2. CASE p # o
        <5>1. pipe[p] = <<>>
          BY <1>14, <4>2
        <5>2. SinkAfter(input, loop, arrived[p], probe_out[p], x)
          BY <1>11, <5>1 DEF SourceIs, Newest
        <5> QED
          BY <1>3, <2>1, <4>2, <5>1, <5>2
      <4> QED
        BY <4>1, <4>2
    <3> QED
      BY <1>14, <3>1 DEF SinkAfter
  <2> QED
    BY <1>2, <1>8, <2>3, <2>4 DEF AllDone, list_vars
<1>15. EndInv'
  <2>1. ~eos_posted /\ (exit_status = NoExit \/ told)
    BY <1>13 DEF PlaylistInv, EndInv
  <2>2. eos_posted' => AllDone'
    BY <1>2, <1>14, <2>1
  <2> QED
    BY <1>2, <2>1, <2>2 DEF EndInv, main_vars
<1> QED
  BY <1>7, <1>9, <1>10, <1>12, <1>15 DEF PlaylistInv

\* Every step of the stream keeps the invariant.
LEMMA PlaylistInvStep == PlaylistInv /\ [NextPlaylist]_play_vars => PlaylistInv'
<1> SUFFICES ASSUME PlaylistInv, [NextPlaylist]_play_vars PROVE PlaylistInv'
  OBVIOUS
<1>1. CASE Main
  BY <1>1, InitPipeLineStep, PlayStep, RunMainLoopStep, HandleEOSStep, StopStep, StoppedStep,
     DestroyStep DEF Main
<1>2. CASE Source
  BY <1>2, NeedDataStep, OpenNextFileStep, ReadFileStep, PushItemStep, SourceStopsStep DEF Source
<1>3. ASSUME NEW status \in {"EXIT_SELF", "EXIT_INNER"}, OtherQuit(status) PROVE PlaylistInv'
  BY <1>3, OtherQuitStep
<1>4. ASSUME NEW o \in Sinks, SinkReceives(o) PROVE PlaylistInv'
  BY <1>4, SinkReceivesStep
<1>5. CASE UNCHANGED play_vars
  BY <1>5 DEF play_vars, list_vars, main_vars, file_vars, PlaylistInv, Types_, PhaseInv, QueuesInv,
     SourceInv, SourceIs, EndInv, AllDone
<1> QED
  BY <1>1, <1>2, <1>3, <1>4, <1>5 DEF NextPlaylist

\* What has arrived and what is on its way is in the order of the list, for every
\* list, number of outputs and length of the queues.
THEOREM PlaylistInvHolds == SpecPlaylist => []PlaylistInv
<1>1. InitPlaylist => PlaylistInv
  BY PlaylistInvInit
<1> QED
  BY <1>1, PlaylistInvStep, PTL DEF SpecPlaylist

\* Every output gets the buffers of the files in the order of the list, without a
\* gap, and the end of stream only behind the last one, for every list and any
\* interleaving of the need-data callback, the sinks and a quit.
THEOREM ListIsPlayed == SpecPlaylist => []PlaysTheList
<1>1. PlaylistInv => PlaysTheList
  <2> SUFFICES ASSUME PlaylistInv, NEW o \in Sinks
               PROVE  /\ \A k \in DOMAIN arrived[o] :
                             IF k = 1 THEN BeginsList(arrived[o][k])
                             ELSE Follows(arrived[o][k - 1], arrived[o][k])
                      /\ arrived[o] # <<>> /\ probe_out[o].eos => IsComplete(o)
    BY DEF PlaysTheList
  <2>1. QueueInv(input, loop, arrived[o], probe_out[o], pipe[o])
    BY DEF PlaylistInv, QueuesInv
  <2>2. \A k \in DOMAIN arrived[o] :
            IF k = 1 THEN BeginsIn(input, arrived[o][k])
            ELSE FollowsIn(input, loop, arrived[o][k - 1], arrived[o][k])
    BY <2>1 DEF QueueInv
  <2>3. arrived[o] # <<>> /\ probe_out[o].eos = TRUE => CompleteIn(input, loop, arrived[o])
    BY <2>1 DEF QueueInv
  <2>4. probe_out[o].eos \in BOOLEAN
    BY DEF PlaylistInv, Types_, Probes
  <2> QED
    BY <2>2, <2>3, <2>4, OfTheList
<1> QED
  BY <1>1, PlaylistInvHolds, PTL

\* A run that nobody quits ends only when every output has got the whole list and
\* all probes have seen its end, however the ends of the outputs are ordered.
THEOREM EndsAreComplete == SpecPlaylist => []EndIsComplete
<1>1. PlaylistInv => EndIsComplete
  <2> SUFFICES ASSUME PlaylistInv, exit_status # NoExit, ~told
               PROVE  /\ \A o \in Sinks : IsComplete(o)
                      /\ CountOutEOS = Cardinality(Sinks)
                      /\ CountInputEOS = 1
                      /\ exit_status = IF vod THEN "EXIT_SELF" ELSE "EXIT_INNER"
    BY DEF EndIsComplete
  <2>1. AllDone /\ exit_status = IF vod THEN "EXIT_SELF" ELSE "EXIT_INNER"
    BY DEF PlaylistInv, EndInv
  <2>2. \A o \in Sinks : IsComplete(o)
    BY <2>1, OfTheList DEF AllDone
  <2>3. {o \in Sinks : probe_out[o].eos} = Sinks
    BY <2>1 DEF AllDone
  <2>4. CountOutEOS = Cardinality(Sinks)
    BY <2>3 DEF CountOutEOS
  <2>5. CountInputEOS = 1
    BY <2>1 DEF AllDone, CountInputEOS
  <2> QED
    BY <2>1, <2>2, <2>4, <2>5
<1> QED
  BY <1>1, PlaylistInvHolds, PTL
================================================================================
