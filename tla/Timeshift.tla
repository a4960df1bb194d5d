------------------------------- MODULE Timeshift -------------------------------
(***************************************************************************)
(* Chunks of a timeshift: a recorder (or catchup) process writes numbered  *)
(* files into a directory, clean-ups remove the old ones, and a player     *)
(* process looks for the chunk to start from (src/src/stream/timeshift.cpp *)
(* and src/src/stream/streams/timeshift).                                  *)
(*                                                                         *)
(* The processes share nothing but the directory: the numbers of the files *)
(* and the times of their last modification, in seconds.                   *)
(*                                                                         *)
(* OnSplitmuxsinkCreated passes the number a run should go on with in the  *)
(* place of a duration, so that every run starts again at the low numbers; *)
(* the model follows the code.                                             *)
(***************************************************************************)
EXTENDS Integers

CONSTANTS
    ChunkDuration, \* GetTimeShiftChunkDuration
    MaxLength,     \* splitmuxsink splits at the first key frame after that
    Delay,         \* timeshift_delay, in seconds
    LifeTime,      \* timeshift_chunk_life_time
    UnsetTimes,    \* values a variable that was never set may have
    Kinds,         \* kinds of recorders considered
    MaxIndex,      \* bound: numbers of chunks
    MaxTime,       \* bound: seconds
    MaxRuns        \* bound: runs of the recorder

ASSUME TimeshiftAssumption ==
    /\ ChunkDuration \in Nat \ {0}
    /\ MaxLength \in Nat
    /\ ChunkDuration <= MaxLength
    /\ Delay \in Nat
    /\ LifeTime \in Nat
    /\ UnsetTimes \subseteq Int
    /\ Kinds \subseteq {"recorder", "catchup"}
    /\ MaxIndex \in Nat
    /\ MaxTime \in Nat
    /\ MaxRuns \in Nat

Indices == 0..MaxIndex

\* invalid_chunk_index and GST_CLOCK_TIME_NONE, both the largest uint64_t
NoIndex == -1

\* The recorder does not write every second.
Unsteady == -1

VARIABLES
    kind,     \* TimeShiftRecorderStream or CatchupStream
    now,      \* the clock
    files,    \* numbers of the chunks in the directory
    mtime,    \* their last modification; 0 for a chunk that does not exist
    recorder, \* where the recorder is
    index,    \* chunk_.index
    duration, \* chunk_.duration
    opened,   \* when the open chunk was created
    runs,     \* runs of the recorder so far
    owner,    \* history: the run that wrote a chunk last
    steady,   \* history: since when the recorder writes every second
    list,     \* the files the player scanned
    desired,  \* desired_time of the player's search
    chosen    \* history: what a search found in this second

recorder_vars == <<recorder, index, duration, opened, runs, owner, steady>>
player_vars   == <<list, desired, chosen>>
vars == <<kind, now, files, mtime, recorder_vars, player_vars>>

Init ==
    /\ kind \in Kinds
    /\ now = 0
    /\ files = {}
    /\ mtime = [i \in Indices |-> 0]
    /\ recorder = "off"
    /\ index = NoIndex
    /\ opened = 0
    /\ runs = 0
    /\ duration = NoIndex
    /\ owner = [i \in Indices |-> 0]
    /\ steady = Unsteady
    /\ list = {}
    /\ desired = 0
    /\ chosen = NoIndex

Expired(i) == mtime[i] < now - LifeTime

-----------------------------------------------------------------------------
(* The recorder.                                                           *)

\* The last file in the order of compare_files.
LastChunk == CHOOSE i \in files : \A j \in files : j <= i

\* Where to go on after chunk i that was finished at t: a catchup takes the
\* next number, a recorder leaves out one number for every missing chunk.
GetNextChunkStrategy(i, t) ==
    IF kind = "catchup" THEN i + 1
    ELSE IF now - t > 0 THEN i + (now - t) \div ChunkDuration ELSE i

\* ChunkInfo(path, duration, index), called with the number and no time:
\* the number becomes the duration, and there is no index.
ChunkInfo(i) == duration' = i /\ index' = NoIndex

\* OnSplitmuxsinkCreated when a run begins.
SplitmuxsinkCreated ==
    /\ recorder = "off"
    /\ runs < MaxRuns
    /\ ChunkInfo(IF files = {} THEN NoIndex
                 ELSE GetNextChunkStrategy(LastChunk, mtime[LastChunk]))
    /\ recorder' = "built"
    /\ runs' = runs + 1
    /\ UNCHANGED <<kind, now, files, mtime, opened, owner, steady, player_vars>>

\* The same when a clean-up removes the last chunk after FindLastChunk has seen
\* it in the directory: its time cannot be read and there is no number.
LastChunkVanished ==
    /\ recorder = "off"
    /\ runs < MaxRuns
    /\ files # {}
    /\ Expired(LastChunk)
    /\ files' = files \ {LastChunk}
    /\ mtime' = [mtime EXCEPT ![LastChunk] = 0]
    /\ ChunkInfo(NoIndex)
    /\ recorder' = "built"
    /\ runs' = runs + 1
    /\ UNCHANGED <<kind, now, opened, owner, steady, player_vars>>

Mutant_ExistingNotSkipped == IF index = NoIndex THEN 0 ELSE index

Mutant_FirstFree ==
    CHOOSE i \in 0..MaxIndex + 1 : i \notin files /\ \A j \in 0..i - 1 : j \in files

\* The number of the last chunk, or the next one if that file exists.
CalcNextIndex ==
    LET i == IF index = NoIndex THEN 0 ELSE index IN
    IF i \in files THEN i + 1 ELSE i

\* splitmuxsink asks for the name of the first chunk, or of the next one when
\* the open chunk is long enough.
OnPathSet ==
    /\ \/ recorder = "built"
       \/ recorder = "recording" /\ now - opened >= ChunkDuration
    /\ CalcNextIndex \in Indices
    /\ index' = CalcNextIndex
    /\ recorder' = "named"
    /\ UNCHANGED <<kind, now, files, mtime, duration, opened, runs, owner, steady,
                   player_vars>>

\* splitmuxsink creates the file.
OpenChunk ==
    /\ recorder = "named"
    /\ files' = files \cup {index}
    /\ mtime' = [mtime EXCEPT ![index] = now]
    /\ recorder' = "recording"
    /\ opened' = now
    /\ owner' = [owner EXCEPT ![index] = runs]
    /\ steady' = IF steady = Unsteady THEN now ELSE steady
    /\ UNCHANGED <<kind, now, index, duration, runs, player_vars>>

\* The run ends: a stop, a failure, or the process is killed. It can be between
\* any two of these steps.
RecorderEnds ==
    /\ recorder # "off"
    /\ recorder' = "off"
    /\ index' = NoIndex
    /\ duration' = NoIndex
    /\ opened' = 0
    /\ steady' = Unsteady
    /\ UNCHANGED <<kind, now, files, mtime, runs, owner, player_vars>>

\* RemoveOldFilesByTime, by the recorder or by the daemon, which removes what
\* it can.
RemoveOldFiles(removed) ==
    /\ removed # {}
    /\ \A i \in removed : Expired(i)
    /\ files' = files \ removed
    /\ mtime' = [i \in Indices |-> IF i \in removed THEN 0 ELSE mtime[i]]
    /\ UNCHANGED <<kind, now, recorder_vars, player_vars>>

-----------------------------------------------------------------------------
(* The player.                                                             *)

Diff(d, t) == (d - t) + ChunkDuration

Matches(d, t) == -ChunkDuration < Diff(d, t) /\ Diff(d, t) < ChunkDuration

\* The chunk in front of chunk i in the sorted list.
Previous(i) ==
    IF \E j \in list : j < i
    THEN CHOOSE j \in list : j < i /\ \A k \in list : k < i => k <= j
    ELSE NoIndex

Mutant_FirstBefore(time) ==
    IF \E i \in list : Matches(desired, time[i])
    THEN LET i == CHOOSE i \in list : /\ Matches(desired, time[i])
                                      /\ \A j \in list :
                                            Matches(desired, time[j]) => i <= j
         IN IF Diff(desired, time[i]) > 0
            THEN CHOOSE j \in list : \A k \in list : j <= k ELSE i
    ELSE NoIndex

\* The search: the first chunk that matches, or the one in front of it if the
\* desired time lies within the chunk.
FindChunk(time) ==
    IF \E i \in list : Matches(desired, time[i])
    THEN LET i == CHOOSE i \in list : /\ Matches(desired, time[i])
                                      /\ \A j \in list :
                                            Matches(desired, time[j]) => i <= j
         IN IF Diff(desired, time[i]) > 0 /\ Previous(i) # NoIndex
            THEN Previous(i) ELSE i
    ELSE NoIndex

\* FindChunkToPlay reads the clock and scans the directory.
ScanFolder ==
    /\ list = {}
    /\ desired' = now - Delay
    /\ list' = files
    /\ chosen' = NoIndex
    /\ UNCHANGED <<kind, now, files, mtime, recorder_vars>>

\* Then it reads the time of every file. If a file is gone by then the error
\* is ignored, and a value that was never set is used.
FindChunkToPlay(unset) ==
    /\ list # {}
    /\ chosen' = FindChunk([i \in list |-> IF i \in files THEN mtime[i] ELSE unset])
    /\ list' = {}
    /\ desired' = 0
    /\ UNCHANGED <<kind, now, files, mtime, recorder_vars>>

-----------------------------------------------------------------------------
\* A second passes, in which the open chunk is written to or not. A search
\* takes less than a second, opening a chunk no time.
Tick(writes) ==
    /\ now < MaxTime
    /\ recorder # "named"
    /\ list # {} => desired = now - Delay
    /\ writes => recorder = "recording" /\ now - opened < MaxLength
    /\ now' = now + 1
    /\ mtime' = IF writes /\ index \in files
                THEN [mtime EXCEPT ![index] = now + 1] ELSE mtime
    /\ steady' = IF writes THEN steady ELSE Unsteady
    /\ chosen' = NoIndex
    /\ UNCHANGED <<kind, files, recorder, index, duration, opened, runs, owner,
                   list, desired>>

Next ==
    \/ SplitmuxsinkCreated
    \/ LastChunkVanished
    \/ OnPathSet
    \/ OpenChunk
    \/ RecorderEnds
    \/ \E removed \in SUBSET files : RemoveOldFiles(removed)
    \/ ScanFolder
    \/ \E unset \in UnsetTimes : FindChunkToPlay(unset)
    \/ \E writes \in BOOLEAN : Tick(writes)

Spec == Init /\ [][Next]_vars

-----------------------------------------------------------------------------
(* Properties.                                                             *)

\* Every variable keeps its type.
TypeOK ==
    /\ kind \in Kinds
    /\ now \in Nat
    /\ files \in SUBSET Indices
    /\ mtime \in [Indices -> Nat]
    /\ recorder \in {"off", "built", "named", "recording"}
    /\ index \in Nat \cup {NoIndex}
    /\ duration \in Nat \cup {NoIndex}
    /\ opened \in Nat
    /\ runs \in 0..MaxRuns
    /\ owner \in [Indices -> 0..MaxRuns]
    /\ steady \in Nat \cup {Unsteady}
    /\ list \in SUBSET Indices
    /\ desired \in Int
    /\ chosen \in Indices \cup {NoIndex}

\* Of two chunks of one run the one with the higher number is not older, over
\* clean-ups of any of them. The search of the player relies on it.
ChunksInOrder ==
    \A i, j \in files : i < j /\ owner[i] = owner[j] => mtime[i] <= mtime[j]

\* Over stops, crashes and clean-ups the chunks of an earlier run lie above
\* those of a later one, only number 0 may be older: a run begins with the low
\* numbers and writes over what is there, one number after the other.
NewerRunsAreLower ==
    \A i, j \in files : 0 < i /\ i < j => owner[i] >= owner[j]

\* A recorder never writes over a chunk of its own run.
OwnChunksStay ==
    [][OpenChunk /\ index \in files => owner[index] # runs]_vars

\* timeshift_recorder_stream.cpp says of CalcNextIndex "if chunk exist move to
\* next": no chunk that exists, of this or an earlier run, is written over.
ExistingIsSkipped == recorder = "named" => index \notin files

\* No file of the list has been removed while the player searches.
Undisturbed == list # {} /\ list \subseteq files

\* The list holds chunks of one run only.
OneRun == \A i, j \in list : owner[i] = owner[j]

\* With chunks of one run a player never starts with one that was finished two
\* durations after the desired time or later; if the recorder was not
\* interrupted around that time and the chunks of that time have not outlived
\* their life, nor, with the chunks of any runs in the directory, with one that
\* was finished longer ago than a chunk lasts.
PlaysNearDesired ==
    [][ Undisturbed /\ list' = {} /\ chosen' # NoIndex =>
          /\ OneRun => mtime[chosen'] < desired + 2 * ChunkDuration
          /\ /\ steady # Unsteady /\ steady <= desired - MaxLength
             /\ Delay + MaxLength <= LifeTime + 1
             => mtime[chosen'] >= desired - MaxLength ]_vars

\* What was recorded without interruption at the desired time is found, for any
\* delay but 0 that is shorter than the life of a chunk.
RecordedIsFound ==
    [][ /\ Delay > 0 /\ Delay < LifeTime /\ MaxLength <= 2 * ChunkDuration - 2
        /\ list # {} /\ list' = {}
        /\ steady # Unsteady /\ steady <= desired
        => chosen' # NoIndex ]_vars

\* The order of the chunks, over runs, crashes and clean-ups, that the search of
\* the player and the next run of the recorder rely on.
ChunksAreOrdered == TypeOK /\ ChunksInOrder /\ NewerRunsAreLower

\* A search finds what was recorded, and a chunk near the desired time.
SearchSucceeds == PlaysNearDesired /\ RecordedIsFound
================================================================================
