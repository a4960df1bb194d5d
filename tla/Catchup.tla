-------------------------------- MODULE Catchup --------------------------------
(***************************************************************************)
(* The playlist of a catchup: every run of a CatchupStream reads it,       *)
(* collects the chunks it records and writes it again at its end           *)
(* (src/src/stream/streams/timeshift/catchup_stream.cpp). A run can be     *)
(* killed between any two steps and while it writes.                       *)
(***************************************************************************)
EXTENDS M3u8

CONSTANTS
    EntryDuration,  \* GetTimeShiftChunkDuration, in nanoseconds
    Times,          \* times of the first buffer of a chunk
    MaxEntryIndex,  \* bound: numbers of chunks
    MaxCatchups,    \* bound: runs
    MaxEntries      \* bound: entries of the list

ASSUME CatchupAssumption ==
    /\ EntryDuration \in 0..(UintMod - 1)
    /\ Times \subseteq 0..(UintMod - 1)
    /\ MaxEntryIndex \in Nat /\ MaxEntryIndex + 1 < NoTime
    /\ MaxCatchups \in Nat

VARIABLES
    run,       \* where the run is
    catchups,  \* runs so far
    chunk_,    \* chunk_ of the run: the number of the open chunk, and a time
    chunks_,   \* chunks_ of the run
    present,   \* numbers of the chunks in the directory
    playlist,  \* lines of the playlist in the directory
    loaded,    \* history: the chunks the last run read
    written    \* history: the chunks the last write was to write

catchup_vars == <<run, catchups, chunk_, chunks_, present, playlist, loaded, written>>

\* ChunkInfo(path, duration, index)
Entry(duration, index) == [duration |-> duration, index |-> index]

InitCatchup ==
    /\ run = "off"
    /\ catchups = 0
    /\ chunk_ = Entry(0, 0)
    /\ chunks_ = <<>>
    /\ present = {}
    /\ playlist = <<>>
    /\ loaded = <<>>
    /\ written = <<>>

-----------------------------------------------------------------------------
\* The constructor takes what the reader has got, whether it liked the file or
\* not. OnSplitmuxsinkCreated then puts the number that follows the last chunk
\* in the place of the duration.
StartRun ==
    /\ run = "off"
    /\ catchups < MaxCatchups
    /\ catchups' = catchups + 1
    /\ run' = "on"
    /\ chunks_' = ParseFile(playlist).chunks
    /\ loaded' = ParseFile(playlist).chunks
    /\ chunk_' = Entry(IF present = {} THEN NoTime
                       ELSE (CHOOSE i \in present : \A j \in present : j <= i) + 1, NoTime)
    /\ UNCHANGED <<present, playlist, written>>

\* CalcNextIndex.
NextEntryIndex ==
    LET i == IF chunk_.index = NoTime THEN 0 ELSE chunk_.index IN
    IF i \in present THEN i + 1 ELSE i

\* A time ends the last entry, if there was a time before.
EndLast(entries, time) ==
    IF entries # <<>> /\ time # NoTime /\ chunk_.duration # NoTime
    THEN [entries EXCEPT ![Len(entries)].duration = (time - chunk_.duration) % UintMod]
    ELSE entries

\* OnPathSet: the sample may be missing (then chunk_ keeps its time), and its
\* buffer may have no time.
CatchupOnPathSet(sample, time) ==
    /\ run \in {"on", "recording"}
    /\ NextEntryIndex <= MaxEntryIndex
    /\ Len(chunks_) < MaxEntries
    /\ chunks_' = Append(IF sample THEN EndLast(chunks_, time) ELSE chunks_,
                         Entry(NoTime, NextEntryIndex))
    /\ chunk_' = Entry(IF sample THEN time ELSE chunk_.duration, NextEntryIndex)
    /\ run' = "named"
    /\ UNCHANGED <<catchups, present, playlist, loaded, written>>

\* splitmuxsink creates the file.
ChunkOpened ==
    /\ run = "named"
    /\ run' = "recording"
    /\ present' = present \cup {chunk_.index}
    /\ UNCHANGED <<catchups, chunk_, chunks_, playlist, loaded, written>>

\* A clean-up removes chunks.
RemoveOldChunks(removed) ==
    /\ removed # {}
    /\ present' = present \ removed
    /\ UNCHANGED <<run, catchups, chunk_, chunks_, playlist, loaded, written>>

\* A chunk that was not ended gets the duration of the configuration.
Finished(entries) ==
    [i \in DOMAIN entries |-> IF entries[i].duration = NoTime
                              THEN Entry(EntryDuration, entries[i].index) ELSE entries[i]]

\* The lines WriteM3u8List writes: the header, two lines per entry, the footer.
Lines(entries) ==
    [k \in 1..(2 * Len(entries) + 6) |->
        IF k <= 5
        THEN WriteHeader(IF entries = <<>> THEN 0 ELSE entries[1].index, EntryDuration)[k]
        ELSE IF k <= 2 * Len(entries) + 5
        THEN WriteLine(entries[(k - 4) \div 2])[(k % 2) + 1]
        ELSE WriteFooter[1]]

\* The first n lines, and perhaps a part of the next one.
Written(entries, n, cut) ==
    IF cut THEN Append(SubSeq(Lines(entries), 1, n), Cut) ELSE SubSeq(Lines(entries), 1, n)

\* PostLoop and WriteM3u8List: a part of the lines reaches the file. An error ends
\* the writing, and so does the end of the process.
WriteM3u8List(n, cut) ==
    /\ run # "off"
    /\ run' = "off"
    /\ cut => n < Len(Lines(Finished(chunks_)))
    /\ playlist' = Written(Finished(chunks_), n, cut)
    /\ written' = Finished(chunks_)
    /\ chunks_' = <<>>
    /\ chunk_' = Entry(0, 0)
    /\ UNCHANGED <<catchups, present, loaded>>

\* The file cannot be opened, or the process is killed before that.
RunLost ==
    /\ run # "off"
    /\ run' = "off"
    /\ chunks_' = <<>>
    /\ chunk_' = Entry(0, 0)
    /\ UNCHANGED <<catchups, present, playlist, loaded, written>>

NextCatchup ==
    \/ StartRun
    \/ \E sample \in BOOLEAN, time \in Times \cup {NoTime} : CatchupOnPathSet(sample, time)
    \/ ChunkOpened
    \/ \E removed \in SUBSET present : RemoveOldChunks(removed)
    \/ \E n \in 0..(2 * Len(chunks_) + 6), cut \in BOOLEAN : WriteM3u8List(n, cut)
    \/ RunLost

SpecCatchup == InitCatchup /\ [][NextCatchup]_catchup_vars

-----------------------------------------------------------------------------
(* Properties.                                                             *)

Entries == [duration : 0..(UintMod - 1), index : 0..(UintMod - 1)]

\* Every variable keeps its type: no duration leaves its width.
CatchupTypeOK ==
    /\ run \in {"off", "on", "named", "recording"}
    /\ catchups \in 0..MaxCatchups
    /\ chunk_ \in Entries
    /\ chunks_ \in Seq(Entries) /\ loaded \in Seq(Entries) /\ written \in Seq(Entries)
    /\ present \in SUBSET (0..MaxEntryIndex)

\* Entry x was read where y was written: the same chunk, with the same duration
\* up to a hundredth, unless that does not fit any more when it is rounded up.
SameEntry(x, y) ==
    /\ x.index = y.index
    /\ \/ x.duration - y.duration \in -Resolution..Resolution
       \/ y.duration >= UintMod - Resolution

\* What is read back is what was written, up to the point where the writing
\* stopped, in whole entries: never a chunk or a duration of its own making.
ReadsBackPrefix ==
    LET read == ParseFile(playlist).chunks
    IN /\ Len(read) <= Len(written)
       /\ \A i \in 1..Len(read) : SameEntry(read[i], written[i])

\* The reader accepts a file only if the writing stopped behind an entry: with
\* the footer missing it still counts as complete, with half an entry it does
\* not.
AcceptedIsWhole ==
    ParseFile(playlist).ok =>
        \/ playlist = Lines(written)
        \/ \E n \in 1..Len(written) : playlist = Written(written, 5 + 2 * n, FALSE)

\* A chunk as the next run reads it from a file.
ReadBack(chunk) == Entry(Nanoseconds(Hundredths(chunk.duration)), chunk.index)

\* A run writes again what it has read: the numbers of all entries, and the
\* durations of all but the last, which the first chunk of the run ends anew, and
\* of those it takes for missing. Durations do not drift from run to run.
EarlierEntriesStay ==
    [][run # "off" /\ run' = "off" /\ <<playlist, written>>' # <<playlist, written>> =>
        /\ Len(loaded) <= Len(written')
        /\ \A i \in 1..Len(loaded) :
               /\ written'[i].index = loaded[i].index
               /\ i < Len(loaded) /\ loaded[i].duration # NoTime =>
                      ReadBack(written'[i]) = loaded[i]]_catchup_vars

\* A run adds its chunks one after the other, without a gap, and names one
\* again only when its file was removed.
EntriesFollow ==
    \A i \in (Len(loaded) + 1)..(Len(chunks_) - 1) :
        chunks_[i + 1].index - chunks_[i].index \in {0, 1}

\* Wherever a write of the playlist is cut off and however runs end, a later run
\* reads whole entries of what was to be written, accepts only a file that ends
\* behind an entry, adds its own chunks in order and keeps the earlier ones.
PlaylistIsFaithful ==
    /\ [](CatchupTypeOK /\ ReadsBackPrefix /\ AcceptedIsWhole /\ EntriesFollow)
    /\ EarlierEntriesStay
================================================================================
