--------------------------------- MODULE M3u8 ---------------------------------
(***************************************************************************)
(* Playlists: what M3u8Writer writes and what M3u8Reader makes of a file   *)
(* (src/src/utils). A file is the sequence of its lines that are not       *)
(* empty; a line is a record with its kind. Durations are unsigned numbers *)
(* of nanoseconds in memory and of hundredths of a second in the file.     *)
(***************************************************************************)
EXTENDS Integers, Sequences, FiniteSets

CONSTANTS
    UintMod,     \* uint64_t is 0..UintMod - 1
    Resolution,  \* nanoseconds in a hundredth of a second
    Deviation,   \* what the product of a time and SECOND, of type double, is off
    TooLarge     \* what a double that does not fit becomes as an uint64_t

\* GST_CLOCK_TIME_NONE and invalid_chunk_index.
NoTime == UintMod - 1

\* The product is off by less than half a hundredth and 0 is exact. The
\* conversion of a number that does not fit is undefined: processors make it 0
\* or the largest number.
ASSUME M3u8Assumption ==
    /\ UintMod \in Nat \ {0}
    /\ Resolution \in Nat \ {0}
    /\ Deviation \in [0..UintMod -> -(Resolution \div 2)..((Resolution - 1) \div 2)]
    /\ Deviation[0] = 0
    /\ TooLarge \in {0, NoTime}

Line(kind, value) == [kind |-> kind, value |-> value]

\* The format %.2f of a time in seconds.
Hundredths(d) == (d + Resolution \div 2) \div Resolution

\* What the reader makes of it: static_cast<uint64_t>(duration * SECOND).
Nanoseconds(h) ==
    LET d == h * Resolution + Deviation[h] IN IF d >= UintMod THEN TooLarge ELSE d

\* M3u8Writer::WriteHeader.
WriteHeader(first_index, target_duration) ==
    <<Line("EXTM3U", 0), Line("MEDIA-SEQUENCE", first_index), Line("ALLOW-CACHE", 0),
      Line("VERSION", 3), Line("TARGETDURATION", target_duration)>>

\* M3u8Writer::WriteLine.
WriteLine(chunk) == <<Line("EXTINF", Hundredths(chunk.duration)), Line("chunk", chunk.index)>>

\* M3u8Writer::WriteFooter.
WriteFooter == <<Line("ENDLIST", 0)>>

\* The beginning of a line that the writer did not finish.
Cut == Line("cut", 0)

\* The lines ParseFile reads itself; the first other line begins the chunks.
HeaderKinds == {"EXTM3U", "MEDIA-SEQUENCE", "ALLOW-CACHE", "VERSION", "TARGETDURATION"}

\* Lines 2i - 1 and 2i are a header and a chunk.
IsPair(lines, i) ==
    /\ 2 * i <= Len(lines)
    /\ lines[2 * i - 1].kind = "EXTINF"
    /\ lines[2 * i].kind = "chunk"

\* The pairs lines begin with.
Pairs(lines) == Cardinality({k \in 1..Len(lines) : \A i \in 1..k : IsPair(lines, i)})

\* The first n pairs as chunks.
ChunksOf(lines, n) ==
    [i \in 1..n |-> [index |-> lines[2 * i].value, duration |-> Nanoseconds(lines[2 * i - 1].value)]]

Mutant_HalfEntryAccepted(lines) ==
    [ok |-> Pairs(lines) > 0, chunks |-> ChunksOf(lines, Pairs(lines))]

\* M3u8Reader::ParseChunks: pairs of a header and a chunk up to the footer or
\* the end of the file. Chunks before an error stay in chunks_.
ParseChunks(lines) ==
    LET n == Pairs(lines)
    IN [ok |-> IF 2 * n = Len(lines) THEN n > 0 ELSE lines[2 * n + 1].kind = "ENDLIST",
        chunks |-> ChunksOf(lines, n)]

\* The lines of the header that a file begins with.
HeaderLines(lines) ==
    Cardinality({k \in 1..Len(lines) : \A i \in 1..k : lines[i].kind \in HeaderKinds})

\* M3u8Reader::ParseFile: a file of header lines only is refused.
ParseFile(lines) ==
    LET n == HeaderLines(lines)
    IN IF n = Len(lines) THEN [ok |-> FALSE, chunks |-> <<>>]
       ELSE ParseChunks(SubSeq(lines, n + 1, Len(lines)))
================================================================================
