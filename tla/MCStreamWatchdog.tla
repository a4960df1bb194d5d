--------------------------- MODULE MCStreamWatchdog ---------------------------
(* Small instances of StreamWatchdog for TLC. *)
EXTENDS StreamWatchdog, TLC

CONSTANTS a, v, w

\* Each kind of stream, one with an srt or udp output, one with an http input.
MCStreams == {<<"stream", FALSE, FALSE>>, <<"recorder", FALSE, FALSE>>,
              <<"player", FALSE, FALSE>>, <<"stream", TRUE, FALSE>>,
              <<"stream", FALSE, TRUE>>}

\* GST_CLOCK_TIME_NONE, the duration of a live source.
MCDurations == {-1}

ThreadSymmetry == Permutations({a, v})
===============================================================================
