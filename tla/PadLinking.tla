----------------------------- MODULE PadLinking -----------------------------
(***************************************************************************)
(* A pipeline after it was built: its decodebins find the tracks of their  *)
(* inputs, ask the stream how far to decode each (autoplug-continue), and  *)
(* add a pad for each, which the stream links to the connection of its     *)
(* medium.  The tracks come in any order, and the decodebins of a mosaic   *)
(* or of a capture card run in threads of their own.  An rtsp source adds  *)
(* pads as well, which the stream links to the decodebin.                  *)
(*                                                                         *)
(* A track is a record of its medium and its codec; an mpeg-4 audio track  *)
(* is "aac", though its caps say audio/mpeg as those of "mp3" do.          *)
(***************************************************************************)
EXTENDS Pipeline

CONSTANT Sources   \* sequences of tracks, in the order of their pads

Tracks == [medium : {"video"}, codec : {"h264", "h265", "mpegv", "raw"}, channels : {0}]
          \cup [medium : {"audio"}, codec : {"aac", "mp3", "ac3", "raw"}, channels : {1, 2, 6}]
          \cup [medium : {"text"}, codec : {"subtitle"}, channels : {0}]

ASSUME SourcesAssumption == Sources \subseteq Seq(Tracks)

VARIABLES source,    \* per decodebin, the tracks it finds
          emitted,   \* per decodebin, the pads it has added
          rtp,       \* the pads the rtsp source has added
          rtpLinked, \* the one that is linked to the decodebin, 0 if none is
          inited,    \* IsVideoInited, IsAudioInited
          fed,       \* the pads that are linked: decodebin, pad, connection
          meters     \* options_.sreams: the channels drawn in each cell of a mosaic

pad_vars == <<source, emitted, rtp, rtpLinked, inited, fed, meters>>

Rtsp == class \in {"rtsp_relay", "rtsp_encode"}

\* The decodebins of the pipeline.
Bins == {elements[k].name[2] : k \in {j \in DOMAIN elements : elements[j].plugin = "decodebin"}}

InitPads == /\ InitBuild
           /\ source = <<>> /\ emitted = <<>>
           /\ rtp = 0 /\ rtpLinked = 0
           /\ inited = {} /\ fed = {} /\ meters = <<>>

\* The pipeline starts: every decodebin sees the start of its input.
Preroll ==
    /\ stage = "built" /\ emitted = <<>> /\ Bins # {}
    /\ source' \in [Bins -> Sources]
    /\ emitted' = [b \in Bins |-> 0]
    /\ meters' = [b \in Bins |-> 0]
    /\ UNCHANGED <<build_vars, rtp, rtpLinked, inited, fed>>

\* HandleRtspSrcPadAdded: only the first pad finds the sink of the decodebin free.
RtspPad ==
    /\ emitted # <<>> /\ rtp < Len(source[0])
    /\ rtp' = rtp + 1
    /\ rtpLinked' = IF rtpLinked = 0 THEN rtp + 1 ELSE rtpLinked
    /\ probes' = probes \cup {Probe(make_rtsp_src(0), 0, "input")}
    /\ UNCHANGED <<cfg, class, stage, elements, links, conn, out, unexpected, source, emitted, inited, fed, meters>>

RtspRelayPadAdded    == class = "rtsp_relay" /\ RtspPad
RtspEncodingPadAdded == class = "rtsp_encode" /\ RtspPad

\* The tracks decodebin b sees.
Seen(b) == IF ~ Rtsp THEN source[b]
           ELSE IF rtpLinked = 0 THEN <<>> ELSE <<source[0][rtpLinked]>>

-----------------------------------------------------------------------------
(***************************************************************************)
(* HandleDecodeBinAutoplugger: whether to go on, asked for the track as it *)
(* is found and again when the parser has found its size or its rate.      *)
(***************************************************************************)
RelayContinue(codec, sized) ==
    ~ (codec = "h265" \/ (sized /\ codec \in {"h264", "aac", "mp3", "ac3"}))

OnlyVideoContinue(codec, sized) == ~ (sized /\ codec \in {"aac", "mp3", "ac3"})

OnlyAudioContinue(codec, sized) == ~ (codec = "h265" \/ (sized /\ codec = "h264"))

\* Every branch of the encoding streams and of the mosaic goes on.
EncodingContinue(codec, sized) == TRUE
MosaicContinue(codec, sized)   == TRUE

Continue(codec, sized) ==
    CASE class = "only_video" -> OnlyVideoContinue(codec, sized)
      [] class = "only_audio" -> OnlyAudioContinue(codec, sized)
      [] class = "mosaic"     -> MosaicContinue(codec, sized)
      [] Encodes              -> EncodingContinue(codec, sized)
      [] OTHER                -> RelayContinue(codec, sized)

\* What the pad of a track carries.
Exposed(t) ==
    IF t.medium = "text" THEN t.codec
    ELSE IF Continue(t.codec, FALSE) /\ Continue(t.codec, TRUE) THEN "raw" ELSE t.codec

\* What the parsers of a relay take; the queues in front of encoders take anything.
ParserTakes == [h264parse |-> "h264", h265parse |-> "h265", mpegvideoparse |-> "mpegv",
                tsparse |-> "ts", aacparse |-> "aac", ac3parse |-> "ac3",
                mpegaudioparse |-> "mp3", rawaudioparse |-> "raw"]

Accepts(t) ==
    LET p == IF t.medium = "video" THEN cfg.vparser ELSE cfg.aparser
    IN  Encodes \/ class = "mosaic" \/ ParserTakes[p] = Exposed(t)

-----------------------------------------------------------------------------
(***************************************************************************)
(* HandleDecodeBinPadAdded.                                                *)
(***************************************************************************)
Udb(medium, id) == <<IF medium = "video" THEN "udb_conn_video" ELSE "udb_conn_audio", id>>
Dest(medium, b) == Udb(medium, IF class = "mosaic" THEN b ELSE 0)

\* The number of an audio pad counts the pads of every medium.
Selected(t, k) == class = "mosaic" \/ t.medium # "audio" \/ cfg.asel \in {-1, k - 1}

\* gst_pad_link, if the connection is free; a link that fails is only logged.
LinkPad(b, k, t, dest) ==
    fed' = IF (\E f \in fed : f.dest = dest) \/ ~ Accepts(t) THEN fed
           ELSE fed \cup {[bin |-> b, pad |-> k, dest |-> dest]}

Mutant_InitedByAnyPad(b, k, t) ==
    /\ IF t.medium \in cfg.have /\ t.medium \notin inited /\ Selected(t, k)
       THEN LinkPad(b, k, t, Udb(t.medium, 0)) ELSE UNCHANGED fed
    /\ inited' = inited \cup ({t.medium} \cap {"video", "audio"})
    /\ UNCHANGED meters

\* A medium counts as initialized even if its link failed.
LinkFirst(b, k, t) ==
    /\ IF t.medium \in cfg.have /\ t.medium \notin inited /\ Selected(t, k)
       THEN LinkPad(b, k, t, Udb(t.medium, 0)) /\ inited' = inited \cup {t.medium}
       ELSE UNCHANGED <<fed, inited>>
    /\ UNCHANGED meters

EncodingPadAdded(b, k, t) == Encodes /\ LinkFirst(b, k, t)

RelayPadAdded(b, k, t) == ~ Encodes /\ class # "mosaic" /\ LinkFirst(b, k, t)

\* The flags are never set in a mosaic, so that every pad is tried.  Each audio
\* pad adds its channels to the meters of its cell, linked or not; the meters
\* are there only when there is a picture to draw them on.
MosaicPadAdded(b, k, t) ==
    /\ class = "mosaic"
    /\ IF t.medium \in cfg.have THEN LinkPad(b, k, t, Udb(t.medium, b)) ELSE UNCHANGED fed
    /\ meters' = IF t.medium = "audio" /\ HasAudio /\ HasVideo
                 THEN [meters EXCEPT ![b] = @ + t.channels] ELSE meters
    /\ UNCHANGED inited

PadAdded(b) ==
    /\ emitted # <<>> /\ emitted[b] < Len(Seen(b))
    /\ LET k == emitted[b] + 1
           t == Seen(b)[k]
       IN  /\ emitted' = [emitted EXCEPT ![b] = k]
           /\ EncodingPadAdded(b, k, t) \/ RelayPadAdded(b, k, t) \/ MosaicPadAdded(b, k, t)
    /\ UNCHANGED <<build_vars, source, rtp, rtpLinked>>

\* How many meters a message of the level element of a cell writes, unchecked:
\* one for each channel of the pad that is linked to it.
LevelValues(f) == IF HasVideo THEN Seen(f.bin)[f.pad].channels ELSE 0

-----------------------------------------------------------------------------
NextPads == \/ Build /\ UNCHANGED pad_vars
        \/ Preroll
        \/ RtspRelayPadAdded \/ RtspEncodingPadAdded
        \/ \E b \in Bins : PadAdded(b)

SpecPads == InitPads /\ [][NextPads]_<<build_vars, pad_vars>>

-----------------------------------------------------------------------------
\* Every variable keeps its type; a linked pad was added by its decodebin and
\* leads to a connection the builder made.
PadTypeOK ==
    /\ BuildTypeOK
    /\ inited \subseteq {"video", "audio"}
    /\ rtpLinked \in 0..rtp
    /\ \A f \in fed : f.dest \in Names(elements) /\ f.pad \in 1..emitted[f.bin]

\* All tracks have been found.
Settled == /\ emitted # <<>>
           /\ Rtsp => rtp = Len(source[0])
           /\ \A b \in Bins : emitted[b] = Len(Seen(b))

\* The pads of decodebin b that medium may be linked from: the one the
\* configuration selects, or all of them.
Candidates(medium, b) ==
    {k \in DOMAIN Seen(b) : Seen(b)[k].medium = medium /\ Selected(Seen(b)[k], k)}

First(S) == CHOOSE k \in S : \A j \in S : k <= j

\* Every link of the pipeline: those of the builder, and those of the pads.
AllLinks == links \cup {<<Decodebin(f.bin).name, f.dest>> : f \in fed}
                  \cup (IF rtpLinked = 0 THEN {} ELSE {<<<<"src", 0>>, <<"decodebin", 0>>>>})

\* A pad that medium may be linked from fits: for one input the first of the
\* medium, or the selected one (a second is not tried when the first does not
\* fit), for a mosaic any of them.
Fits(medium, b) ==
    LET C == Candidates(medium, b)
    IN  /\ C # {}
        /\ IF class = "mosaic" THEN \E k \in C : Accepts(Seen(b)[k])
           ELSE Accepts(Seen(b)[First(C)])

Linked(medium, b) == \E f \in fed : f.dest = Dest(medium, b) /\ f.bin = b

\* Property: when all tracks are there, each medium is linked, whatever the order
\* of the pads and of the threads, if and only if a pad fits its connection; behind
\* an rtsp source that is only the medium of its first pad.  The two decodebins of
\* a capture card compete for the connections, and one of them gets each.
MediaAreLinked ==
    Settled => \A medium \in cfg.have :
        IF class = "device"
        THEN (\E b \in Bins : Fits(medium, b)) <=> (\E b \in Bins : Linked(medium, b))
        ELSE \A b \in Bins : Fits(medium, b) <=> Linked(medium, b)

\* Property: what is linked flows from the source of its input to every output.
FlowsEndToEnd ==
    Settled => \A b \in Bins, medium \in cfg.have :
        class # "device" =>
            (Fits(medium, b) <=> Linked(medium, b) /\ ReachesOutputs(<<"src", b>>, medium, AllLinks))

\* Property: the connection of a cell is fed by the decodebin of its own input,
\* one pad at a time, although the decodebins add their pads concurrently.
CellsAreNotMixed ==
    \A f, g \in fed : /\ f.dest = g.dest => f = g
                      /\ class = "mosaic" => f.bin = f.dest[2]

\* Property: a message of a level element never writes past the meters of its
\* cell, although they are added by the thread of the decodebin and written by
\* the main loop: the channels of a pad are added before it is linked.
LevelsInRange ==
    \A f \in fed : (class = "mosaic" /\ f.dest[1] = "udb_conn_audio")
        => LevelValues(f) <= meters[f.bin]

\* The graph stays a pipeline while decodebins add pads concurrently: no pad has
\* two peers, every sink is counted, under the output it was made for, each medium
\* gets a pad that fits, in a mosaic one of its own input, and a level message
\* stays within the meters of its cell.
GraphIsSound ==
    /\ PadTypeOK
    /\ OnePeerPerPad
    /\ ProbesReportTheirOutput
    /\ SinksHaveProbes
    /\ MediaAreLinked
    /\ CellsAreNotMixed
    /\ LevelsInRange

\* Data takes the way it should: from where a medium enters to every output, and
\* from the source of an input exactly when one of its pads fits.
DataFindsItsWay == EveryOutputIsFed /\ FlowsEndToEnd
=============================================================================
