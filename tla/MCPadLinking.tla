---------------------------- MODULE MCPadLinking ----------------------------
(* The instances of PadLinking: every class of streams, with the options    *)
(* that change its pipeline, and sources whose tracks come in every order;  *)
(* and those of Playlist. The building of a pipeline and the playing of a    *)
(* list are independent models: a behaviour is one of the first or one of   *)
(* the second.                                                              *)
EXTENDS PadLinking, Playlist

VARIABLE part

Base == [type |-> "relay", input |-> <<"http">>, output |-> <<"http">>, have |-> {"video", "audio"},
         venc |-> "x264enc", aenc |-> "faac", vparser |-> "h264parse", aparser |-> "aacparse",
         asel |-> -1, opts |-> {}]

Enc == [Base EXCEPT !.type = "encode"]
Mos == [Enc EXCEPT !.input = <<"http", "udp">>]

Haves == {{"video"}, {"audio"}, {"video", "audio"}}
Outs  == {<<"http">>, <<"http", "other">>, <<"udp">>, <<"rtmp", "tcp">>, <<"srt", "udp">>, <<"screen", "http">>, <<"other">>}

McConfigs ==
    {[Base EXCEPT !.have = h, !.output = o, !.aparser = a] : h \in Haves, o \in Outs, a \in AudioParsers}
    \cup {[Base EXCEPT !.vparser = v, !.output = o] : v \in VideoParsers, o \in Outs}
    \cup {[Base EXCEPT !.type = t, !.have = h] : t \in Types, h \in Haves}
    \cup {[Base EXCEPT !.type = t, !.opts = {"loop"}] : t \in {"vod_relay", "vod_encode"}}
    \cup {[Base EXCEPT !.input = i] : i \in {<<"rtsp">>, <<"other">>, <<"file", "file">>, <<"http", "file">>}}
    \cup {[Base EXCEPT !.asel = n] : n \in 0..3}
    \cup {[Enc EXCEPT !.have = h, !.output = o, !.aenc = a] : h \in Haves, o \in Outs, a \in AudioEncoders}
    \cup {[Enc EXCEPT !.venc = v, !.output = o] : v \in VideoEncoders, o \in {<<"udp">>, <<"rtmp", "tcp">>}}
    \cup {[Enc EXCEPT !.opts = s, !.output = <<"rtmp", "tcp">>] :
            s \in {{"relay_video"}, {"relay_audio"}, {"size", "framerate", "deinterlace", "aspect_ratio"},
                   {"logo", "rsvg_logo", "volume", "channels"}, {"profile", "stream-format"}}}
    \cup {[Enc EXCEPT !.input = i, !.have = h, !.opts = s] :
            i \in {<<"test">>, <<"display">>, <<"dev">>, <<"rtsp">>, <<"other">>, <<"file", "file">>},
            h \in Haves, s \in {{}, {"audio_device"}}}
    \cup {[Mos EXCEPT !.have = h, !.output = o, !.aenc = a] :
            h \in Haves, o \in Outs, a \in {"faac", "lamemp3enc"}}
    \cup {[Mos EXCEPT !.venc = v, !.output = <<"udp">>] : v \in VideoEncoders}
    \cup {[Mos EXCEPT !.opts = {"aspect_ratio", "framerate", "deinterlace", "volume"}, !.output = <<"decklink", "rtmp">>],
          [Mos EXCEPT !.input = <<"http", "udp", "tcp">>],
          [Mos EXCEPT !.input = <<"http", "rtsp">>]}
    \cup {[c EXCEPT !.output = o] : c \in {Base, Enc, Mos},
            o \in {<<"bad_udp">>, <<"http", "bad_tcp">>, <<"rtmp", "bad_http">>}}
    \cup {[Base EXCEPT !.type = t, !.input = i] :
            t \in {"relay", "encode", "timeshift_recorder", "test_life"}, i \in {<<"bad_udp">>, <<"bad_tcp">>}}
    \cup {[Base EXCEPT !.type = t, !.have = h, !.vparser = "unknown"] : t \in Types, h \in Haves}
    \cup {[Base EXCEPT !.type = t, !.have = h, !.aparser = "unknown"] : t \in Types, h \in Haves}
    \cup {[c EXCEPT !.have = h, !.opts = s, !.output = o, !.venc = "unknown"] :
            c \in {Enc, Mos}, h \in Haves, s \in {{}, {"relay_video"}}, o \in {<<"udp">>, <<"screen">>}}
    \cup {[c EXCEPT !.have = h, !.opts = s, !.output = o, !.aenc = "unknown"] :
            c \in {Enc, Mos}, h \in Haves, s \in {{}, {"relay_audio"}}, o \in {<<"udp">>, <<"screen">>}}

V(c) == [medium |-> "video", codec |-> c, channels |-> 0]
A(c) == [medium |-> "audio", codec |-> c, channels |-> IF c = "mp3" THEN 1 ELSE 2]

McSources == {<<V("h264"), A("aac")>>, <<A("aac"), V("h264")>>, <<V("mpegv"), V("h264"), A("mp3"), A("aac")>>,
              <<[medium |-> "text", codec |-> "subtitle", channels |-> 0], A("ac3"), V("h265")>>, <<V("raw"), A("raw")>>}

\* Short lists of missing, empty and longer files.
McLists == UNION {[1..n -> {-1, 0, 1, 2}] : n \in 1..2} \cup {<<1, 0, 1>>, <<1, 0, -1>>}

allVars == <<part, build_vars, pad_vars, play_vars>>

InitPipelines ==
    /\ part \in {"building", "playing"}
    /\ InitPads
    /\ InitPlaylist
    /\ part = "playing" => cfg = Base
    /\ part = "building" => input = <<1>> /\ ~loop /\ ~vod

\* Steps of the model of playing.
Plays(step) == part = "playing" /\ step /\ UNCHANGED <<part, build_vars, pad_vars>>

NextPipelines ==
    \/ part = "building" /\ NextPads /\ UNCHANGED <<part, play_vars>>
    \/ Plays(NextPlaylist)

SpecPipelines ==
    /\ InitPipelines /\ [][NextPipelines]_allVars
    /\ WF_allVars(Plays(Main))
    /\ WF_allVars(Plays(Source))
    /\ \A o \in Sinks : WF_allVars(Plays(SinkReceives(o)))

\* A list that ends, and a stream that is quit, come to their end
\* (Playlist!ListEnds).
PlaylistEnds == part = "playing" => ListEnds
=============================================================================
