------------------------------ MODULE Pipeline ------------------------------
(***************************************************************************)
(* How the pipeline of a stream is built: streams_factory.cpp chooses the  *)
(* class of the stream from its configuration, and the builder of that     *)
(* class (src/stream/streams/builders) adds and links elements stage by    *)
(* stage: input, connections behind the decoder, post-processing,          *)
(* conversion, outputs.  A name that is in the pipeline already, a link    *)
(* the plug-ins refuse and a null element end the process (the CHECKs of   *)
(* IBaseBuilder::ElementAdd and ElementLink).                              *)
(*                                                                         *)
(* A configuration is a record of what the builders read.  Urls are        *)
(* schemes; an optional field is a member of opts when it is set.          *)
(***************************************************************************)
EXTENDS Elements, FiniteSets

CONSTANT Configs   \* the configurations a stream may be started with

Inputs  == {"file", "http", "https", "udp", "rtmp", "tcp", "srt", "rtsp", "dev", "test", "display",
            "bad_udp", "bad_tcp", "other"}
Outputs == {"udp", "tcp", "rtmp", "http", "srt", "screen", "decklink",
            "bad_udp", "bad_tcp", "bad_http", "other"}
Types   == {"relay", "encode", "timeshift_player", "timeshift_recorder", "catchup",
            "test_life", "vod_relay", "vod_encode", "proxy"}
Options == {"loop", "relay_video", "relay_audio", "size", "deinterlace", "aspect_ratio",
            "framerate", "logo", "rsvg_logo", "volume", "channels", "profile",
            "stream-format", "audio_device"}

\* A name of an encoder or a parser that is not known is only warned about.
ConfigType ==
    [type : Types, input : Seq(Inputs), output : Seq(Outputs), have : SUBSET {"video", "audio"},
     venc : VideoEncoders \cup {"unknown"}, aenc : AudioEncoders \cup {"unknown"},
     vparser : VideoParsers \cup {"unknown"}, aparser : AudioParsers \cup {"unknown"}, asel : -1..15, opts : SUBSET Options]

ASSUME ConfigsAssumption == Configs \subseteq ConfigType

VARIABLES cfg,         \* config_
          class,       \* the class streams_factory chose
          stage,       \* the Build* call that is next, or how the building ended
          elements,    \* pipeline_elements_
          links,       \* pairs of names
          probes,      \* the probes installed, with the id each reports under
          conn,        \* Connector: the last element of each medium
          out,         \* the index of the loop over the inputs or the outputs
          unexpected   \* a NOTREACHED was passed

build_vars == <<cfg, class, stage, elements, links, probes, conn, out, unexpected>>

None == <<"none", 0>>

Ended == {"refused", "failed", "aborted", "declined", "built"}

Names(els) == {els[k].name : k \in DOMAIN els}
HasVideo == "video" \in cfg.have
HasAudio == "audio" \in cfg.have
Opt(o)   == o \in cfg.opts
If(b, line) == IF b THEN line ELSE <<>>

InitBuild == /\ cfg \in Configs
        /\ class = "none" /\ stage = "factory"
        /\ elements = <<>> /\ links = {} /\ probes = {}
        /\ conn = [video |-> None, audio |-> None]
        /\ out = 0 /\ unexpected = FALSE

-----------------------------------------------------------------------------
(***************************************************************************)
(* The class of the stream.                                                *)
(***************************************************************************)
IsDevice(scheme) == scheme \in {"screen", "decklink"}

AllFiles == \A k \in DOMAIN cfg.input : cfg.input[k] = "file"

RelayClass ==
    IF Len(cfg.input) > 1 THEN (IF AllFiles THEN "playlist_relay" ELSE "null")
    ELSE IF cfg.input[1] = "rtsp" THEN "rtsp_relay" ELSE "relay"

EncodeClass ==
    IF Len(cfg.input) > 1 THEN (IF AllFiles THEN "playlist_encode" ELSE "mosaic")
    ELSE CASE cfg.input[1] = "test"    -> "test_input"
           [] cfg.input[1] = "display" -> "display_input"
           [] cfg.input[1] = "dev"     -> "device"
           [] cfg.input[1] = "rtsp"    -> "rtsp_encode"
           [] OTHER -> IF Opt("relay_video") THEN "only_audio"
                       ELSE IF Opt("relay_audio") THEN "only_video" ELSE "encode"

StreamClass ==
    CASE cfg.type = "proxy"  -> "null"
      [] cfg.type = "relay"  -> RelayClass
      [] cfg.type = "encode" -> EncodeClass
      [] cfg.type \in {"vod_relay", "vod_encode"} -> IF Opt("loop") THEN "null" ELSE cfg.type
      [] OTHER -> cfg.type

CreateStream ==
    /\ stage = "factory"
    /\ class' = StreamClass
    /\ stage' = IF class' = "null" THEN "refused" ELSE IF class' = "mosaic" THEN "mosaic" ELSE "input"
    /\ unexpected' = (class' = "null")
    /\ UNCHANGED <<cfg, elements, links, probes, conn, out>>

Encodes == class \in {"encode", "only_audio", "only_video", "rtsp_encode", "playlist_encode",
                      "device", "test_input", "display_input", "vod_encode"}
Recorder == class \in {"timeshift_recorder", "catchup"}

-----------------------------------------------------------------------------
(***************************************************************************)
(* Adding and linking.  A line is a sequence of elements, each linked to   *)
(* the next; the first is linked to "from" and the last to "to".           *)
(***************************************************************************)
Tail1(from, line) == IF line = <<>> THEN from ELSE line[Len(line)].name

Joined(from, line, to) ==
    LET first == IF line = <<>> THEN to ELSE line[1].name
        last  == Tail1(from, line)
    IN  {<<line[k].name, line[k + 1].name>> : k \in 1..(Len(line) - 1)}
        \cup {l \in {<<from, first>>, <<last, to>>} : None \notin {l[1], l[2]}}

Clash(els) == Cardinality(Names(els)) < Len(els)

Refused(els, l) ==
    LET Plugin(n) == (CHOOSE k \in DOMAIN els : els[k].name = n)
    IN  ~ CanLink(els[Plugin(l[1])].plugin, els[Plugin(l[2])].plugin)

\* ElementAdd and ElementLink, for everything one stage adds.
Add(line, lks, prb, next) ==
    LET els == elements \o line
    IN  /\ elements' = els
        /\ links' = links \cup lks
        /\ probes' = probes \cup prb
        /\ stage' = IF \/ NullElement \in {line[k] : k \in DOMAIN line}
                       \/ Clash(els)
                       \/ \E l \in lks : Refused(els, l)
                    THEN "aborted" ELSE next

Probe(el, id, kind) == [el |-> el.name, id |-> id, kind |-> kind]

-----------------------------------------------------------------------------
(***************************************************************************)
(* BuildInput.                                                             *)
(***************************************************************************)
Decodebin(i) == Element("decodebin", "decodebin", i)

\* BuildInputSrc and its overrides: the one source in front of the one decodebin.
BuildInputSrc       == make_src(cfg.input[1], 0)
BuildPlaylistSrc    == make_app_src(0)
BuildMultiFileSrc   == make_multifile_src(0)

BuildInput ==
    /\ stage = "input"
    /\ class \notin {"rtsp_relay", "rtsp_encode", "device", "test_input", "display_input"}
    /\ LET src == CASE class \in {"playlist_relay", "playlist_encode"} -> BuildPlaylistSrc
                    [] class = "timeshift_player" -> BuildMultiFileSrc
                    [] OTHER -> BuildInputSrc
       IN  /\ Add(<<src, Decodebin(0)>>, Joined(None, <<src, Decodebin(0)>>, None),
                  IF class = "timeshift_player" THEN {} ELSE {Probe(src, 0, "input")}, "udb")
           /\ unexpected' = (src = NullElement)
    /\ UNCHANGED <<cfg, class, conn, out>>

\* The source has no pads yet: it is linked to the decodebin when they appear.
RtspInput == /\ stage = "input"
             /\ Add(<<make_rtsp_src(0), Decodebin(0)>>, {}, {}, "udb")
             /\ UNCHANGED <<cfg, class, conn, out, unexpected>>

BuildRtspRelayInput    == class = "rtsp_relay" /\ RtspInput
BuildRtspEncodingInput == class = "rtsp_encode" /\ RtspInput

\* A capture card: one source and one decodebin per medium.
BuildDeviceInput ==
    /\ stage = "input" /\ class = "device"
    /\ LET video == If(HasVideo, <<make_v4l2_src(0), Decodebin(0)>>)
           audio == If(HasAudio, <<make_alsa_src(1), Decodebin(1)>>)
       IN  Add(video \o audio, Joined(None, video, None) \cup Joined(None, audio, None),
               {p \in {Probe(make_v4l2_src(0), 0, "input"), Probe(make_alsa_src(1), 1, "input")} :
                   p.el \in Names(video \o audio)}, "udb")
    /\ unexpected' = (unexpected \/ (HasAudio /\ ~ Opt("audio_device")))
    /\ UNCHANGED <<cfg, class, conn, out>>

\* The test and the display input need no decodebin: their sources are raw.
RawInput(vsrc, asrc) ==
    LET both == If(HasVideo, <<vsrc>>) \o If(HasAudio, <<asrc>>)
    IN  /\ stage = "input"
        /\ Add(both, {}, {Probe(both[k], 0, "input") : k \in DOMAIN both}, "udb")
        /\ conn' = [video |-> IF HasVideo THEN vsrc.name ELSE None,
                    audio |-> IF HasAudio THEN asrc.name ELSE None]
        /\ UNCHANGED <<cfg, class, out, unexpected>>

BuildTestInput ==
    /\ class = "test_input"
    /\ RawInput(Element("videotestsrc", "video_src", 0), Element("audiotestsrc", "audio_src", 0))

BuildDisplayInput ==
    /\ class = "display_input"
    /\ RawInput(Element("ximagesrc", "src", 0), Element("audiotestsrc", "src", 1))

-----------------------------------------------------------------------------
(***************************************************************************)
(* BuildUdbConnections: what the pads of the decodebin will be linked to,  *)
(* queues in front of the encoders, parsers in a relay.                    *)
(***************************************************************************)
UdbConnections(video, audio) ==
    LET v == If(HasVideo, video)
        a == If(HasAudio, audio)
    IN  /\ stage = "udb"
        /\ Add(v \o a, Joined(None, a, None), {}, "postproc")
        /\ conn' = [video |-> Tail1(None, v), audio |-> Tail1(None, a)]
        /\ UNCHANGED <<cfg, class, out, unexpected>>

BuildUdbConnections ==
    /\ Encodes /\ class \notin {"test_input", "display_input"}
    /\ UdbConnections(<<Element("queue", "udb_conn_video", 0)>>, <<Element("queue", "udb_conn_audio", 0)>>)

\* A relay encodes raw audio.
BuildRelayUdbConnections ==
    /\ ~ Encodes
    /\ UdbConnections(<<make_video_parser(cfg.vparser, "udb_conn_video", 0)>>,
                      <<make_audio_parser(cfg.aparser, "udb_conn_audio", 0)>>
                      \o If(cfg.aparser = "rawaudioparse", <<make_aac_encoder(0)>>))

\* Raw sources are their own connections.
KeepConnections ==
    /\ stage = "udb" /\ class \in {"test_input", "display_input"}
    /\ stage' = "postproc"
    /\ UNCHANGED <<cfg, class, elements, links, probes, conn, out, unexpected>>

-----------------------------------------------------------------------------
(***************************************************************************)
(* BuildPostProc and BuildConverter: the stages of the encoding streams; a *)
(* relay only has the tees, a recorder nothing.                            *)
(***************************************************************************)
IsMfxGpu == cfg.venc = "mfxh264enc"
IsGpu    == cfg.venc \in {"mfxh264enc", "vaapih264enc", "vaapimpeg2enc"}

VideoLogos(id) ==
    If(Opt("logo"), <<Element("gdkpixbufoverlay", "videologo", id)>>)
    \o If(Opt("rsvg_logo"), <<Element("rsvgoverlay", "rsvg_videologo", id),
                              Element("videoconvert", "video_convert_rsvg_videologo", id)>>)

\* A gpu scales, changes the rate and deinterlaces in its own element.
BuildVideoPostProc(id) ==
    If(class # "only_audio",
       (IF IsGpu THEN <<Element(IF IsMfxGpu THEN "mfxvpp" ELSE "vaapipostproc", "post_proc", id)>>
        ELSE build_video_convert(Opt("deinterlace"), id)
             \o If(Opt("size"), build_video_scale(id))
             \o If(Opt("aspect_ratio"), <<Element("aspectratiocrop", "aspect_ratio", id)>>)
             \o If(Opt("framerate"), build_video_framerate(id)))
       \o VideoLogos(id))

BuildAudioPostProc(id) ==
    If(class # "only_video", build_audio_converters(Opt("volume"), Opt("channels"), id))

\* Both media behind what they have reached so far.
Mutant_FrontNotLinked(video, audio, next) ==
    LET vline == If(HasVideo, video)
        aline == If(HasAudio, audio)
    IN  /\ Add(vline \o aline, Joined(None, vline, None) \cup Joined(None, aline, None), {}, next)
        /\ conn' = [video |-> Tail1(conn.video, vline), audio |-> Tail1(conn.audio, aline)]
        /\ UNCHANGED <<cfg, class, out, unexpected>>

Extend(video, audio, next) ==
    LET vline == If(HasVideo, video)
        aline == If(HasAudio, audio)
    IN  /\ Add(vline \o aline,
               Joined(conn.video, vline, None) \cup Joined(conn.audio, aline, None), {}, next)
        /\ conn' = [video |-> Tail1(conn.video, vline), audio |-> Tail1(conn.audio, aline)]
        /\ UNCHANGED <<cfg, class, out, unexpected>>

BuildPostProc ==
    /\ stage = "postproc"
    /\ IF Encodes THEN Extend(BuildVideoPostProc(0), BuildAudioPostProc(0), "converter")
                  ELSE Extend(<<>>, <<>>, "converter")

BuildVideoConverter(id) ==
    If(class # "only_audio",
       build_video_encoder(cfg.venc, {"profile", "stream-format"} \cap cfg.opts, id))

\* mp3 is resampled before and parsed behind its encoder.
AudioEncoderLine(id) ==
    LET enc == make_audio_encoder(cfg.aenc, id)
    IN  IF cfg.aenc = "lamemp3enc"
        THEN <<Element("audioresample", "audioresample", id), enc,
               Element("mpegaudioparse", "mpegaudioparse", id)>>
        ELSE <<enc>>

BuildAudioConverter(id) == If(class # "only_video", AudioEncoderLine(id))

VideoTee == Element("tee", "video_tee", 0)
AudioTee == Element("tee", "audio_tee", 0)

BuildConverter ==
    /\ stage = "converter" /\ Encodes
    /\ Extend(BuildVideoConverter(0)
                \o If(IsH264Encoder(cfg.venc), <<make_h264_parser(0)>>) \o <<VideoTee>>,
              BuildAudioConverter(0)
                \o If(IsAACEncoder(cfg.aenc), <<make_aac_parser(0)>>) \o <<AudioTee>>,
              "output")

BuildRelayConverter ==
    /\ stage = "converter" /\ ~ Encodes
    /\ IF Recorder THEN Extend(<<>>, <<>>, "output") ELSE Extend(<<VideoTee>>, <<AudioTee>>, "output")

-----------------------------------------------------------------------------
(***************************************************************************)
(* BuildOutput: a muxer and a sink for each output, fed by the tees.       *)
(***************************************************************************)
\* GetVideoCodecType, GetAudioCodecType: "none" where they end in NOTREACHED.
EncoderVideoCodec(codec) ==
    CASE IsH264Encoder(codec) -> "h264" [] codec = "x265enc" -> "h265"
      [] codec = "mpeg2enc" -> "mpeg"   [] OTHER -> "none"

EncoderAudioCodec(codec) ==
    CASE IsAACEncoder(codec) -> "aac" [] codec = "lamemp3enc" -> "mpeg" [] OTHER -> "none"

ParserVideoCodec(parser) ==
    CASE parser = "h264parse" -> "h264" [] parser = "h265parse" -> "h265"
      [] parser = "tsparse" -> "mpeg"   [] OTHER -> "none"

ParserAudioCodec(parser) ==
    CASE parser = "aacparse" -> "aac" [] parser = "mpegaudioparse" -> "mpeg"
      [] parser = "ac3parse" -> "ac3" [] OTHER -> "none"

VideoCodecType == IF Encodes THEN EncoderVideoCodec(cfg.venc) ELSE ParserVideoCodec(cfg.vparser)
AudioCodecType == IF Encodes THEN EncoderAudioCodec(cfg.aenc) ELSE ParserAudioCodec(cfg.aparser)

OrElse(codec, default) == IF codec = "none" THEN default ELSE codec

Mutant_QueuesShareAName(i, scheme) ==
    <<Element("queue", "video_tee_queue", 0)>>
    \o If(scheme = "udp", <<make_video_pay(OrElse(VideoCodecType, "h264"), i)>>)

VideoBranch(i, scheme) ==
    <<Element("queue", "video_tee_queue", i)>>
    \o If(scheme = "udp", <<make_video_pay(OrElse(VideoCodecType, "h264"), i)>>)

AudioBranch(i, scheme) ==
    <<Element("queue", "audio_tee_queue", i)>>
    \o If(scheme = "udp", <<make_audio_pay(OrElse(AudioCodecType, "mpeg"), i)>>)

AddOutput(i, url, video, audio) ==
    LET mux  == make_muxer(SchemeOf(url), i)
        sink == build_output(url, i)
        v    == If(HasVideo, video)
        a    == If(HasAudio, audio)
    IN  Add(<<mux>> \o v \o a \o <<sink>>,
            (IF HasVideo THEN Joined(conn.video, v, mux.name) ELSE {})
            \cup (IF HasAudio THEN Joined(conn.audio, a, mux.name) ELSE {})
            \cup {<<mux.name, sink.name>>},
            {Probe(sink, i, "output")}, stage)

BuildOutput ==
    /\ stage = "output" /\ class # "test_life" /\ ~ Recorder /\ out < Len(cfg.output)
    /\ LET url    == cfg.output[out + 1]
           scheme == SchemeOf(url)
       IN
         IF IsDevice(url)
         THEN UNCHANGED <<stage, elements, links, probes, unexpected>>
         ELSE /\ AddOutput(out, url, VideoBranch(out, scheme), AudioBranch(out, scheme))
              /\ unexpected' = \/ unexpected
                               \/ build_output(url, 0) = NullElement
                               \/ scheme = "udp" /\ HasVideo /\ VideoCodecType = "none"
                               \/ scheme = "udp" /\ HasAudio /\ AudioCodecType = "none"
    /\ out' = out + 1
    /\ UNCHANGED <<cfg, class, conn>>

\* The sinks of a life test, one per medium, both counted as output 0.
BuildTestOutput ==
    /\ stage = "output" /\ class = "test_life"
    /\ LET v == If(HasVideo, <<make_test_sink(0)>>)
           a == If(HasAudio, <<make_test_sink(1)>>)
       IN  Add(v \o a,
               (IF HasVideo THEN Joined(conn.video, v, None) ELSE {})
               \cup (IF HasAudio THEN Joined(conn.audio, a, None) ELSE {}),
               {Probe((v \o a)[k], 0, "output") : k \in DOMAIN (v \o a)}, "built")
    /\ UNCHANGED <<cfg, class, conn, out, unexpected>>

\* link_to_multiplexer reads a pad of both connections, and one may be null.
BuildRecorderOutput ==
    /\ stage = "output" /\ Recorder
    /\ LET sink == Element("splitmuxsink", "splitmuxsink", 0) IN
         IF HasVideo /\ HasAudio
         THEN Add(<<sink>>, {<<conn.audio, sink.name>>, <<conn.video, sink.name>>}, {}, "built")
         ELSE /\ stage' = "aborted"
              /\ UNCHANGED <<elements, links, probes>>
    /\ UNCHANGED <<cfg, class, conn, out, unexpected>>

BuildDone ==
    /\ stage = "output" /\ class # "test_life" /\ ~ Recorder /\ out = Len(cfg.output)
    /\ stage' = "built"
    /\ UNCHANGED <<cfg, class, elements, links, probes, conn, out, unexpected>>

-----------------------------------------------------------------------------
(***************************************************************************)
(* A mosaic: a source, a decodebin and a cell for each input, the mixers,  *)
(* and an encoder for each output.                                         *)
(***************************************************************************)
VideoMixer == Element("videomixer", "videomixer", 0)
AudioMixer == Element("audiomixer", "interlive", 0)

\* The numbers of inputs that fill a grid.
GridSizes == {1, 2, 4, 9, 16}

InitMosaic ==
    /\ stage = "mosaic"
    /\ IF Len(cfg.input) \in GridSizes
       THEN Add(<<VideoMixer, AudioMixer>>, {}, {}, "mosaic_input")
       ELSE stage' = "failed" /\ UNCHANGED <<elements, links, probes>>
    /\ UNCHANGED <<cfg, class, conn, out, unexpected>>

MosaicInput ==
    /\ stage = "mosaic_input" /\ out < Len(cfg.input)
    /\ LET src   == make_src(cfg.input[out + 1], out)
           video == If(HasVideo, <<Element("queue", "udb_conn_video", out),
                                   Element("videoscale", "mux_videoscale", out),
                                   Element("capsfilter", "mux_videoscale_capsfilter", out),
                                   Element("videobox", "videobox", out)>>)
           audio == If(HasAudio, <<Element("queue", "udb_conn_audio", out),
                                   Element("level", "level", out)>>)
       IN  /\ Add(<<src, Decodebin(out)>> \o video \o audio,
                  Joined(None, <<src, Decodebin(out)>>, None)
                  \cup (IF HasVideo THEN Joined(None, video, VideoMixer.name) ELSE {})
                  \cup (IF HasAudio THEN Joined(None, audio, AudioMixer.name) ELSE {}),
                  {Probe(src, out, "input")}, stage)
           /\ unexpected' = (unexpected \/ src = NullElement)
    /\ out' = out + 1
    /\ UNCHANGED <<cfg, class, conn>>

MosaicMix ==
    /\ stage = "mosaic_input" /\ out = Len(cfg.input)
    /\ LET video == If(HasVideo, <<Element("cairooverlay", "cairo", 0)>>
                                 \o build_video_convert(Opt("deinterlace"), 0) \o <<VideoTee>>)
           audio == If(HasAudio, build_audio_converters(Opt("volume"), Opt("channels"), 0)
                                 \o <<AudioTee>>)
       IN  /\ Add(video \o audio, Joined(VideoMixer.name, video, None)
                                  \cup Joined(AudioMixer.name, audio, None), {}, "mosaic_output")
           /\ conn' = [video |-> Tail1(VideoMixer.name, video), audio |-> Tail1(AudioMixer.name, audio)]
    /\ out' = 0
    /\ UNCHANGED <<cfg, class, unexpected>>

\* The parser stands behind the payloader, and audio is always paid as aac.
MosaicVideoBranch(i, scheme) ==
    <<Element("queue", "video_tee_queue", i)>>
    \o If(Opt("aspect_ratio"), <<Element("aspectratiocrop", "aspect_ratio", i)>>)
    \o If(Opt("framerate") /\ ~ IsMfxGpu, build_video_framerate(i))
    \o build_video_encoder(cfg.venc, {"profile", "stream-format"} \cap cfg.opts, i)
    \o If(scheme = "udp", <<IF EncoderVideoCodec(cfg.venc) = "none" THEN NullElement
                            ELSE make_video_pay(EncoderVideoCodec(cfg.venc), i)>>)
    \o If(IsH264Encoder(cfg.venc), <<make_h264_parser(i)>>)

MosaicAudioBranch(i, scheme) ==
    <<Element("queue", "audio_tee_queue", i)>> \o AudioEncoderLine(i)
    \o If(scheme = "udp", <<make_aac_pay(i)>>)

\* A screen or a decklink card takes the raw media of the tees.
MosaicDeviceOutput(i, device) ==
    LET vsink == make_video_device_sink(device, i)
        asink == make_audio_device_sink(device, i)
        v == If(HasVideo, <<Element("queue", "video_tee_queue", i), vsink>>)
        a == If(HasAudio, <<Element("queue", "audio_tee_queue", i), asink>>)
    IN  Add(v \o a,
            (IF HasVideo THEN Joined(conn.video, v, None) ELSE {})
            \cup (IF HasAudio THEN Joined(conn.audio, a, None) ELSE {}),
            {p \in {Probe(vsink, i, "output"), Probe(asink, i, "output")} : p.el \in Names(v \o a)},
            stage)

BuildMosaicOutput ==
    /\ stage = "mosaic_output" /\ out < Len(cfg.output)
    /\ LET url    == cfg.output[out + 1]
           scheme == SchemeOf(url)
       IN
         IF IsDevice(url)
         THEN MosaicDeviceOutput(out, url) /\ UNCHANGED unexpected
         ELSE /\ AddOutput(out, url, MosaicVideoBranch(out, scheme), MosaicAudioBranch(out, scheme))
              /\ unexpected' = \/ unexpected
                               \/ build_output(url, 0) = NullElement
                               \/ scheme = "udp" /\ HasVideo /\ EncoderVideoCodec(cfg.venc) = "none"
    /\ out' = out + 1
    /\ UNCHANGED <<cfg, class, conn>>

MosaicDone ==
    /\ stage = "mosaic_output" /\ out = Len(cfg.output)
    /\ stage' = "built"
    /\ UNCHANGED <<cfg, class, elements, links, probes, conn, out, unexpected>>

-----------------------------------------------------------------------------
\* Anything the builder adds or links may end the process: GStreamer has no
\* plug-in of that name, or finds no caps for a link.
GstDeclines ==
    /\ stage \notin Ended \cup {"factory"}
    /\ stage = "mosaic" => Len(cfg.input) \in GridSizes
    /\ stage' = "declined"
    /\ UNCHANGED <<cfg, class, elements, links, probes, conn, out, unexpected>>

Build == \/ CreateStream
         \/ BuildInput \/ BuildRtspRelayInput \/ BuildRtspEncodingInput \/ BuildDeviceInput
         \/ BuildTestInput \/ BuildDisplayInput
         \/ BuildUdbConnections \/ BuildRelayUdbConnections \/ KeepConnections
         \/ BuildPostProc \/ BuildConverter \/ BuildRelayConverter
         \/ BuildOutput \/ BuildTestOutput \/ BuildRecorderOutput \/ BuildDone
         \/ InitMosaic \/ MosaicInput \/ MosaicMix \/ BuildMosaicOutput \/ MosaicDone
         \/ GstDeclines

-----------------------------------------------------------------------------
(***************************************************************************)
(* Properties of the building.                                             *)
(***************************************************************************)
Stages == Ended \cup {"factory", "input", "udb", "postproc", "converter", "output",
                      "mosaic", "mosaic_input", "mosaic_output"}

\* Every variable keeps its type; the ends of every link and every probe are in the pipeline.
BuildTypeOK ==
    /\ cfg \in ConfigType
    /\ stage \in Stages
    /\ out \in Nat /\ unexpected \in BOOLEAN
    /\ \A l \in links : l[1] \in Names(elements) /\ l[2] \in Names(elements)
    /\ \A p \in probes : p.el \in Names(elements)

\* The configurations that end the process whatever plug-ins there are: a url
\* without a source or a sink; an encoder or a parser that is not known, for a
\* medium that is encoded or parsed; udp whose audio is payed by make_mpeg2_pay,
\* under the name of the video payer; a recording of one medium only; in a mosaic,
\* udp behind the parser of h264, or with audio that is not aac, or with a video
\* codec that has no payer.
Udp == \E k \in DOMAIN cfg.output : SchemeOf(cfg.output[k]) = "udp"

BadInput(url) == make_src(url, 0) = NullElement
BadSink(url)  == ~ IsDevice(url) /\ build_output(url, 0) = NullElement

UnknownEncoder == \/ HasVideo /\ StreamClass # "only_audio" /\ cfg.venc \notin VideoEncoders
                  \/ HasAudio /\ StreamClass # "only_video" /\ cfg.aenc \notin AudioEncoders
UnknownParser  == \/ HasVideo /\ cfg.vparser \notin VideoParsers
                  \/ HasAudio /\ cfg.aparser \notin AudioParsers

Unbuildable ==
    LET cls == StreamClass
        mosaic == cls = "mosaic" /\ Len(cfg.input) \in GridSizes
        encodes == cls \in {"encode", "only_audio", "only_video", "rtsp_encode", "playlist_encode",
                            "device", "test_input", "display_input", "vod_encode"}
        mpegAudio == IF encodes THEN ~ IsAACEncoder(cfg.aenc)
                     ELSE cfg.aparser \notin {"aacparse", "ac3parse"}
    IN  \/ cls \in {"relay", "encode", "only_audio", "only_video", "vod_relay", "vod_encode",
                    "timeshift_recorder", "catchup", "test_life"} /\ BadInput(cfg.input[1])
        \/ mosaic /\ \E k \in DOMAIN cfg.input : BadInput(cfg.input[k])
        \/ encodes /\ UnknownEncoder
        \/ mosaic /\ UnknownEncoder /\ \E k \in DOMAIN cfg.output : ~ IsDevice(cfg.output[k])
        \/ cls \notin {"null", "mosaic"} /\ ~ encodes /\ UnknownParser
        \/ cls \notin {"null", "test_life", "timeshift_recorder", "catchup"} /\ (cls = "mosaic" => mosaic)
             /\ \E k \in DOMAIN cfg.output : BadSink(cfg.output[k])
        \/ cls \in {"timeshift_recorder", "catchup"} /\ cfg.have # {"video", "audio"}
        \/ cls \notin {"null", "mosaic", "test_life", "timeshift_recorder", "catchup"}
             /\ Udp /\ cfg.have = {"video", "audio"} /\ mpegAudio
        \/ mosaic /\ Udp /\ \/ HasVideo /\ EncoderVideoCodec(cfg.venc) \in {"h264", "mpeg", "none"}
                            \/ HasAudio /\ cfg.aenc = "lamemp3enc"

\* Property: the building of a pipeline ends the process on each of these
\* configurations, and where GStreamer declines nothing on no other one; it gives
\* no class, and no grid, exactly where the factory and the mosaic say so.
AbortsAreForeseen ==
    stage \in Ended =>
        /\ stage = "aborted" => Unbuildable
        /\ Unbuildable => stage \in {"aborted", "declined"}
        /\ (stage = "refused") <=> (StreamClass = "null")
        /\ (stage = "failed") <=> (StreamClass = "mosaic" /\ Len(cfg.input) \notin GridSizes)

\* The elements that data which reaches n passes on its way over the links lks.
Downstream(n, lks) ==
    LET R[k \in 0..Len(elements)] ==
            IF k = 0 THEN {n}
            ELSE LET near == R[k - 1] IN near \cup {l[2] : l \in {x \in lks : x[1] \in near}}
    IN  R[Len(elements)]

\* Where a medium enters: behind the decodebin of an input, or at a raw source.
Entries(medium) ==
    LET base == IF medium = "video" THEN "udb_conn_video" ELSE "udb_conn_audio"
        raw  == IF medium = "video" THEN {"videotestsrc", "ximagesrc"} ELSE {"audiotestsrc"}
    IN  {elements[k].name : k \in {j \in DOMAIN elements :
            \/ elements[j].name[1] = base
            \/ class \in {"test_input", "display_input"} /\ elements[j].plugin \in raw}}

\* Where output i leaves the pipeline.
Exits(i, medium) ==
    IF IsDevice(cfg.output[i + 1])
    THEN {<<IF medium = "video" THEN "video_sink" ELSE "audio_sink", i>>}
    ELSE {<<"sink", i>>}

\* From e a medium reaches every output, except the device outputs that only a
\* mosaic supports (BuildOutput logs and skips them).
ReachesOutputs(e, medium, lks) ==
    LET D == Downstream(e, lks) IN
    CASE Recorder -> <<"splitmuxsink", 0>> \in D
      [] class = "test_life" -> <<"sink", IF medium = "video" THEN 0 ELSE 1>> \in D
      [] OTHER -> \A i \in 0..(Len(cfg.output) - 1) :
                    \/ IsDevice(cfg.output[i + 1]) /\ class # "mosaic"
                    \/ Exits(i, medium) \cap D # {}

\* Property: in a pipeline that was built each configured medium enters, and from
\* every place where it enters it reaches every output.
EveryOutputIsFed ==
    stage = "built" => \A medium \in cfg.have :
        Entries(medium) # {} /\ \A e \in Entries(medium) : ReachesOutputs(e, medium, links)

\* Elements with more than one source pad, and with more than one sink pad.
ManySrc  == {"tee", "decodebin", "rtspsrc"}
ManySink == {"flvmux", "mpegtsmux", "rtpmux", "videomixer", "audiomixer", "splitmuxsink"}

PluginOf(n) == elements[CHOOSE k \in DOMAIN elements : elements[k].name = n].plugin

\* Property: no element is linked twice on a side that has one pad (the second
\* gst_element_link would fail), whatever the number of outputs.
OnePeerPerPad ==
    stage # "aborted" => \A l, k \in links : l # k =>
        /\ l[1] = k[1] => PluginOf(l[1]) \in ManySrc
        /\ l[2] = k[2] => PluginOf(l[2]) \in ManySink

\* Property: the probe on a sink reports under the index of its output, which is
\* how the counters of the statistics and of the watchdog are found.
ProbesReportTheirOutput ==
    stage # "aborted" => \A p \in probes : p.kind = "output" =>
        /\ class # "test_life" => p.el[2] = p.id /\ p.id < Len(cfg.output)
        /\ class = "test_life" => p.id = 0

\* Property: nothing leaves a pipeline uncounted.
SinksHaveProbes ==
    stage = "built" => \A k \in DOMAIN elements :
        elements[k].name[1] \in {"sink", "video_sink", "audio_sink"}
          => \E p \in probes : p.el = elements[k].name /\ p.kind = "output"
=============================================================================
