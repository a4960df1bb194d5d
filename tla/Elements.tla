------------------------------ MODULE Elements ------------------------------
(***************************************************************************)
(* The elements a stream's pipeline is made of (src/stream/elements): the  *)
(* factories that choose a GStreamer plug-in for a url scheme, a codec or  *)
(* a parser, and the names under which the elements enter the pipeline.    *)
(*                                                                         *)
(* An element is a record of its name (the pattern of its name and the     *)
(* number put into it) and its plug-in.  What the setters write into the     *)
(* plug-in (addresses, sizes, bit rates) decides no link and is left out.  *)
(* The null pointer a factory returns after NOTREACHED is NullElement: the *)
(* builder dereferences it when it adds it.                                *)
(***************************************************************************)
EXTENDS Integers, Sequences

Element(plugin, pattern, id) == [name |-> <<pattern, id>>, plugin |-> plugin]
NullElement == [name |-> <<"null", 0>>, plugin |-> "null"]

-----------------------------------------------------------------------------
(***************************************************************************)
(* Sources, muxers and sinks, chosen by the scheme of a url.  A url is its *)
(* scheme, or one of three whose scheme is known but whose rest is not     *)
(* usable: a udp or tcp host that is no host and port, an http path        *)
(* without the name of a playlist.                                         *)
(***************************************************************************)
SchemeOf(url) == CASE url = "bad_udp"  -> "udp"
                   [] url = "bad_tcp"  -> "tcp"
                   [] url = "bad_http" -> "http"
                   [] OTHER            -> url

make_file_src(id)       == Element("filesrc", "src", id)
make_http_src(id)       == Element("souphttpsrc", "src", id)
make_udp_src(id)        == Element("udpsrc", "src", id)
make_rtmp_src(id)       == Element("rtmpsrc", "src", id)
make_tcp_server_src(id) == Element("tcpserversrc", "src", id)
make_srt_src(id)        == Element("srtsrc", "src", id)
make_rtsp_src(id)       == Element("rtspsrc", "src", id)
make_app_src(id)        == Element("appsrc", "src", id)
make_multifile_src(id)  == Element("multifilesrc", "src", id)
make_v4l2_src(id)       == Element("v4l2src", "src", id)
make_alsa_src(id)       == Element("alsasrc", "src", id)

\* No source for an unknown scheme, nor for a udp or tcp host that does not parse.
make_src(url, id) ==
    CASE url = "file"              -> make_file_src(id)
      [] url \in {"http", "https"} -> make_http_src(id)
      [] url = "udp"               -> make_udp_src(id)
      [] url = "rtmp"              -> make_rtmp_src(id)
      [] url = "tcp"               -> make_tcp_server_src(id)
      [] url = "srt"               -> make_srt_src(id)
      [] OTHER                     -> NullElement

make_muxer(scheme, id) ==
    CASE scheme = "rtmp" -> Element("flvmux", "muxer", id)
      [] scheme = "udp"  -> Element("rtpmux", "muxer", id)
      [] scheme \in {"tcp", "http", "srt"} -> Element("mpegtsmux", "muxer", id)
      [] OTHER -> NullElement

make_udp_sink(id)        == Element("udpsink", "sink", id)
make_tcp_server_sink(id) == Element("tcpserversink", "sink", id)
make_rtmp_sink(id)       == Element("rtmpsink", "sink", id)
make_http_sink(id)       == Element("hlssink", "sink", id)
make_srt_sink(id)        == Element("srtsink", "sink", id)

\* No sink for an unknown scheme, nor for a url that is not usable.
build_output(url, id) ==
    CASE url = "udp"  -> make_udp_sink(id)
      [] url = "tcp"  -> make_tcp_server_sink(id)
      [] url = "rtmp" -> make_rtmp_sink(id)
      [] url = "http" -> make_http_sink(id)
      [] url = "srt"  -> make_srt_sink(id)
      [] OTHER        -> NullElement

make_test_sink(id) == Element("testsink", "sink", id)

\* The sinks of a device output: a window of the screen or a decklink card.
make_video_device_sink(device, id) ==
    Element(IF device = "screen" THEN "autovideosink" ELSE "decklinkvideosink", "video_sink", id)

make_audio_device_sink(device, id) ==
    Element(IF device = "screen" THEN "autoaudiosink" ELSE "decklinkaudiosink", "audio_sink", id)

-----------------------------------------------------------------------------
(***************************************************************************)
(* Encoders.                                                               *)
(***************************************************************************)
VideoEncoders == {"x264enc", "x265enc", "mpeg2enc", "vaapih264enc", "vaapimpeg2enc",
                  "mfxh264enc", "openh264enc", "eavcenc", "nvh264enc", "nvh265enc",
                  "msdkh264enc"}

make_video_encoder(codec, id) ==
    IF codec \in VideoEncoders THEN Element(codec, "video_codec", id) ELSE NullElement

AudioEncoders == {"faac", "voaacenc", "lamemp3enc"}

make_audio_encoder(codec, id) ==
    IF codec \in AudioEncoders THEN Element(codec, "audio_codec", id) ELSE NullElement

make_aac_encoder(id) == Element("faac", "audio_codec", id)

IsH264Encoder(codec) ==
    codec \in {"x264enc", "vaapih264enc", "openh264enc", "nvh264enc", "mfxh264enc"}

IsAACEncoder(codec) == codec \in {"faac", "voaacenc"}

\* A caps filter behind the encoder for each of the two arguments of x264enc
\* that are not properties; the map of the arguments is ordered by its keys.
setup_encoder_str_params(codec, args, id) ==
    IF codec # "x264enc" THEN <<>>
    ELSE (IF "profile" \in args
          THEN <<Element("capsfilter", "x264enc_capsfilter_profile", id)>> ELSE <<>>)
      \o (IF "stream-format" \in args
          THEN <<Element("capsfilter", "x264enc_capsfilter_stream_format", id)>> ELSE <<>>)

build_video_encoder(codec, args, id) ==
    <<make_video_encoder(codec, id)>> \o setup_encoder_str_params(codec, args, id)

-----------------------------------------------------------------------------
(***************************************************************************)
(* Converters, parsers and payloaders.                                     *)
(***************************************************************************)
build_video_convert(deinterlace, id) ==
    <<Element("videoconvert", "video_convert", id)>>
    \o (IF deinterlace THEN <<Element("avdeinterlace", "deinterlace", id)>> ELSE <<>>)

build_video_scale(id) == <<Element("videoscale", "videoscale", id),
                           Element("capsfilter", "videoscale_capsfilter", id)>>

build_video_framerate(id) == <<Element("videorate", "videorate", id),
                               Element("capsfilter", "videorate_capsfilter", id)>>

build_audio_converters(volume, channels, id) ==
    <<Element("audioconvert", "audio_convert", id)>>
    \o (IF channels THEN <<Element("capsfilter", "audio_convert_capsfilter", id)>> ELSE <<>>)
    \o (IF volume THEN <<Element("volume", "volume", id)>> ELSE <<>>)

VideoParsers == {"h264parse", "h265parse", "mpegvideoparse", "tsparse"}
AudioParsers == {"aacparse", "ac3parse", "mpegaudioparse", "rawaudioparse"}

make_h264_parser(id) == Element("h264parse", "video_parser", id)
make_aac_parser(id)  == Element("aacparse", "audio_parser", id)

make_video_parser(parser, pattern, id) ==
    IF parser \in VideoParsers THEN Element(parser, pattern, id) ELSE NullElement

make_audio_parser(parser, pattern, id) ==
    IF parser \in AudioParsers THEN Element(parser, pattern, id) ELSE NullElement

\* make_mpeg2_pay belongs to the video payloaders, and names its element so.
make_video_pay(vcodec, id) ==
    Element([h264 |-> "rtph264pay", h265 |-> "rtph265pay", mpeg |-> "rtpmp2tpay"][vcodec],
            "video_pay", id)

make_audio_pay(acodec, id) ==
    IF acodec = "mpeg" THEN Element("rtpmp2tpay", "video_pay", id)
    ELSE Element([aac |-> "rtpmp4apay", ac3 |-> "rtpac3pay"][acodec], "audio_pay", id)

make_aac_pay(id) == Element("rtpmp4apay", "audio_pay", id)

-----------------------------------------------------------------------------
(***************************************************************************)
(* What is certain about the plug-ins: the neighbours gst_element_link     *)
(* refuses because the templates of their two pads have no caps in common. *)
(* Templates that overlap, caps that a queue or a tee passes on from       *)
(* further away and plug-ins that are not installed are up to GStreamer    *)
(* (Pipeline!GstDeclines).                                                 *)
(***************************************************************************)
Offers == [rtph264pay |-> "rtp", mpeg2enc |-> "mpegv", mpegaudioparse |-> "mp3"]
Takes  == [h264parse |-> "h264", rtpmp2tpay |-> "ts", rtpmp4apay |-> "aac"]

CanLink(src, dest) ==
    (src \in DOMAIN Offers /\ dest \in DOMAIN Takes) => Offers[src] = Takes[dest]
=============================================================================
