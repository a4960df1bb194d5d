---------------------------- MODULE StreamOptions ----------------------------
(***************************************************************************)
(* The options of a stream: the values a request carries them in, the      *)
(* validators of server/options/options.cpp, and what the readers of       *)
(* stream/configs_factory.cpp take out of a configuration.                 *)
(*                                                                         *)
(* A JSON value and a common::Value are records with one field, the kind of *)
(* the value; a configuration (HashValue) is a function from the names of  *)
(* options to values.                                                      *)
(***************************************************************************)
EXTENDS Integers, Sequences

CONSTANTS
    IntMax,           \* the largest int
    IntReadsAsDouble  \* does GetAsDouble take an integer (common::Value)

ASSUME IntMaxAssumption == IntMax \in Nat /\ IntMax >= 12 * 24 * 3600
ASSUME DoubleAssumption == IntReadsAsDouble \in BOOLEAN

Null == [null |-> 0]
Bool(b) == [bool |-> b]
Num(i) == [int |-> i]
Tenths(i) == [double |-> i]     \* a double, in tenths
Str(s) == [string |-> s]
List(s) == [list |-> s]
Hash(f) == [hash |-> f]
Kind(v) == CHOOSE k \in DOMAIN v : TRUE
Val(v) == v[Kind(v)]

\* common::HashValue::Insert, and the fields of two tables.
Insert(c, k, v) == [x \in DOMAIN c \cup {k} |-> IF x = k THEN v ELSE c[x]]
Joined(f, g) == [x \in DOMAIN f \cup DOMAIN g |-> IF x \in DOMAIN f THEN f[x] ELSE g[x]]

IsDouble(v) == Kind(v) = "double" \/ (IntReadsAsDouble /\ Kind(v) = "int")
ToTenths(v) == IF Kind(v) = "int" THEN 10 * Val(v) ELSE Val(v)

\* json_object_get_int gives the nearest int.
Clamp(i) == IF i > IntMax THEN IntMax ELSE IF i < -IntMax - 1 THEN -IntMax - 1 ELSE i

\* A configuration has four levels: its options, the list of urls, a url and
\* the fields of the url. Level makes one, Inner the values one level down.
Level(v, Inner(_)) ==
    CASE Kind(v) = "int"  -> Num(Clamp(Val(v)))
      [] Kind(v) = "list" -> List([i \in DOMAIN Val(v) |-> Inner(Val(v)[i])])
      [] Kind(v) = "hash" -> Hash([k \in DOMAIN Val(v) |-> Inner(Val(v)[k])])
      [] OTHER            -> v
FieldFromJson(v)     == Level(v, LAMBDA d : d)
UrlFromJson(v)       == Level(v, FieldFromJson)
OptionFromJson(v)    == Level(v, UrlFromJson)
MakeValueFromJson(j) == Level(j, OptionFromJson)

-----------------------------------------------------------------------------
\* The stream types, numbered in the order of fastotv::StreamType.
TypeNames == <<"PROXY", "VOD_PROXY", "RELAY", "ENCODE", "TIMESHIFT_PLAYER", "TIMESHIFT_RECORDER",
               "CATCHUP", "TEST_LIFE", "VOD_RELAY", "VOD_ENCODE", "COD_RELAY", "COD_ENCODE",
               "EVENT", "SCREEN">>
TypeNumber(t) == CHOOSE i \in 0..(Len(TypeNames) - 1) : TypeNames[i + 1] = t

\* What the parsers of the common library and of the file system accept.
ValidPaths == {"/feedback", "/timeshift", "/www"}
Sizes == {"640x480"}
Ratios == {"4:3"}
Points == {"10,10"}

-----------------------------------------------------------------------------
(* The validators.  Validity is a set: the outcomes the build can produce. *)
Verdict(ok) == {IF ok THEN "VALID" ELSE "INVALID"}
IsInt(v, S) == Kind(v) = "int" /\ Val(v) \in S
IsStr(v, S) == Kind(v) = "string" /\ Val(v) \in S

dont_validate(v) == {"VALID"}
validate_double_range(v, lo, hi) == Verdict(IsDouble(v) /\ ToTenths(v) >= lo /\ ToTenths(v) <= hi)
validate_range(v, lo, hi) == Verdict(Kind(v) = "int" /\ Val(v) >= lo /\ Val(v) <= hi)
validate_is_positive(v) == Verdict(Kind(v) = "int" /\ Val(v) >= 0)
validate_id(v) == Verdict(Kind(v) = "string" /\ Val(v) # "")
validate_input(v) == Verdict(Kind(v) = "list")
validate_output(v) == Verdict(Kind(v) = "list")
validate_restart_attempts(v) == validate_range(v, 1, IntMax)
validate_feedback_dir(v) == Verdict(IsStr(v, ValidPaths))
validate_timeshift_dir(v) ==
    {IF Kind(v) # "string" THEN "INVALID" ELSE IF Val(v) \in ValidPaths THEN "VALID" ELSE "FATAL"}
validate_timeshift_chunk_life_time(v) == validate_range(v, 0, 12 * 24 * 3600)
validate_timeshift_delay(v) == validate_range(v, 0, 12 * 24 * 3600)

kSupportedVideoParsers == {"tsparse", "h264parse", "h265parse"}
kSupportedAudioParsers == {"mpegaudioparse", "aacparse", "ac3parse", "rawaudioparse"}
kSupportedVideoEncoders == {"eavcenc", "openh264enc", "x264enc", "nvh264enc", "nvh265enc",
    "vaapih264enc", "vaapimpeg2enc", "mfxh264enc", "x265enc", "msdkh264enc"}
kSupportedAudioEncoders == {"lamemp3enc", "faac", "voaacenc"}

\* The parsers and the codecs are looked up in these lists.
SupportedNames ==
    [video_parser |-> kSupportedVideoParsers, audio_parser |-> kSupportedAudioParsers,
     video_codec |-> kSupportedVideoEncoders, audio_codec |-> kSupportedAudioEncoders]
validate_supported(v, k) == Verdict(IsStr(v, SupportedNames[k]))

\* The only validator that passes is_fatal.
validate_type(v) ==
    {IF validate_range(v, 0, Len(TypeNames) - 1) = {"VALID"} THEN "VALID" ELSE "FATAL"}
validate_log_level(v) == validate_range(v, 0, 7)
validate_volume(v) == validate_double_range(v, 0, 100)
Durations == {"delay_time", "timeshift_chunk_duration", "auto_exit_time"}
validate_size(v) == Verdict(IsStr(v, Sizes))
validate_cleanupts(v) == Verdict(Kind(v) = "bool")
validate_framerate(v) == validate_is_positive(v)
validate_aspect_ratio(v) == Verdict(IsStr(v, Ratios))
validate_decklink_video_mode(v) == validate_range(v, 0, 30)
Rates == {"video_bitrate", "audio_bitrate", "audio_channels"}
validate_audio_select(v) == Verdict(Kind(v) = "int")
dummy_validator_integer(v) == validate_range(v, -IntMax - 1, IntMax)
dummy_validator_string(v) == Verdict(Kind(v) = "string" /\ Val(v) # "")

\* The options of the encoders with a range: mfxh264enc, nvh264enc, nvh265enc;
\* x264enc; vaapih264enc.
GpuEncoderRanges == {
    <<"mfxh264enc.preset", 0, 7>>, <<"mfxh264enc.gop-size", 0, 65535>>,
    <<"nvh264enc.preset", 0, IntMax>>, <<"nvh265enc.preset", 0, IntMax>>}
X264Ranges == {
    <<"x264enc.speed-preset", 0, 10>>, <<"x264enc.threads", 0, IntMax>>,
    <<"x264enc.key-int-max", 0, IntMax>>, <<"x264enc.vbv-buf-capacity", 0, 10000>>,
    <<"x264enc.rc-lookahead", 0, 250>>, <<"x264enc.qp-max", 0, 51>>, <<"x264enc.me", 0, 4>>}
VaapiRanges == {
    <<"vaapih264enc.keyframe-period", 0, 300>>, <<"vaapih264enc.max-bframes", 0, 10>>,
    <<"vaapih264enc.num-slices", 1, 200>>, <<"vaapih264enc.init-qp", 1, 51>>,
    <<"vaapih264enc.min-qp", 1, 51>>, <<"vaapih264enc.cpb-length", 0, 10000>>}
EncoderRanges == GpuEncoderRanges \cup X264Ranges \cup VaapiRanges
RangedArgs == {r[1] : r \in EncoderRanges}
RangeOf(k) == CHOOSE r \in EncoderRanges : r[1] = k

validate_x264_tune(v) == Verdict(IsInt(v, {0, 1, 2, 4}))

\* x264enc.pass, vaapih264enc.tune and vaapih264enc.rate-control: the test of
\* GetAsInteger is inverted.  An integer is INVALID, and for anything else the
\* comparison reads an int nobody wrote.
Inverted == {"x264enc.pass", "vaapih264enc.tune", "vaapih264enc.rate-control"}
validate_inverted(v) == IF Kind(v) = "int" THEN {"INVALID"} ELSE {"VALID", "INVALID"}

AnyInteger == {"openh264enc.complexity", "openh264enc.rate-control", "openh264enc.gop-size",
    "eavcenc.preset", "eavcenc.profile", "eavcenc.performance", "eavcenc.bitrate-mode",
    "eavcenc.bitrate-pass", "eavcenc.bitrate-max", "eavcenc.vbv-size", "eavcenc.picture-mode",
    "eavcenc.entropy-mode", "eavcenc.gop-max-bcount", "eavcenc.gop-max-length",
    "eavcenc.gop-min-length", "eavcenc.level", "eavcenc.deblock-mode", "eavcenc.deblock-alpha",
    "eavcenc.deblock-beta", "eavcenc.initial-param", "eavcenc.field-order"}
AnyString == {"x264enc.profile", "x264enc.stream-format"}
NotValidatedArgs == {"x264enc.option-string", "x264enc.interlaced", "x264enc.dct8x8",
    "x264enc.b-adapt", "x264enc.byte-stream", "x264enc.cabac", "x264enc.sliced-threads",
    "x264enc.quantizer", "vaapih264enc.cabac", "vaapih264enc.dct8x8", "openh264enc.multi-thread",
    "eavcenc.gop-adaptive"}
NotValidated == NotValidatedArgs \cup {"stream_link_path", "mainprofile", "mainprofile_external",
    "have_video", "have_audio", "have_subtitle", "deinterlace", "relay_audio", "relay_video",
    "loop", "avformat", "logo", "rsvg_logo"}

\* The options of the encoders ValidateConfig knows.
EncoderOptions == RangedArgs \cup Inverted \cup {"x264enc.tune"} \cup AnyInteger
                     \cup AnyString \cup NotValidatedArgs

\* FindOption and the validator it finds: UNKNOWN for a key without an option.
Validity(k, v) ==
    CASE k \in NotValidated -> dont_validate(v)
      [] k = "id" -> validate_id(v)
      [] k = "type" -> validate_type(v)
      [] k = "feedback_directory" -> validate_feedback_dir(v)
      [] k = "log_level" -> validate_log_level(v)
      [] k = "input" -> validate_input(v)
      [] k = "output" -> validate_output(v)
      [] k = "restart_attempts" -> validate_restart_attempts(v)
      [] k = "timeshift_dir" -> validate_timeshift_dir(v)
      [] k = "timeshift_chunk_life_time" -> validate_timeshift_chunk_life_time(v)
      [] k = "timeshift_delay" -> validate_timeshift_delay(v)
      [] k = "volume" -> validate_volume(v)
      [] k \in Durations \cup Rates -> validate_is_positive(v)
      [] k \in DOMAIN SupportedNames -> validate_supported(v, k)
      [] k = "size" -> validate_size(v)
      [] k = "cleanup_ts" -> validate_cleanupts(v)
      [] k = "framerate" -> validate_framerate(v)
      [] k = "aspect_ratio" -> validate_aspect_ratio(v)
      [] k = "audio_select" -> validate_audio_select(v)
      [] k = "decklink_video_mode" -> validate_decklink_video_mode(v)
      [] k \in RangedArgs -> validate_range(v, RangeOf(k)[2], RangeOf(k)[3])
      [] k = "x264enc.tune" -> validate_x264_tune(v)
      [] k \in Inverted -> validate_inverted(v)
      [] k \in AnyInteger -> dummy_validator_integer(v)
      [] k \in AnyString -> dummy_validator_string(v)
      [] OTHER -> {"UNKNOWN"}

-----------------------------------------------------------------------------
(* The readers of configs_factory.cpp. *)

\* common::HashValue::Find and GetAs...: is option k there with this kind.
Reads(c, k, kind) == k \in DOMAIN c /\ IF kind = "double" THEN IsDouble(c[k]) ELSE Kind(c[k]) = kind

\* The fields of AudioVideoConfig with their defaults.
AudioVideoDefaults ==
    [have_video |-> Bool(TRUE), have_audio |-> Bool(TRUE), have_subtitle |-> Bool(FALSE),
     audio_select |-> Null, avformat |-> Bool(FALSE), loop |-> Bool(FALSE)]
\* RelayConfig adds the parsers.
RelayDefaults == [video_parser |-> Str("h264parse"), audio_parser |-> Str("aacparse")]
\* EncodeConfig: Null is an option nobody has set.
EncodeDefaults ==
    [relay_audio |-> Bool(FALSE), relay_video |-> Bool(FALSE), deinterlace |-> Null,
     framerate |-> Null, volume |-> Null, video_codec |-> Str("x264enc"), audio_codec |-> Str("faac"),
     audio_channels |-> Null, size |-> Null, video_bitrate |-> Null, audio_bitrate |-> Null,
     logo |-> Null, rsvg_logo |-> Null, aspect_ratio |-> Null, decklink_video_mode |-> Num(1)]
\* VodRelayConfig and VodEncodeConfig; TimeshiftConfig.
VodDefaults == [cleanup_ts |-> Bool(FALSE)]
TimeshiftDefaults == [timeshift_chunk_duration |-> Num(120)]

\* The type a field has to have to be read.
KindOf(k) ==
    CASE k \in {"have_video", "have_audio", "have_subtitle", "avformat", "loop", "relay_audio",
                "relay_video", "deinterlace", "cleanup_ts"} -> "bool"
      [] k \in {"video_parser", "audio_parser", "video_codec", "audio_codec", "size", "aspect_ratio"} -> "string"
      [] k = "volume" -> "double"
      [] k \in {"logo", "rsvg_logo"} -> "hash"
      [] OTHER -> "int"

\* size and aspect_ratio are parsed, and kept only if that succeeds.
Parses(k, v) == CASE k = "size" -> Val(v) \in Sizes [] k = "aspect_ratio" -> Val(v) \in Ratios [] OTHER -> TRUE

\* Logo::MakeLogo and RSVGLogo::MakeLogo: each field that is there and can be
\* parsed, else the field of an empty logo.
LogoField(h, k, S, default) == IF Reads(h, k, "string") /\ (S = {} \/ Val(h[k]) \in S) THEN h[k] ELSE default
MakeRSVGLogo(h) ==
    [path |-> LogoField(h, "path", {}, Str("")), position |-> LogoField(h, "position", Points, Null),
     size |-> LogoField(h, "size", Sizes, Null)]
MakeLogo(h) ==
    [path |-> LogoField(h, "path", {}, Str("")), position |-> LogoField(h, "position", Points, Null),
     size |-> LogoField(h, "size", Sizes, Null),
     alpha |-> IF Reads(h, "alpha", "double") THEN h.alpha ELSE Tenths(0)]

\* A field of the configuration a stream is made of.
ReadField(c, k, default) ==
    IF ~Reads(c, k, KindOf(k)) \/ ~Parses(k, c[k]) THEN default
    ELSE CASE k = "logo" -> Hash(MakeLogo(Val(c[k])))
           [] k = "rsvg_logo" -> Hash(MakeRSVGLogo(Val(c[k])))
           [] OTHER -> c[k]

\* The fields of a Config: each is set when the option can be read.
ReadFields(c, defaults) == [k \in DOMAIN defaults |-> ReadField(c, k, defaults[k])]

\* InitVideoEncodersWithArgs: CheckAndSetValue takes integers and strings, the
\* three flags are arguments when they are true.
IntArgs == {"nvh264enc.preset", "nvh265enc.preset", "mfxh264enc.preset", "mfxh264enc.gop-size",
    "x264enc.speed-preset", "x264enc.threads", "x264enc.tune", "x264enc.key-int-max",
    "x264enc.vbv-buf-capacity", "x264enc.rc-lookahead", "x264enc.qp-max", "x264enc.pass",
    "x264enc.me", "x264enc.sliced-threads", "x264enc.b-adapt", "x264enc.byte-stream",
    "x264enc.quantizer", "vaapih264enc.keyframe-period", "vaapih264enc.tune",
    "vaapih264enc.max-bframes", "vaapih264enc.num-slices", "vaapih264enc.init-qp",
    "vaapih264enc.min-qp", "vaapih264enc.rate-control", "vaapih264enc.cabac",
    "vaapih264enc.dct8x8", "vaapih264enc.cpb-length", "openh264enc.multi-thread",
    "openh264enc.complexity", "openh264enc.rate-control", "openh264enc.gop-size",
    "eavcenc.preset", "eavcenc.profile", "eavcenc.performance", "eavcenc.bitrate-mode",
    "eavcenc.bitrate-pass", "eavcenc.bitrate-max", "eavcenc.vbv-size", "eavcenc.picture-mode",
    "eavcenc.entropy-mode", "eavcenc.gop-max-bcount", "eavcenc.gop-max-length",
    "eavcenc.gop-min-length", "eavcenc.level", "eavcenc.deblock-mode", "eavcenc.deblock-alpha",
    "eavcenc.deblock-beta", "eavcenc.initial-param", "eavcenc.field-order"}
StrArgs == {"x264enc.profile", "x264enc.stream-format", "x264enc.option-string"}
FlagArgs == {"x264enc.interlaced", "x264enc.dct8x8", "eavcenc.gop-adaptive"}

CheckAndSetValue(c, S, kind) == {k \in S : Reads(c, k, kind)}

\* A plausible bug: the table of integers lost its last x264 entry.
Mutant_ArgForgotten(c) ==
    Joined([k \in CheckAndSetValue(c, IntArgs \ {"x264enc.qp-max"}, "int") \cup CheckAndSetValue(c, StrArgs, "string") |-> c[k]],
           [k \in {f \in FlagArgs : Reads(c, f, "bool") /\ Val(c[f])} |-> Num(1)])

InitVideoEncodersWithArgs(c) ==
    Joined([k \in CheckAndSetValue(c, IntArgs, "int") \cup CheckAndSetValue(c, StrArgs, "string") |-> c[k]],
           [k \in {f \in FlagArgs : Reads(c, f, "bool") /\ Val(c[f])} |-> Num(1)])
=============================================================================
