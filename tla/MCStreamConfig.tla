--------------------------- MODULE MCStreamConfig ----------------------------
(* The requests of StreamConfig for TLC: every type of stream, with every    *)
(* option left out, of the wrong type, empty, negative, too large or right.  *)
EXTENDS StreamConfig

Url(name) == Hash([uri |-> Str(name), streamlink |-> Bool(FALSE)])
LinkUrl(name) == Hash([uri |-> Str(name), streamlink |-> Bool(TRUE)])
WwwUrl(name) == Hash([uri |-> Str(name), http_root |-> Str("/www")])
Broken == Hash([id |-> Num(1)])

Base(t) ==
    [id |-> Str("s1"), type |-> Num(TypeNumber(t)), feedback_directory |-> Str("/feedback"),
     timeshift_dir |-> Str("/timeshift"), input |-> List(<<LinkUrl("a"), Broken>>),
     output |-> List(<<WwwUrl("o"), Url("p")>>)]

Types == {TypeNames[i] : i \in DOMAIN TypeNames}
Probes == {Null, Bool(TRUE), Bool(FALSE), Num(-1), Num(0), Num(4), Num(12), Num(1000), Num(2 * IntMax),
           Tenths(5), Tenths(101), Str(""), Str("640x480"), Str("4:3"), Str("x264enc"),
           Str("h264parse"), Str("/www"), List(<<>>), List(<<Broken>>)}

General == DOMAIN Base("RELAY") \cup DOMAIN AudioVideoDefaults \cup DOMAIN RelayDefaults
             \cup DOMAIN VodDefaults \cup {"restart_attempts", "timeshift_chunk_duration",
             "timeshift_delay", "timeshift_chunk_life_time", "auto_exit_time", "delay_time",
             "log_level", "unheard_of", "stream_link_path"}

Logos == {Hash([path |-> Str("/l.png")]),
          Hash([path |-> Str("/l.png"), position |-> Str("10,10"), size |-> Str("640x480"), alpha |-> Tenths(5)]),
          Hash([path |-> Num(1), position |-> Str("ten"), size |-> Str("big"), alpha |-> Str("half")])}

Without(c, k) == [x \in DOMAIN c \ {k} |-> c[x]]

McRequests ==
       {Hash(Base(t)) : t \in Types}
  \cup {Hash(Without(Base(t), k)) : t \in Types, k \in DOMAIN Base("RELAY")}
  \cup {Hash(Insert(Base(t), k, v)) : t \in Types \ {"EVENT", "COD_ENCODE", "TEST_LIFE"}, k \in General, v \in Probes}
  \cup {Hash(Insert(Base("ENCODE"), k, v)) :
            k \in EncoderOptions \cup DOMAIN EncodeDefaults, v \in Probes}
  \cup {Hash(Insert(Base(t), k, l)) : t \in {"ENCODE", "VOD_ENCODE"}, k \in {"logo", "rsvg_logo"}, l \in Logos}
  \cup {Hash(Without(Insert(Base(t), "input", List(<<LinkUrl("a"), LinkUrl("b")>>)), k)) :
            t \in Types, k \in {"output", "unheard_of"}}
  \cup {Num(1), List(<<Null>>)}
=============================================================================
