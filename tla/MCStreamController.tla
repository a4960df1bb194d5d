-------------------------- MODULE MCStreamController --------------------------
(* Small instances of StreamController for TLC. *)
EXTENDS StreamController

AllStreamTypes == {"LIVE", "VOD", "TIMESHIFT_PLAYER"}

\* A run that fails at once and one longer than LongWork (20 s for a
\* frozen pause of two seconds).
SomeRunTimes == {0, 20001}
=============================================================================
