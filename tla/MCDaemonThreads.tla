--------------------------- MODULE MCDaemonThreads ---------------------------
(* Small instances of DaemonThreads for TLC. *)
EXTENDS DaemonThreads, TLC

CONSTANTS d1, d2

Three == ("main" :> 1) @@ ("http" :> 2) @@ ("vods" :> 3)

\* A file with all fields, one without a license, one with a port that cannot
\* be read, one with the same port twice.
Good      == [license |-> 0, main |-> 1, http |-> 2, log |-> 0]
NoLicense == [main |-> 1]
BadPort   == [license |-> 0, main |-> 0]
SamePort  == [license |-> 0, main |-> 2]
AllFiles  == {Good, NoLicense, BadPort, SamePort}
================================================================================
