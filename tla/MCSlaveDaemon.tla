---------------------------- MODULE MCSlaveDaemon ----------------------------
(* A small instance of SlaveDaemon for TLC. *)
EXTENDS SlaveDaemon

CONSTANTS s1, s2, c1
==============================================================================
