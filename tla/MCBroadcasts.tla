----------------------------- MODULE MCBroadcasts -----------------------------
(* Small instances of Reports and of NodeStats for TLC. The statistics of    *)
(* the streams and those of the node are independent models: a behaviour is  *)
(* one of the first or one of the second.                                    *)
EXTENDS Reports, NodeStats

VARIABLE part

Users == {[daemon |-> 1, http |-> 2, vods |-> 3, cods |-> 4]}

InitBroadcasts ==
    /\ part \in {"streams", "node"}
    /\ InitReports
    /\ InitNode
    /\ part = "streams" => bytes = [n \in Interfaces |-> 1]

NextBroadcasts ==
    /\ UNCHANGED part
    /\ \/ part = "streams" /\ NextReports /\ UNCHANGED node_vars
       \/ part = "node" /\ NextNode /\ UNCHANGED reports_vars

SpecBroadcasts == InitBroadcasts /\ [][NextBroadcasts]_<<part, reports_vars, node_vars>>
===============================================================================
