----------------------------- MODULE MCRecordings -----------------------------
(* Small instances of Timeshift and of Catchup for TLC. The chunks and the   *)
(* playlist are independent models: a behaviour is one of the first or one   *)
(* of the second.                                                            *)
EXTENDS Timeshift, Catchup

VARIABLE part

\* Every other product is too small by one.
McDeviation == [h \in 0..UintMod |-> -(h % 2)]

InitRecordings ==
    /\ part \in {"chunks", "playlist"}
    /\ Init
    /\ InitCatchup
    /\ part = "playlist" => kind = "catchup"

NextRecordings ==
    /\ UNCHANGED part
    /\ \/ part = "chunks" /\ Next /\ UNCHANGED catchup_vars
       \/ part = "playlist" /\ NextCatchup /\ UNCHANGED vars

SpecRecordings == InitRecordings /\ [][NextRecordings]_<<part, vars, catchup_vars>>
===============================================================================
