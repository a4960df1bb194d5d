---------------------------- MODULE StreamRegistry ----------------------------
(***************************************************************************)
(* What the daemon promises about streams: while it serves, a stream has   *)
(* at most one instance (a process); an instance is never revived; after   *)
(* the daemon stopped serving no instance starts and all of them finish.   *)
(***************************************************************************)
EXTENDS Naturals

CONSTANT Streams

VARIABLES
    live,   \* the running instances, <<stream, instance number>>
    last,   \* the number of the last instance
    serving

vars == <<live, last, serving>>

Init == live = {} /\ last = 0 /\ serving = TRUE

\* A stream without an instance gets a new one.
Start(s) ==
    /\ serving
    /\ \A i \in live : i[1] # s
    /\ last' = last + 1
    /\ live' = live \cup {<<s, last + 1>>}
    /\ serving' = serving

Finish(i) ==
    /\ i \in live
    /\ live' = live \ {i}
    /\ UNCHANGED <<last, serving>>

Shutdown ==
    /\ serving
    /\ serving' = FALSE
    /\ UNCHANGED <<live, last>>

Next ==
    \/ \E s \in Streams : Start(s)
    \/ \E i \in live : Finish(i)
    \/ Shutdown

\* After the shutdown every instance finishes.
Drain == ~serving /\ \E i \in live : Finish(i)

SafeSpec == Init /\ [][Next]_vars
Spec == SafeSpec /\ WF_vars(Drain)
===============================================================================
