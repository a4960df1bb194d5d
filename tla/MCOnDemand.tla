------------------------------ MODULE MCOnDemand ------------------------------
(* A small instance of OnDemand for TLC. *)
EXTENDS OnDemand, TLC

CONSTANTS vod, cod1, other, bad, r1, r2

SomeRoots ==
    (vod :> <<r1>>) @@ (cod1 :> <<r1, r2>>) @@ (other :> <<r1>>) @@ (bad :> <<r2>>)

SomeLists == {<<>>, <<other, bad, vod, cod1>>}
===============================================================================
