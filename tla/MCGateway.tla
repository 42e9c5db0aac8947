----------------------------- MODULE MCGateway -----------------------------
(***************************************************************************)
(* TLC instance of Gateway: the chains a router with two providers can     *)
(* decide on, the empty one standing for "no route".                       *)
(***************************************************************************)
EXTENDS Gateway

CONSTANTS p1, p2

MCChains == {<<>>, <<p1>>, <<p1, p2>>}
=============================================================================
