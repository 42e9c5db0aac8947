------------------------------ MODULE MCUsage ------------------------------
(***************************************************************************)
(* TLC instance of Usage, with the chains of MCGateway.  The adapter of p1 *)
(* reports observations and that of p2 does not.                           *)
(***************************************************************************)
EXTENDS Usage

CONSTANTS p1, p2

MCChains == {<<>>, <<p1>>, <<p1, p2>>}
=============================================================================
