------------------------------ MODULE MCFleet ------------------------------
(* TLC instance of Fleet: one name that the environment configures as well *)
(* as the file, and one that it does not.                                  *)
EXTENDS Fleet

CONSTANTS openai, local
=============================================================================
