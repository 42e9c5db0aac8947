----------------------------- MODULE MCStreams -----------------------------
(* Streams for model checking: the bounds are in the configurations. *)
EXTENDS Streams
=============================================================================
