-------------------------- MODULE MCConversation --------------------------
(***************************************************************************)
(* Conversation for TLC: the constants are given values in the             *)
(* configuration.  A conversation ends when its turns are spent, so a      *)
(* state without a successor is no error.                                  *)
(***************************************************************************)
EXTENDS Conversation
=============================================================================
