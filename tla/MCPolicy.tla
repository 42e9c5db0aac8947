----------------------------- MODULE MCPolicy -----------------------------
(* TLC instance of Policy: two calls contend for one provider, whose breaker *)
(* is all that calls share; the values are in the configurations.            *)
EXTENDS Policy
=============================================================================
