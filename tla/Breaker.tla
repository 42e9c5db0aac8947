------------------------------ MODULE Breaker ------------------------------
(***************************************************************************)
(* What PolicyService promises about a provider's circuit breaker, without *)
(* its attempts, timers and signals.                                       *)
(*                                                                         *)
(* The breaker is open exactly when a streak of Threshold failures has     *)
(* been seen with neither a success nor a reset in between.  While it is   *)
(* open, calls are admitted again only when ResetMs have passed since the  *)
(* last failure.  Only an admitted call reports a success or a failure,    *)
(* and only for the provider it was admitted to.                           *)
(***************************************************************************)
EXTENDS Integers

CONSTANTS Providers, Calls, Threshold, ResetMs, NoProvider

VARIABLES
    open,     \* per provider
    streak,   \* per provider: failures in a row, counted up to Threshold
    elapsed,  \* per provider: ticks since the last failure, up to ResetMs
    serving   \* per call: the provider it was admitted to, or NoProvider

bvars == <<open, streak, elapsed, serving>>

Init ==
    /\ open = [p \in Providers |-> FALSE]
    /\ streak = [p \in Providers |-> 0]
    /\ elapsed = [p \in Providers |-> ResetMs]
    /\ serving = [c \in Calls |-> NoProvider]

Set(p, n) ==
    /\ streak' = [streak EXCEPT ![p] = n]
    /\ open' = [open EXCEPT ![p] = n = Threshold]

Admissible(p) == ~open[p] \/ elapsed[p] = ResetMs

\* A call asks to be let through; an open breaker that lets it is closed.
Admit(c, p) ==
    /\ Admissible(p)
    /\ serving[c] = NoProvider
    /\ Set(p, IF open[p] THEN 0 ELSE streak[p])
    /\ \/ serving' = [serving EXCEPT ![c] = p]
       \/ UNCHANGED serving    \* its caller had already gone
    /\ UNCHANGED elapsed

\* The call is over; UNCHANGED streak and elapsed: it reports nothing.
Leave(c) == serving' = [serving EXCEPT ![c] = NoProvider]

Success(c) ==
    /\ serving[c] # NoProvider
    /\ Set(serving[c], 0)
    /\ Leave(c)
    /\ UNCHANGED elapsed

\* A failed attempt; the call goes on with a retry or is over.
Failure(c) ==
    /\ serving[c] # NoProvider
    /\ Set(serving[c], IF streak[serving[c]] < Threshold
                       THEN streak[serving[c]] + 1 ELSE Threshold)
    /\ elapsed' = [elapsed EXCEPT ![serving[c]] = 0]
    /\ Leave(c) \/ UNCHANGED serving

Silent(c) ==
    /\ serving[c] # NoProvider
    /\ Leave(c)
    /\ UNCHANGED <<open, streak, elapsed>>

Tick ==
    /\ elapsed' = [p \in Providers |->
           IF elapsed[p] < ResetMs THEN elapsed[p] + 1 ELSE elapsed[p]]
    /\ UNCHANGED <<open, streak, serving>>

Next ==
    \/ Tick
    \/ \E c \in Calls :
          \/ \E p \in Providers : Admit(c, p)
          \/ Success(c) \/ Failure(c) \/ Silent(c)

Spec == Init /\ [][Next]_bvars
=============================================================================
