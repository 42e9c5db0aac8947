------------------------------ MODULE Exchange ------------------------------
(***************************************************************************)
(* What a client may rely on when it sends a request to the gateway,       *)
(* without chains, policy calls and timers.                                *)
(*                                                                         *)
(* A request is open until it is closed, once.  What the client reads      *)
(* comes from one source.  It is told that its answer is whole only if     *)
(* that source has served the answer to its end; otherwise it is told of a *)
(* failure, unless it has gone, after which it is told nothing.            *)
(***************************************************************************)
CONSTANTS Requests, Sources, NoSource

VARIABLES
    stage,   \* per request: "idle", "open" or "closed"
    source,  \* per request: where what the client has read comes from
    served,  \* per request: the sources that have served to the end
    gone,    \* per request: the client has left
    told     \* per request: "nothing", "whole" or "failure"

evars == <<stage, source, served, gone, told>>

Init ==
    /\ stage = [r \in Requests |-> "idle"]
    /\ source = [r \in Requests |-> NoSource]
    /\ served = [r \in Requests |-> {}]
    /\ gone = [r \in Requests |-> FALSE]
    /\ told = [r \in Requests |-> "nothing"]

Ask(r) ==
    /\ stage[r] = "idle"
    /\ stage' = [stage EXCEPT ![r] = "open"]
    /\ UNCHANGED <<source, served, gone, told>>

\* Everything the client reads comes from s.
From(r, s) ==
    /\ source[r] \in {NoSource, s}
    /\ source' = [source EXCEPT ![r] = s]

\* A part of a stream.
Read(r, s) ==
    /\ stage[r] = "open" /\ ~gone[r]
    /\ From(r, s)
    /\ UNCHANGED <<stage, served, gone, told>>

\* A source has served to its end, whether or not anyone listens still.
Serve(r, s) ==
    /\ served' = [served EXCEPT ![r] = @ \cup {s}]
    /\ UNCHANGED <<stage, source, gone, told>>

Close(r, verdict) ==
    /\ stage[r] = "open"
    /\ stage' = [stage EXCEPT ![r] = "closed"]
    /\ told' = [told EXCEPT ![r] = verdict]
    /\ UNCHANGED <<served, gone>>

\* The answer is whole; the end of a stream, or a response read at once.
Finish(r, s) ==
    /\ ~gone[r] /\ s \in served[r]
    /\ source[r] \in {NoSource, s}
    /\ source' \in {source, [source EXCEPT ![r] = s]}
    /\ Close(r, "whole")

Fail(r) == ~gone[r] /\ Close(r, "failure") /\ UNCHANGED source

Leave(r) ==
    /\ stage[r] = "open" /\ ~gone[r]
    /\ gone' = [gone EXCEPT ![r] = TRUE]
    /\ UNCHANGED <<stage, source, served, told>>

Abandon(r) == gone[r] /\ Close(r, "nothing") /\ UNCHANGED source

Next ==
    \E r \in Requests :
        \/ Ask(r)
        \/ \E s \in Sources : Read(r, s) \/ Serve(r, s) \/ Finish(r, s)
        \/ Fail(r) \/ Leave(r) \/ Abandon(r)

Spec == Init /\ [][Next]_evars
=============================================================================
