------------------------------- MODULE Usage -------------------------------
(***************************************************************************)
(* What is recorded of a request: the map of usage observations of the     *)
(* llamactl adapter (provider-llamactl/src/llamactl.adapter.ts) and the    *)
(* usage recorder (sirius-observability/src/usage-recorder.service.ts),    *)
(* around the requests of module Gateway.                                  *)
(*                                                                         *)
(* nova reports the usage of an upstream call from within it, keyed by the *)
(* attempt.  The adapter's call takes its entry when it returns and        *)
(* deletes it however it ends.  Attempts that a timeout has abandoned go   *)
(* on in the adapter, beside the retry that replaced them and, for other   *)
(* requests, beside anything else: the map is shared by all of them.       *)
(*                                                                         *)
(* Definitions marked "Fault:" are as in Policy.                           *)
(***************************************************************************)
EXTENDS Gateway

CONSTANT Observing    \* the providers with such an adapter

ASSUME UsageAssumption == Observing \subseteq Providers

VARIABLES
    observations,  \* the adapters' maps: records of key, attempt and report
    reported,      \* history: what nova has reported of each attempt
    carried,       \* per request: metadata.usageObservation of its answer, if any
    records        \* per request: the usage lines written

usageVars == <<observations, reported, carried, records>>
uvars == <<vars, usageVars>>

\* What was observed of attempt <<r, i, k>>; `whole` says that every count is
\* known, which is when it has a projection to a usage line.
Observation(a, whole) == [of |-> a, whole |-> whole]
Tries == Requests \X Positions \X (0..MaxRetries)
Observations == [of : Tries, whole : BOOLEAN]

UsageTypeOK ==
    /\ TypeOK
    /\ observations \subseteq [key : Tries, value : Observations]
    /\ reported \subseteq Observations
    /\ carried \in [Requests -> SUBSET Observations]
    /\ \A r \in Requests : Len(records[r]) <= 1

UsageInit ==
    /\ Init
    /\ observations = {}
    /\ reported = {}
    /\ carried = [r \in Requests |-> {}]
    /\ records = [r \in Requests |-> <<>>]

\* Fault: the key is the call's and not the attempt's.
KeyByCall(r, i, k) == <<r, i, 0>>

\* attemptId: the policy makes one for each attempt.
Key(r, i, k) == <<r, i, k>>

InAdapter(r, i, k) ==
    /\ k \in inflight[<<r, i>>]
    /\ kind[<<r, i>>] = "once"
    /\ target[<<r, i>>] \in Observing

\* onUsageObservation, called by nova within the upstream call and once.
\* Stream attempts have no id, and their reports are dropped.
Observe(r, i, k, whole) ==
    LET key == Key(r, i, k)
        seen == Observation(<<r, i, k>>, whole)
    IN  /\ InAdapter(r, i, k)
        /\ \A o \in reported : o.of # <<r, i, k>>
        /\ reported' = reported \cup {seen}
        /\ observations' = {o \in observations : o.key # key}
                           \cup {[key |-> key, value |-> seen]}
        /\ UNCHANGED <<vars, carried, records>>

\* Fault: the entry is deleted when it is taken, not when the call has failed.
DeletedWhenTaken(r, i) ==
    observations' = {o \in observations :
        \A k \in inflight[<<r, i>>] \ inflight'[<<r, i>>] :
            outcome'[<<r, i>>] = "ok" => o.key # Key(r, i, k)}

\* The finally block of the adapter's calls that return or throw.
Deleted(r, i) ==
    observations' = {o \in observations :
        \A k \in inflight[<<r, i>>] \ inflight'[<<r, i>>] : o.key # Key(r, i, k)}

\* A call of position i that succeeds carries its entry to the gateway.
Taken(r, i) ==
    LET own == {o \in observations : o.key = Key(r, i, attempt[<<r, i>>])}
    IN  carried' = IF outcome'[<<r, i>>] = "ok" /\ outcome[<<r, i>>] # "ok"
                   THEN [carried EXCEPT ![r] = {o.value : o \in own}]
                   ELSE carried

AdapterReturns(r, i) ==
    /\ \/ P!UpstreamSuccess(<<r, i>>)
       \/ P!UpstreamFailure(<<r, i>>)
       \/ P!LateSettle(<<r, i>>)
    /\ Deleted(r, i)
    /\ Taken(r, i)
    /\ UNCHANGED <<gatewayVars, reported, records>>

\* UsageRecorderService.record.  Without an observation the counts of the
\* response are written, zeros if it had none; with one its projection, if it
\* has one.  A line that does not fit the schema is dropped.
Line(counts, a) == [counts |-> counts, of |-> a]
Recorded(r) ==
    LET lines == IF carried[r] = {}
                 THEN {Line(TRUE, <<r, pos[r], attempt[Call(r)]>>)}
                 ELSE {Line(FALSE, o.of) : o \in {c \in carried[r] : c.whole}}
    IN  \/ UNCHANGED records
        \/ \E l \in lines : records' = [records EXCEPT ![r] = Append(@, l)]

\* The controllers answer and record; a stream is not recorded.
Answered(r) ==
    /\ PositionSucceeded(r)
    /\ IF mode[r] = "stream" THEN UNCHANGED records ELSE Recorded(r)
    /\ UNCHANGED <<observations, reported, carried>>

\* The steps of a request that leave every call of the adapter alone.
Elsewhere(r) ==
    \/ \E m \in Modes, ch \in Chains : Arrive(r, m, ch)
    \/ TryProvider(r)
    \/ ChainExhausted(r)
    \/ PolicyCallFailed(r)
    \/ WriteChunk(r)
    \/ BreakOff(r)
    \/ IdleTimeout(r)
    \/ StreamEvent(r)
    \/ ClientClose(r)
    \/ \E i \in Positions :
          /\ P!UpstreamEventThenReturn(<<r, i>>) \/ P!Timers(<<r, i>>)
          /\ UNCHANGED gatewayVars

UsageNext ==
    \/ Tick /\ UNCHANGED usageVars
    \/ Others /\ UNCHANGED usageVars
    \/ \E r \in Requests :
          \/ Elsewhere(r) /\ UNCHANGED usageVars
          \/ Answered(r)
          \/ \E i \in Positions :
                \/ AdapterReturns(r, i)
                \/ \E k \in 0..MaxRetries, whole \in BOOLEAN : Observe(r, i, k, whole)

UsageSpec == UsageInit /\ [][UsageNext]_uvars

\* As Gateway's; what answers a request now also records it.
UsageFairness ==
    /\ WF_uvars(Tick /\ UNCHANGED usageVars)
    /\ \A r \in Requests :
          /\ WF_uvars(Elsewhere(r) /\ Gateway(r) /\ UNCHANGED usageVars)
          /\ WF_uvars(Answered(r))
          /\ WF_uvars(IdleTimeout(r) /\ UNCHANGED usageVars)
          /\ \A i \in Positions :
                WF_uvars(P!Timers(<<r, i>>) /\ UNCHANGED <<gatewayVars, usageVars>>)

UsageFairSpec == UsageSpec /\ UsageFairness

-----------------------------------------------------------------------------
(* Properties. *)

\* Every entry of the map belongs to a call that the adapter still awaits,
\* also after timeouts, retries and disconnects: the map cannot grow.
ObservationsLive ==
    \A o \in observations :
        LET a == o.value.of IN InAdapter(a[1], a[2], a[3])

\* At most one line is written for a request, when it is answered.  It is what
\* was observed of the attempt that answered, never of one that was abandoned
\* or of another provider.  The counts of the response, which may be zeros, are
\* used only if nothing was observed of it.
RecordIsOfTheAnswer ==
    \A r \in Requests :
        LET answer == <<r, pos[r], attempt[Call(r)]>>
            known == {o \in reported : o.of = answer}
        IN  records[r] # <<>> =>
                /\ gpc[r] = "done"
                /\ outcome[Call(r)] = "ok"
                /\ \/ records[r] = <<Line(TRUE, answer)>> /\ known = {}
                   \/ /\ records[r] = <<Line(FALSE, answer)>>
                      /\ known = {Observation(answer, TRUE)}
=============================================================================
