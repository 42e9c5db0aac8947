------------------------------- MODULE Policy -------------------------------
(***************************************************************************)
(* PolicyService (libs/sirius-policy/src/policy.service.ts): retries, the  *)
(* per-attempt timeout and the per-provider circuit breaker around every   *)
(* upstream call of the gateway.                                           *)
(*                                                                         *)
(* A call is an execution of executeWithPolicy (kind "once") or of the     *)
(* generator of executeStreamWithPolicy (kind "stream").  All calls run on *)
(* one JavaScript thread: an action is the code between two awaits.  Calls *)
(* interleave at the awaits and share only the breaker of their provider.  *)
(*                                                                         *)
(* Call identifiers are slots: an ended call's slot may be used by a later *)
(* call once nothing of the earlier one is in flight any more.  The        *)
(* upstream is the environment: it may answer, fail, stay silent, or       *)
(* answer after its attempt was abandoned, whether or not its signal has   *)
(* been aborted.                                                           *)
(*                                                                         *)
(* A definition marked "Fault:" is what its successor would be with a      *)
(* plausible bug; nothing uses it.  Each property is known to tell one of  *)
(* them from the code.                                                     *)
(*                                                                         *)
(* Time is counted in ticks.  Instead of the clock and of lastFailure the  *)
(* model keeps the time elapsed since lastFailure, saturated at ResetMs,   *)
(* and what is left of each timer: the code reads nothing else of them.    *)
(***************************************************************************)
EXTENDS Integers, FiniteSets

CONSTANTS
    Providers,    \* provider names, the keys of circuitState
    Calls,        \* slots for concurrent calls
    MaxRetries,   \* SIRIUS_RETRY_MAX_ATTEMPTS: attempts beyond the first
    BaseDelay,    \* SIRIUS_RETRY_BASE_DELAY_MS
    TimeoutMs,    \* SIRIUS_TIMEOUT_MS
    Threshold,    \* SIRIUS_CIRCUIT_BREAKER_THRESHOLD
    ResetMs,      \* SIRIUS_CIRCUIT_BREAKER_RESET_MS
    NoProvider    \* none of the providers

ASSUME PolicyAssumption ==
    /\ MaxRetries \in Nat
    /\ BaseDelay \in Nat
    /\ TimeoutMs \in Nat
    /\ Threshold \in Nat \ {0}
    /\ ResetMs \in Nat
    /\ NoProvider \notin Providers
    /\ IsFiniteSet(Calls)

VARIABLES
    circuit,       \* per provider: failures, isOpen, elapsed since lastFailure
    pc,            \* per call: where the execution is suspended
    kind,          \* per call: "once" or "stream"
    target,        \* per call: the provider
    attempt,       \* per call: the loop variable
    timer,         \* per call: ticks left of the pending setTimeout
    callerAborted, \* per call: callerSignal.aborted
    returning,     \* per call: a return() is queued behind the pending next()
    inflight,      \* per call: attempts whose upstream operation has not settled
    aborted,       \* per call: attempts whose attemptController has fired
    delivered,     \* per call: attempts that handed an event to the consumer
    outcome        \* per call: how the last execution ended

callVars == <<kind, target>>
vars == <<circuit, pc, kind, target, attempt, timer, callerAborted,
          returning, inflight, aborted, delivered, outcome>>

Attempts == 0..MaxRetries
Kinds == {"once", "stream"}
Ended == "ended"
Outcomes == {"none", "ok", "failed", "abort", "refused", "returned"}

-----------------------------------------------------------------------------
(* The circuit breaker of one provider. *)

ClosedCircuit == [failures |-> 0, elapsed |-> ResetMs, isOpen |-> FALSE]

\* checkCircuitBreaker lets the call through; otherwise it throws.
Admits(p) == ~circuit[p].isOpen \/ circuit[p].elapsed >= ResetMs

\* failures = 0 and isOpen = false; lastFailure stays.
Closed(state) ==
    [failures |-> 0, elapsed |-> state.elapsed, isOpen |-> FALSE]

\* Fault: letting a call through reopens the gate but keeps the count.
AfterCheckKeepsCount(p) ==
    [circuit EXCEPT ![p].isOpen = FALSE]

\* Fault: a success clears the count and leaves the gate as it is.
AfterSuccessKeepsGate(p) ==
    [circuit EXCEPT ![p].failures = 0]

\* The state checkCircuitBreaker leaves behind when it lets the call through,
\* and those of recordSuccess and recordFailure.  A provider without an entry
\* in the map is one with ClosedCircuit.
AfterCheck(p) ==
    IF circuit[p].isOpen
    THEN [circuit EXCEPT ![p] = Closed(@)]
    ELSE circuit

AfterSuccess(p) ==
    [circuit EXCEPT ![p] = Closed(@)]

AfterFailure(p) ==
    [circuit EXCEPT
        ![p] = [failures |-> @.failures + 1,
                elapsed |-> 0,
                isOpen |-> IF @.failures + 1 >= Threshold THEN TRUE ELSE @.isOpen]]

-----------------------------------------------------------------------------
(* A call's attempts. *)

BackoffDelay(k) == BaseDelay * 2^k

\* The signal handed to attempt k: its own controller merged with the caller's.
SignalAborted(c, k) == k \in aborted[c] \/ callerAborted[c]

\* Fault: the attempt is abandoned without being aborted.
AbandonAttempt(c) == UNCHANGED aborted

\* attemptController.abort(), from the catch and the finally of an attempt.
AbortAttempt(c) == aborted' = [aborted EXCEPT ![c] = @ \cup {attempt[c]}]

\* The upstream operation of the current attempt settles.
Settle(c) == inflight' = [inflight EXCEPT ![c] = @ \ {attempt[c]}]

\* The top of the loop body: a fresh controller, the operation started and,
\* for executeWithPolicy, the timeout armed.
StartAttempt(c, k, kd) ==
    /\ pc' = [pc EXCEPT ![c] = "running"]
    /\ attempt' = [attempt EXCEPT ![c] = k]
    /\ timer' = [timer EXCEPT ![c] = IF kd = "once" THEN TimeoutMs ELSE 0]

End(c, how) ==
    /\ pc' = [pc EXCEPT ![c] = Ended]
    /\ outcome' = [outcome EXCEPT ![c] = how]
    /\ timer' = [timer EXCEPT ![c] = 0]
    /\ UNCHANGED attempt

-----------------------------------------------------------------------------
TypeOK ==
    /\ circuit \in [Providers -> [failures : Nat, elapsed : 0..ResetMs,
                                  isOpen : BOOLEAN]]
    /\ pc \in [Calls -> {Ended, "running", "suspended", "sleeping"}]
    /\ kind \in [Calls -> Kinds]
    /\ target \in [Calls -> Providers]
    /\ attempt \in [Calls -> Attempts]
    /\ timer \in [Calls -> Nat]
    /\ callerAborted \in [Calls -> BOOLEAN]
    /\ returning \in [Calls -> BOOLEAN]
    /\ inflight \in [Calls -> SUBSET Attempts]
    /\ aborted \in [Calls -> SUBSET Attempts]
    /\ delivered \in [Calls -> SUBSET Attempts]
    /\ outcome \in [Calls -> Outcomes]

Init ==
    /\ circuit = [p \in Providers |-> ClosedCircuit]
    /\ pc = [c \in Calls |-> Ended]
    /\ kind = [c \in Calls |-> "once"]
    /\ target \in {[c \in Calls |-> p] : p \in Providers}
    /\ attempt = [c \in Calls |-> 0]
    /\ timer = [c \in Calls |-> 0]
    /\ callerAborted = [c \in Calls |-> FALSE]
    /\ returning = [c \in Calls |-> FALSE]
    /\ inflight = [c \in Calls |-> {}]
    /\ aborted = [c \in Calls |-> {}]
    /\ delivered = [c \in Calls |-> {}]
    /\ outcome = [c \in Calls |-> "none"]

-----------------------------------------------------------------------------
(* Entry: from the invocation (for a stream, its first next()) to the first *)
(* await.  preAborted is the state of callerSignal at that moment.         *)

Enter(c, p, kd, preAborted) ==
    /\ pc[c] = Ended
    /\ inflight[c] = {}
    /\ kind' = [kind EXCEPT ![c] = kd]
    /\ target' = [target EXCEPT ![c] = p]
    /\ callerAborted' = [callerAborted EXCEPT ![c] = preAborted]
    /\ returning' = [returning EXCEPT ![c] = FALSE]
    /\ aborted' = [aborted EXCEPT ![c] = {}]
    /\ delivered' = [delivered EXCEPT ![c] = {}]

\* The breaker lets the call through and attempt 0 starts.
Admit(c, p, kd) ==
    /\ Admits(p)
    /\ Enter(c, p, kd, FALSE)
    /\ circuit' = AfterCheck(p)
    /\ StartAttempt(c, 0, kd)
    /\ inflight' = [inflight EXCEPT ![c] = {0}]
    /\ outcome' = [outcome EXCEPT ![c] = "none"]

\* The caller has gone before the call starts.  The breaker is consulted first.
AdmitAborted(c, p, kd) ==
    /\ Admits(p)
    /\ Enter(c, p, kd, TRUE)
    /\ circuit' = AfterCheck(p)
    /\ End(c, "abort")
    /\ UNCHANGED inflight

\* Fault: a refusal is counted as a failure of the provider.
RefuseCounts(c, p, kd) ==
    /\ ~Admits(p)
    /\ \E gone \in BOOLEAN : Enter(c, p, kd, gone)
    /\ End(c, "refused")
    /\ circuit' = AfterFailure(p)
    /\ UNCHANGED inflight

\* Fault: a refusal restarts the breaker's reset period.
RefuseProlongs(c, p, kd) ==
    /\ ~Admits(p)
    /\ \E gone \in BOOLEAN : Enter(c, p, kd, gone)
    /\ End(c, "refused")
    /\ circuit' = [circuit EXCEPT ![p].elapsed = 0]
    /\ UNCHANGED inflight

\* The breaker is open: the call throws and touches nothing.
Refuse(c, p, kd) ==
    /\ ~Admits(p)
    /\ \E gone \in BOOLEAN : Enter(c, p, kd, gone)
    /\ End(c, "refused")
    /\ UNCHANGED <<circuit, inflight>>

-----------------------------------------------------------------------------
(* The upstream operation of the current attempt answers. *)

\* The operation resolves, or the upstream's iteration is done.
UpstreamSuccess(c) ==
    /\ pc[c] = "running"
    /\ circuit' = AfterSuccess(target[c])
    /\ Settle(c)
    /\ AbortAttempt(c)
    /\ End(c, "ok")
    /\ UNCHANGED <<callVars, callerAborted, returning, delivered>>

\* The upstream stream yields: the generator hands the event to the consumer
\* and stops at its yield.
UpstreamEvent(c) ==
    /\ pc[c] = "running"
    /\ kind[c] = "stream"
    /\ ~returning[c]
    /\ pc' = [pc EXCEPT ![c] = "suspended"]
    /\ delivered' = [delivered EXCEPT ![c] = @ \cup {attempt[c]}]
    /\ UNCHANGED <<circuit, callVars, attempt, timer, callerAborted,
                   returning, inflight, aborted, outcome>>

\* The same with a return() queued behind the next() this event answers: it
\* resumes the yield at once with a return completion.
UpstreamEventThenReturn(c) ==
    /\ pc[c] = "running"
    /\ kind[c] = "stream"
    /\ returning[c]
    /\ delivered' = [delivered EXCEPT ![c] = @ \cup {attempt[c]}]
    /\ Settle(c)
    /\ AbortAttempt(c)
    /\ End(c, "returned")
    /\ UNCHANGED <<circuit, callVars, callerAborted, returning>>

(* The catch block of attempt[c], entered with its error. *)

\* Fault: an abort by the caller is counted against the provider.
CaughtAbortedCounts(c) ==
    /\ callerAborted[c]
    /\ End(c, "abort")
    /\ circuit' = AfterFailure(target[c])

\* The caller is gone: neither a retry nor a failure of the provider.
CaughtAborted(c) ==
    /\ callerAborted[c]
    /\ End(c, "abort")
    /\ UNCHANGED circuit

\* The consumer holds events of this attempt: no replay.
CaughtYielded(c) ==
    /\ ~callerAborted[c]
    /\ attempt[c] \in delivered[c]
    /\ circuit' = AfterFailure(target[c])
    /\ End(c, "failed")

\* Fault: what the consumer already holds does not prevent a retry.
CaughtRetryReplays(c) ==
    /\ ~callerAborted[c]
    /\ attempt[c] < MaxRetries
    /\ circuit' = AfterFailure(target[c])
    /\ pc' = [pc EXCEPT ![c] = "sleeping"]
    /\ timer' = [timer EXCEPT ![c] = BackoffDelay(attempt[c])]
    /\ UNCHANGED <<attempt, outcome>>

\* Fault: one attempt too many.
CaughtRetryOnceMore(c) ==
    /\ ~callerAborted[c]
    /\ attempt[c] \notin delivered[c]
    /\ attempt[c] <= MaxRetries
    /\ circuit' = AfterFailure(target[c])
    /\ pc' = [pc EXCEPT ![c] = "sleeping"]
    /\ timer' = [timer EXCEPT ![c] = BackoffDelay(attempt[c])]
    /\ UNCHANGED <<attempt, outcome>>

\* Attempts are left: sleep before the next one.
CaughtRetry(c) ==
    /\ ~callerAborted[c]
    /\ attempt[c] \notin delivered[c]
    /\ attempt[c] < MaxRetries
    /\ circuit' = AfterFailure(target[c])
    /\ pc' = [pc EXCEPT ![c] = "sleeping"]
    /\ timer' = [timer EXCEPT ![c] = BackoffDelay(attempt[c])]
    /\ UNCHANGED <<attempt, outcome>>

\* No attempt is left.
CaughtExhausted(c) ==
    /\ ~callerAborted[c]
    /\ attempt[c] \notin delivered[c]
    /\ attempt[c] = MaxRetries
    /\ circuit' = AfterFailure(target[c])
    /\ End(c, "failed")

Caught(c) ==
    /\ AbortAttempt(c)
    /\ \/ CaughtAborted(c)
       \/ CaughtYielded(c)
       \/ CaughtRetry(c)
       \/ CaughtExhausted(c)
    /\ UNCHANGED <<callVars, callerAborted, returning, delivered>>

\* The operation rejects or the upstream's iteration throws.
UpstreamFailure(c) ==
    /\ pc[c] = "running"
    /\ Settle(c)
    /\ Caught(c)

\* Fault: the timeout covers the first attempt only.
FirstAttemptTimeout(c) ==
    /\ pc[c] = "running"
    /\ kind[c] = "once"
    /\ timer[c] = 0
    /\ attempt[c] = 0
    /\ Caught(c)
    /\ UNCHANGED inflight

\* withTimeout's timer fires first; the operation is still unsettled.
AttemptTimeout(c) ==
    /\ pc[c] = "running"
    /\ kind[c] = "once"
    /\ timer[c] = 0
    /\ Caught(c)
    /\ UNCHANGED inflight

\* An abandoned operation settles: the race is over, nobody listens.
LateSettle(c) ==
    \E k \in inflight[c] :
        /\ ~(pc[c] \in {"running", "suspended"} /\ k = attempt[c])
        /\ inflight' = [inflight EXCEPT ![c] = @ \ {k}]
        /\ UNCHANGED <<circuit, pc, callVars, attempt, timer, callerAborted,
                       returning, aborted, delivered, outcome>>

\* The backoff sleep is over.  Neither the caller's signal nor the breaker is
\* looked at again: the next attempt starts.
WakeUp(c) ==
    /\ pc[c] = "sleeping"
    /\ timer[c] = 0
    /\ StartAttempt(c, attempt[c] + 1, kind[c])
    /\ inflight' = [inflight EXCEPT ![c] = @ \cup {attempt[c] + 1}]
    /\ UNCHANGED <<circuit, callVars, callerAborted, returning, aborted,
                   delivered, outcome>>

-----------------------------------------------------------------------------
(* The caller. *)

\* The caller's AbortController fires (client disconnect, idle timeout).
CallerAbort(c) ==
    /\ pc[c] # Ended
    /\ ~callerAborted[c]
    /\ callerAborted' = [callerAborted EXCEPT ![c] = TRUE]
    /\ UNCHANGED <<circuit, pc, callVars, attempt, timer, returning, inflight,
                   aborted, delivered, outcome>>

\* The consumer of the generator asks for the next event.
ConsumerNext(c) ==
    /\ pc[c] = "suspended"
    /\ pc' = [pc EXCEPT ![c] = "running"]
    /\ UNCHANGED <<circuit, callVars, attempt, timer, callerAborted,
                   returning, inflight, aborted, delivered, outcome>>

\* The consumer breaks out at an event: return() closes the upstream
\* iterator and runs the finally block.
ConsumerReturn(c) ==
    /\ pc[c] = "suspended"
    /\ Settle(c)
    /\ AbortAttempt(c)
    /\ End(c, "returned")
    /\ UNCHANGED <<circuit, callVars, callerAborted, returning, delivered>>

\* The consumer gives up while its next() is pending (the finally block of
\* GatewayService.streamResponse): it aborts the signal and calls return(),
\* which is queued behind that next().
Cancel(c) ==
    /\ pc[c] \in {"running", "sleeping"}
    /\ kind[c] = "stream"
    /\ ~returning[c]
    /\ callerAborted' = [callerAborted EXCEPT ![c] = TRUE]
    /\ returning' = [returning EXCEPT ![c] = TRUE]
    /\ UNCHANGED <<circuit, pc, callVars, attempt, timer, inflight, aborted,
                   delivered, outcome>>

-----------------------------------------------------------------------------
Tick ==
    /\ circuit' = [p \in Providers |->
           [circuit[p] EXCEPT !.elapsed = IF @ < ResetMs THEN @ + 1 ELSE @]]
    /\ timer' = [c \in Calls |-> IF timer[c] > 0 THEN timer[c] - 1 ELSE timer[c]]
    /\ UNCHANGED <<pc, callVars, attempt, callerAborted, returning, inflight,
                   aborted, delivered, outcome>>

Invoke(c) ==
    \E p \in Providers, kd \in Kinds :
        \/ Admit(c, p, kd)
        \/ AdmitAborted(c, p, kd)
        \/ Refuse(c, p, kd)

Upstream(c) ==
    \/ UpstreamSuccess(c)
    \/ UpstreamEvent(c)
    \/ UpstreamEventThenReturn(c)
    \/ UpstreamFailure(c)
    \/ LateSettle(c)

Timers(c) == AttemptTimeout(c) \/ WakeUp(c)

Caller(c) ==
    \/ CallerAbort(c)
    \/ ConsumerNext(c)
    \/ ConsumerReturn(c)
    \/ Cancel(c)

Next ==
    \/ Tick
    \/ \E c \in Calls : Invoke(c) \/ Upstream(c) \/ Timers(c) \/ Caller(c)

Spec == Init /\ [][Next]_vars

\* The event loop runs every due timer eventually, and time passes.  Nothing
\* is assumed of the upstream or of the caller.
Fairness ==
    /\ WF_vars(Tick)
    /\ \A c \in Calls : WF_vars(Timers(c))

FairSpec == Spec /\ Fairness

-----------------------------------------------------------------------------
(* Properties. *)

\* The breaker of a provider is open exactly when Threshold failures in a row
\* have been counted: no interleaving of successes, failures and resets of
\* concurrent calls leaves the flag and the counter at odds
\* (checkCircuitBreaker, recordSuccess, recordFailure).
BreakerConsistent ==
    \A p \in Providers : circuit[p].isOpen <=> circuit[p].failures >= Threshold

\* An upstream operation that nobody has aborted is the current attempt of a
\* call that is still waiting for it: a retry never runs beside the attempt it
\* replaces, and an ended call leaves no live upstream work behind
\* (the comment at the head of executeWithPolicy's loop).
OneLiveAttempt ==
    \A c \in Calls : \A k \in inflight[c] \ aborted[c] :
        k = attempt[c] /\ pc[c] \in {"running", "suspended"}

\* All events a consumer gets from a stream call come from one attempt, its
\* last: an attempt that delivered something is never followed by a retry
\* (the `yielded` check of executeStreamWithPolicy).
NoReplay ==
    \A c \in Calls : delivered[c] \subseteq {attempt[c]}

\* The discipline behind the three invariants above, needed for their proof:
\* an attempt's controller has fired exactly when the attempt is over, a call
\* sleeps only when a further attempt is allowed, only a generator stops at a
\* yield, and a call with an outcome is over.
AttemptDiscipline ==
    \A c \in Calls :
        /\ \A k \in aborted[c] : k <= attempt[c]
        /\ pc[c] \in {"running", "suspended"} => attempt[c] \notin aborted[c]
        /\ pc[c] = "sleeping" =>
              attempt[c] < MaxRetries /\ attempt[c] \notin delivered[c]
        /\ pc[c] = "suspended" => kind[c] = "stream"
        /\ outcome[c] # "none" => pc[c] = Ended
        /\ outcome[c] = "ok" => attempt[c] \notin inflight[c]
        /\ \A k \in inflight[c] : k <= attempt[c]
        /\ pc[c] \in {"running", "suspended"} => attempt[c] \in inflight[c]

\* Attempt k of call c is in progress or may still be made.
MayRun(c, k) ==
    \/ pc[c] \in {"running", "suspended"} /\ k >= attempt[c]
    \/ pc[c] = "sleeping" /\ k > attempt[c]
AttemptsLeft(p) == {s \in Calls \X Attempts : target[s[1]] = p /\ MayRun(s[1], s[2])}

\* However many calls fail together, the failure counter of a provider never
\* passes Threshold - 1 by more than the attempts that were admitted before
\* the breaker opened: refused calls and abandoned attempts add nothing.
FailuresBounded ==
    \A p \in Providers :
        circuit[p].failures + Cardinality(AttemptsLeft(p))
            <= (Threshold - 1) + Cardinality(Calls) * (MaxRetries + 1)

\* A call whose caller has aborted never makes a provider's failure count go
\* up, whatever its upstream does afterwards ("A caller abort is not a
\* provider failure"), and no failure is counted twice for one attempt.
ChargesOneAttempt ==
    \A p \in Providers :
        circuit'[p].failures > circuit[p].failures =>
            /\ circuit'[p].failures = circuit[p].failures + 1
            /\ \E c \in Calls :
                  /\ target[c] = p
                  /\ ~callerAborted[c]
                  /\ attempt[c] \notin aborted[c]
                  /\ attempt[c] \in aborted'[c]
FailuresAreCharged == [][ChargesOneAttempt]_vars

\* The policy implements the abstract breaker: whatever concurrent calls do,
\* each provider's breaker goes through admissions, successes and failures of
\* calls admitted to it, and through nothing else.
absOpen == [p \in Providers |-> circuit[p].isOpen]
absStreak == [p \in Providers |-> IF circuit[p].failures < Threshold
                                 THEN circuit[p].failures ELSE Threshold]
absElapsed == [p \in Providers |-> circuit[p].elapsed]
absServing == [c \in Calls |-> IF pc[c] = Ended THEN NoProvider ELSE target[c]]

AbstractBreaker == INSTANCE Breaker WITH
    open <- absOpen, streak <- absStreak, elapsed <- absElapsed,
    serving <- absServing

ImplementsBreaker == AbstractBreaker!Spec

\* A non-streaming call always ends, even when its upstream never answers and
\* its caller never aborts: every attempt is timed out and the attempts run
\* out (withTimeout, the loop of executeWithPolicy).
OnceTerminates ==
    \A c \in Calls :
        pc[c] # Ended /\ kind[c] = "once" ~> pc[c] = Ended

\* An open breaker always becomes passable again: calls that were in flight
\* when it opened may push lastFailure forward, but not for ever, and refused
\* calls do not (checkCircuitBreaker).
BreakerRecovers ==
    \A p \in Providers : []<>Admits(p)

-----------------------------------------------------------------------------
(* What a comment of the repository says, and the code does not do. *)

\* policy.service.ts:75-76: "the client is gone, so don't retry".  As a
\* property: a call whose caller aborts during the backoff starts no further
\* attempt.
NoRetryAfterAbort ==
    [][\A c \in Calls :
         pc[c] = "sleeping" /\ callerAborted[c] => pc'[c] # "running"]_vars
=============================================================================
