---------------------------- MODULE PolicyProofs ----------------------------
(***************************************************************************)
(* Proofs about module Policy, for any number of providers and calls and   *)
(* any retry, timeout and breaker settings.                                *)
(*                                                                         *)
(* Neither BreakerConsistent nor OneLiveAttempt nor NoReplay is inductive  *)
(* alone: a call that wakes up moves on to attempt + 1, so the proof has   *)
(* to know that a sleeping call has attempts left, has delivered nothing   *)
(* and has aborted what it leaves behind.  IInv adds AttemptDiscipline.    *)
(***************************************************************************)
EXTENDS Policy, FiniteSetTheorems, TLAPS

IInv ==
    /\ TypeOK
    /\ BreakerConsistent
    /\ OneLiveAttempt
    /\ NoReplay
    /\ AttemptDiscipline

-----------------------------------------------------------------------------
\* A power of two is a natural number: it is the size of a powerset.
LEMMA PowerOfTwo == \A k \in Nat : 2^k \in Nat
<1>1. TAKE k \in Nat
<1>2. IsFiniteSet(1..k) /\ Cardinality(1..k) = k
  BY FS_Interval
<1>3. IsFiniteSet(SUBSET (1..k)) /\ Cardinality(SUBSET (1..k)) = 2^k
  BY <1>2, FS_SUBSET
<1>4. QED
  BY <1>3, FS_CardinalityType

\* Every backoff delay is a natural number of ticks.
LEMMA BackoffType == \A k \in Attempts : BackoffDelay(k) \in Nat
  BY PolicyAssumption, PowerOfTwo DEF Attempts, BackoffDelay

\* What checkCircuitBreaker, recordSuccess and recordFailure leave behind is
\* a well-formed state of the breakers in which flag and counter agree.
LEMMA CircuitUpdates ==
  ASSUME TypeOK, BreakerConsistent, NEW p \in Providers,
         \/ circuit' = AfterCheck(p)
         \/ circuit' = AfterSuccess(p)
         \/ circuit' = AfterFailure(p)
         \/ circuit' = circuit
  PROVE  /\ circuit' \in [Providers -> [failures : Nat, elapsed : 0..ResetMs,
                                        isOpen : BOOLEAN]]
         /\ BreakerConsistent'
<1> DEFINE Record == [failures : Nat, elapsed : 0..ResetMs, isOpen : BOOLEAN]
<1>1. circuit \in [Providers -> Record] /\ ResetMs \in Nat /\ Threshold \in Nat \ {0}
  BY PolicyAssumption DEF TypeOK
<1>2. \A q \in Providers : circuit[q].isOpen <=> circuit[q].failures >= Threshold
  BY DEF BreakerConsistent
<1>3. circuit[p] \in Record
  BY <1>1
<1>4. SUFFICES ASSUME NEW r \in Record,
                      r.isOpen <=> r.failures >= Threshold,
                      circuit' = [circuit EXCEPT ![p] = r]
               PROVE  /\ circuit' \in [Providers -> Record]
                      /\ BreakerConsistent'
  <2> DEFINE closed == Closed(circuit[p])
             failed == [failures |-> circuit[p].failures + 1,
                        elapsed |-> 0,
                        isOpen |-> IF circuit[p].failures + 1 >= Threshold
                                   THEN TRUE ELSE circuit[p].isOpen]
  <2>1. CASE circuit' = [circuit EXCEPT ![p] = closed]
    <3>1. closed \in Record /\ closed.failures = 0 /\ closed.isOpen = FALSE
      BY <1>3 DEF Closed
    <3>2. closed.isOpen <=> closed.failures >= Threshold
      BY <1>1, <3>1
    <3> HIDE DEF closed
    <3>3. QED
      BY <1>4, <2>1, <3>1, <3>2
  <2>2. CASE circuit' = [circuit EXCEPT ![p] = failed]
    <3>1. failed \in Record
      <4>1. circuit[p].failures + 1 \in Nat /\ 0 \in 0..ResetMs
        BY <1>1, <1>3
      <4>2. (IF circuit[p].failures + 1 >= Threshold THEN TRUE ELSE circuit[p].isOpen)
              \in BOOLEAN
        BY <1>3
      <4>3. QED
        BY <4>1, <4>2
    <3>2. failed.failures = circuit[p].failures + 1 /\ circuit[p].failures \in Nat
      BY <1>3
    <3>3. CASE circuit[p].failures + 1 >= Threshold
      <4>1. failed.isOpen = TRUE
        BY <3>3
      <4> HIDE DEF failed
      <4>2. QED
        BY <1>4, <2>2, <3>1, <3>2, <3>3, <4>1
    <3>4. CASE ~(circuit[p].failures + 1 >= Threshold)
      <4>1. circuit[p].isOpen = FALSE
        BY <1>1, <1>2, <1>3, <3>2, <3>4
      <4>2. failed.isOpen = FALSE
        BY <3>4, <4>1
      <4> HIDE DEF failed
      <4>3. QED
        BY <1>4, <2>2, <3>1, <3>2, <3>4, <4>2
    <3>5. QED
      BY <3>3, <3>4
  <2>3. CASE circuit' = circuit
    <3>1. circuit' = [circuit EXCEPT ![p] = circuit[p]]
      BY <1>1, <2>3
    <3>2. QED
      BY <1>2, <1>3, <1>4, <3>1
  <2>4. QED
    BY <2>1, <2>2, <2>3 DEF AfterCheck, AfterSuccess, AfterFailure
<1>5. circuit' \in [Providers -> Record]
  BY <1>1, <1>4
<1>6. \A q \in Providers : circuit'[q] = IF q = p THEN r ELSE circuit[q]
  BY <1>1, <1>4
<1>7. BreakerConsistent'
  BY <1>2, <1>4, <1>6 DEF BreakerConsistent
<1>8. QED
  BY <1>5, <1>7

\* Before the first call every circuit is closed and every call is idle.
LEMMA InitIInv == Init => IInv
<1> SUFFICES ASSUME Init PROVE IInv
  OBVIOUS
<1> USE PolicyAssumption DEF Init
<1>1. TypeOK
  BY DEF TypeOK, ClosedCircuit, Ended, Kinds, Attempts, Outcomes
<1>2. BreakerConsistent
  BY DEF BreakerConsistent, ClosedCircuit
<1>3. OneLiveAttempt /\ NoReplay /\ AttemptDiscipline
  BY DEF OneLiveAttempt, NoReplay, AttemptDiscipline, Ended
<1>4. QED
  BY <1>1, <1>2, <1>3 DEF IInv

-----------------------------------------------------------------------------
(* One lemma per group of actions: each preserves the inductive invariant. *)

\* Entering a call: admitted, admitted with its caller gone, or refused.
LEMMA InvokeIInv ==
  ASSUME IInv, NEW c \in Calls, Invoke(c)
  PROVE  IInv'
<1>1. PICK p \in Providers, kd \in Kinds :
         Admit(c, p, kd) \/ AdmitAborted(c, p, kd) \/ Refuse(c, p, kd)
  BY DEF Invoke
<1> USE PolicyAssumption DEF IInv
<1>2. \E gone \in BOOLEAN : Enter(c, p, kd, gone)
  BY <1>1 DEF Admit, AdmitAborted, Refuse
<1>3. circuit' = AfterCheck(p) \/ circuit' = circuit
  BY <1>1 DEF Admit, AdmitAborted, Refuse
<1>4. BreakerConsistent' /\ circuit' \in [Providers -> [failures : Nat,
         elapsed : 0..ResetMs, isOpen : BOOLEAN]]
  BY <1>3, CircuitUpdates
<1>5. CASE Admit(c, p, kd)
  <2>1. TypeOK'
    BY <1>2, <1>4, <1>5
    DEF Admit, Enter, StartAttempt, TypeOK, Attempts, Outcomes
  <2>2. OneLiveAttempt' /\ NoReplay' /\ AttemptDiscipline'
    BY <1>5 DEF Admit, Enter, StartAttempt, TypeOK, OneLiveAttempt, NoReplay,
                AttemptDiscipline, Attempts
  <2>3. QED
    BY <1>4, <2>1, <2>2
<1>6. CASE AdmitAborted(c, p, kd) \/ Refuse(c, p, kd)
  <2>1. \E how \in Outcomes : End(c, how)
    BY <1>6 DEF AdmitAborted, Refuse, Outcomes
  <2>2. UNCHANGED inflight
    BY <1>6 DEF AdmitAborted, Refuse
  <2>3. TypeOK'
    BY <1>2, <1>4, <2>1, <2>2 DEF Enter, End, TypeOK, Ended
  <2>4. OneLiveAttempt' /\ NoReplay' /\ AttemptDiscipline'
    BY <1>2, <2>1, <2>2 DEF Enter, End, TypeOK, OneLiveAttempt, NoReplay,
                            AttemptDiscipline, Ended
  <2>5. QED
    BY <1>4, <2>3, <2>4
<1>7. QED
  BY <1>1, <1>5, <1>6

\* The catch block of an attempt, from a failure or from a timeout.
LEMMA CaughtIInv ==
  ASSUME IInv, NEW c \in Calls, pc[c] = "running", Caught(c),
         Settle(c) \/ UNCHANGED inflight
  PROVE  IInv'
<1> USE PolicyAssumption DEF IInv
<1>1. target[c] \in Providers /\ attempt[c] \in Attempts
  BY DEF TypeOK
<1>2. circuit' = AfterFailure(target[c]) \/ circuit' = circuit
  BY DEF Caught, CaughtAborted, CaughtYielded, CaughtRetry, CaughtExhausted
<1>3. BreakerConsistent' /\ circuit' \in [Providers -> [failures : Nat,
         elapsed : 0..ResetMs, isOpen : BOOLEAN]]
  BY <1>1, <1>2, CircuitUpdates
<1>4. inflight' \in [Calls -> SUBSET Attempts] /\ aborted' \in [Calls -> SUBSET Attempts]
  BY <1>1 DEF Caught, AbortAttempt, Settle, TypeOK
<1>5. CASE \E how \in Outcomes \ {"ok"} : End(c, how)
  <2>1. TypeOK'
    BY <1>3, <1>4, <1>5 DEF Caught, End, TypeOK, callVars, Ended
  <2>2. OneLiveAttempt' /\ NoReplay' /\ AttemptDiscipline'
    BY <1>1, <1>5 DEF Caught, End, AbortAttempt, Settle, TypeOK, OneLiveAttempt,
                      NoReplay, AttemptDiscipline, Ended, Attempts, callVars
  <2>3. QED
    BY <1>3, <2>1, <2>2
<1>6. CASE CaughtRetry(c)
  <2>1. BackoffDelay(attempt[c]) \in Nat
    BY <1>1, BackoffType
  <2>2. TypeOK'
    BY <1>3, <1>4, <1>6, <2>1 DEF Caught, CaughtRetry, TypeOK, callVars
  <2>3. OneLiveAttempt' /\ NoReplay' /\ AttemptDiscipline'
    BY <1>1, <1>6 DEF Caught, CaughtRetry, AbortAttempt, Settle, TypeOK,
                      OneLiveAttempt, NoReplay, AttemptDiscipline, Attempts,
                      Ended, callVars
  <2>4. QED
    BY <1>3, <2>2, <2>3
<1>7. QED
  BY <1>5, <1>6 DEF Caught, CaughtAborted, CaughtYielded, CaughtExhausted, Outcomes

\* The other answers of the upstream.
LEMMA UpstreamIInv ==
  ASSUME IInv, NEW c \in Calls, Upstream(c)
  PROVE  IInv'
<1> USE PolicyAssumption DEF IInv
<1>1. target[c] \in Providers /\ attempt[c] \in Attempts
  BY DEF TypeOK
<1>2. CASE UpstreamSuccess(c) \/ UpstreamEventThenReturn(c)
  <2>1. circuit' = AfterSuccess(target[c]) \/ circuit' = circuit
    BY <1>2 DEF UpstreamSuccess, UpstreamEventThenReturn
  <2>2. BreakerConsistent' /\ circuit' \in [Providers -> [failures : Nat,
           elapsed : 0..ResetMs, isOpen : BOOLEAN]]
    BY <1>1, <2>1, CircuitUpdates
  <2>3. PICK how \in Outcomes : End(c, how)
    BY <1>2 DEF UpstreamSuccess, UpstreamEventThenReturn, Outcomes
  <2>4. /\ Settle(c) /\ AbortAttempt(c)
        /\ UNCHANGED <<kind, target, callerAborted, returning>>
    BY <1>2 DEF UpstreamSuccess, UpstreamEventThenReturn, callVars
  <2>5. \/ UNCHANGED delivered
        \/ delivered' = [delivered EXCEPT ![c] = @ \cup {attempt[c]}]
    BY <1>2 DEF UpstreamSuccess, UpstreamEventThenReturn
  <2>6. TypeOK'
    <3>1. /\ inflight' \in [Calls -> SUBSET Attempts]
          /\ aborted' \in [Calls -> SUBSET Attempts]
      BY <1>1, <2>4 DEF Settle, AbortAttempt, TypeOK
    <3>2. delivered' \in [Calls -> SUBSET Attempts]
      BY <1>1, <2>5 DEF TypeOK
    <3>3. QED
      BY <2>2, <2>3, <2>4, <3>1, <3>2 DEF End, TypeOK, Ended
  <2>7. OneLiveAttempt' /\ AttemptDiscipline'
    BY <1>1, <2>3, <2>4, <2>5 DEF Settle, AbortAttempt, End, TypeOK, OneLiveAttempt,
                            AttemptDiscipline, Ended, Attempts
  <2>8. NoReplay'
    BY <1>1, <2>3, <2>5 DEF End, TypeOK, NoReplay
  <2>9. QED
    BY <2>2, <2>6, <2>7, <2>8
<1>3. CASE UpstreamEvent(c)
  <2>1. TypeOK'
    BY <1>1, <1>3 DEF UpstreamEvent, TypeOK, callVars
  <2>2. QED
    BY <1>1, <1>3, <2>1 DEF UpstreamEvent, TypeOK, BreakerConsistent,
       OneLiveAttempt, NoReplay, AttemptDiscipline, callVars, Ended
<1>4. CASE UpstreamFailure(c)
  BY <1>4, CaughtIInv DEF UpstreamFailure
<1>5. CASE LateSettle(c)
  <2>1. TypeOK'
    BY <1>5 DEF LateSettle, TypeOK, callVars
  <2>2. QED
    BY <1>5, <2>1 DEF LateSettle, TypeOK, BreakerConsistent, OneLiveAttempt,
       NoReplay, AttemptDiscipline, callVars
<1>6. QED
  BY <1>2, <1>3, <1>4, <1>5 DEF Upstream

\* Timers: an attempt times out or a backoff is over.
LEMMA TimersIInv ==
  ASSUME IInv, NEW c \in Calls, Timers(c)
  PROVE  IInv'
<1> USE PolicyAssumption DEF IInv
<1>1. CASE AttemptTimeout(c)
  BY <1>1, CaughtIInv DEF AttemptTimeout
<1>2. CASE WakeUp(c)
  <2>1. attempt[c] + 1 \in Attempts /\ delivered[c] = {}
    BY <1>2 DEF WakeUp, TypeOK, AttemptDiscipline, NoReplay, Attempts
  <2>2. TypeOK'
    BY <1>2, <2>1 DEF WakeUp, StartAttempt, TypeOK, callVars
  <2>3. OneLiveAttempt' /\ NoReplay' /\ AttemptDiscipline'
    BY <1>2, <2>1 DEF WakeUp, StartAttempt, TypeOK, OneLiveAttempt, NoReplay,
                      AttemptDiscipline, Attempts, callVars, Ended
  <2>4. BreakerConsistent'
    BY <1>2 DEF WakeUp, BreakerConsistent
  <2>5. QED
    BY <2>2, <2>3, <2>4
<1>3. QED
  BY <1>1, <1>2 DEF Timers

\* The caller's moves.
LEMMA CallerIInv ==
  ASSUME IInv, NEW c \in Calls, Caller(c)
  PROVE  IInv'
<1> USE PolicyAssumption DEF IInv
<1>1. CASE CallerAbort(c) \/ Cancel(c)
  <2>1. /\ UNCHANGED <<circuit, pc, kind, target, attempt, timer, inflight,
                       aborted, delivered, outcome>>
        /\ callerAborted' \in [Calls -> BOOLEAN]
        /\ returning' \in [Calls -> BOOLEAN]
    BY <1>1 DEF CallerAbort, Cancel, callVars, TypeOK
  <2>2. QED
    BY <2>1 DEF TypeOK, BreakerConsistent, OneLiveAttempt, NoReplay, AttemptDiscipline
<1>2. CASE ConsumerNext(c)
  BY <1>2 DEF ConsumerNext, TypeOK, BreakerConsistent, OneLiveAttempt, NoReplay,
              AttemptDiscipline, callVars, Ended
<1>3. CASE ConsumerReturn(c)
  <2>1. TypeOK'
    BY <1>3 DEF ConsumerReturn, Settle, AbortAttempt, End, TypeOK, callVars, Ended,
                Outcomes
  <2>2. QED
    BY <1>3, <2>1 DEF ConsumerReturn, Settle, AbortAttempt, End, TypeOK,
       BreakerConsistent, OneLiveAttempt, NoReplay, AttemptDiscipline, callVars,
       Ended, Attempts
<1>4. QED
  BY <1>1, <1>2, <1>3 DEF Caller

\* A tick moves clocks and nothing else.
LEMMA TickIInv ==
  ASSUME IInv, Tick
  PROVE  IInv'
<1> USE PolicyAssumption DEF IInv
<1>1. TypeOK'
  <2>1. \A p \in Providers :
          [circuit[p] EXCEPT !.elapsed = IF @ < ResetMs THEN @ + 1 ELSE @]
            \in [failures : Nat, elapsed : 0..ResetMs, isOpen : BOOLEAN]
    <3>1. TAKE p \in Providers
    <3>2. /\ circuit[p] = [failures |-> circuit[p].failures,
                           elapsed |-> circuit[p].elapsed,
                           isOpen |-> circuit[p].isOpen]
          /\ circuit[p].failures \in Nat
          /\ circuit[p].elapsed \in 0..ResetMs
          /\ circuit[p].isOpen \in BOOLEAN
      BY DEF TypeOK
    <3>3. (IF circuit[p].elapsed < ResetMs THEN circuit[p].elapsed + 1
           ELSE circuit[p].elapsed) \in 0..ResetMs
      BY <3>2
    <3>4. QED
      BY <3>2, <3>3
  <2>2. \A c \in Calls : (IF timer[c] > 0 THEN timer[c] - 1 ELSE timer[c]) \in Nat
    BY DEF TypeOK
  <2>3. QED
    BY <2>1, <2>2 DEF Tick, TypeOK, callVars
<1>2. BreakerConsistent'
  BY DEF Tick, TypeOK, BreakerConsistent
<1>3. OneLiveAttempt' /\ NoReplay' /\ AttemptDiscipline'
  BY DEF Tick, callVars, OneLiveAttempt, NoReplay, AttemptDiscipline
<1>4. QED
  BY <1>1, <1>2, <1>3

\* Every step keeps the invariant.
LEMMA NextIInv == IInv /\ [Next]_vars => IInv'
<1> SUFFICES ASSUME IInv, [Next]_vars PROVE IInv'
  OBVIOUS
<1>1. CASE Tick
  BY <1>1, TickIInv
<1>2. ASSUME NEW c \in Calls, Invoke(c) \/ Upstream(c) \/ Timers(c) \/ Caller(c)
      PROVE  IInv'
  BY <1>2, InvokeIInv, UpstreamIInv, TimersIInv, CallerIInv
<1>3. CASE UNCHANGED vars
  BY <1>3 DEF vars, callVars, IInv, TypeOK, BreakerConsistent, OneLiveAttempt,
     NoReplay, AttemptDiscipline
<1>4. QED
  BY <1>1, <1>2, <1>3 DEF Next

-----------------------------------------------------------------------------
\* What a step that is neither an entry nor the caller's leaves of the calls: an
\* ended call stays as it is, what was delivered stays delivered, and an attempt
\* that has delivered something stays the current one.
LEMMA CallsAdvance ==
  ASSUME IInv, NEW c \in Calls,
         \/ UpstreamSuccess(c) \/ UpstreamFailure(c) \/ UpstreamEventThenReturn(c)
         \/ UpstreamEvent(c) \/ LateSettle(c) \/ Timers(c)
  PROVE  /\ UNCHANGED <<kind, target, callerAborted, returning>>
         /\ \A d \in Calls :
              /\ pc[d] = Ended =>
                    pc'[d] = Ended /\ attempt'[d] = attempt[d] /\ outcome'[d] = outcome[d]
              /\ delivered[d] \subseteq delivered'[d]
              /\ attempt[d] \in delivered[d] => attempt'[d] = attempt[d]
              /\ outcome'[d] = "ok" => outcome[d] = "ok" \/ UpstreamSuccess(c)
<1> USE DEF IInv, TypeOK, callVars
<1>1. CASE UpstreamSuccess(c) \/ UpstreamEventThenReturn(c)
  <2>1. /\ pc[c] # Ended
        /\ \/ UpstreamSuccess(c) /\ End(c, "ok")
           \/ End(c, "returned")
    BY <1>1 DEF UpstreamSuccess, UpstreamEventThenReturn, Ended
  <2>2. \/ UNCHANGED delivered
        \/ delivered' = [delivered EXCEPT ![c] = @ \cup {attempt[c]}]
    BY <1>1 DEF UpstreamSuccess, UpstreamEventThenReturn
  <2>3. UNCHANGED <<kind, target, callerAborted, returning>>
    BY <1>1 DEF UpstreamSuccess, UpstreamEventThenReturn
  <2>4. QED
    BY <2>1, <2>2, <2>3 DEF End
<1>2. CASE UpstreamEvent(c)
  BY <1>2 DEF UpstreamEvent, Ended
<1>3. CASE LateSettle(c)
  BY <1>3 DEF LateSettle
<1>4. CASE UpstreamFailure(c) \/ AttemptTimeout(c)
  <2>1. pc[c] # Ended /\ Caught(c)
    BY <1>4 DEF UpstreamFailure, AttemptTimeout, Ended
  <2>2. UNCHANGED <<kind, target, callerAborted, returning, delivered, attempt>>
    BY <2>1 DEF Caught, CaughtAborted, CaughtYielded, CaughtRetry, CaughtExhausted, End
  <2>3. \/ End(c, "abort") \/ End(c, "failed")
        \/ pc' = [pc EXCEPT ![c] = "sleeping"] /\ UNCHANGED outcome
    BY <2>1 DEF Caught, CaughtAborted, CaughtYielded, CaughtRetry, CaughtExhausted
  <2>4. QED
    BY <2>1, <2>2, <2>3 DEF End
<1>5. CASE WakeUp(c)
  BY <1>5 DEF WakeUp, StartAttempt, AttemptDiscipline, Ended
<1>6. QED
  BY <1>1, <1>2, <1>3, <1>4, <1>5 DEF Timers

\* What a step of a call does to the upstream operations of the calls: attempts
\* only go up, what is started is a later attempt, and an ended call starts
\* nothing.
LEMMA AttemptsAdvance ==
  ASSUME IInv, NEW c \in Calls, Upstream(c) \/ Timers(c) \/ Caller(c)
  PROVE  /\ UNCHANGED <<kind, target>>
         /\ \A d \in Calls :
              /\ attempt[d] <= attempt'[d]
              /\ \A k \in inflight'[d] : k \in inflight[d] \/ k > attempt[d]
              /\ pc[d] = Ended => inflight'[d] \subseteq inflight[d]
<1> USE DEF IInv, TypeOK, callVars, Attempts
<1>1. CASE UpstreamSuccess(c) \/ UpstreamEventThenReturn(c) \/ ConsumerReturn(c)
  <2>1. /\ UNCHANGED <<kind, target, attempt>>
        /\ inflight' = [inflight EXCEPT ![c] = @ \ {attempt[c]}]
    BY <1>1 DEF UpstreamSuccess, UpstreamEventThenReturn, ConsumerReturn, Settle, End
  <2>2. \A d \in Calls : inflight'[d] \subseteq inflight[d] /\ attempt[d] <= attempt'[d]
    BY <2>1
  <2>3. QED
    BY <2>1, <2>2
<1>2. CASE UpstreamEvent(c) \/ CallerAbort(c) \/ ConsumerNext(c) \/ Cancel(c)
  BY <1>2 DEF UpstreamEvent, CallerAbort, ConsumerNext, Cancel
<1>3. CASE LateSettle(c)
  BY <1>3 DEF LateSettle
<1>4. CASE UpstreamFailure(c) \/ AttemptTimeout(c)
  <2>1. UNCHANGED <<kind, target, attempt>>
    BY <1>4 DEF UpstreamFailure, AttemptTimeout, Caught, CaughtAborted, CaughtYielded,
                CaughtRetry, CaughtExhausted, End
  <2>2. inflight' = [inflight EXCEPT ![c] = @ \ {attempt[c]}] \/ UNCHANGED inflight
    BY <1>4 DEF UpstreamFailure, AttemptTimeout, Settle
  <2>3. \A d \in Calls : inflight'[d] \subseteq inflight[d] /\ attempt[d] <= attempt'[d]
    BY <2>1, <2>2
  <2>4. QED
    BY <2>1, <2>3
<1>5. CASE WakeUp(c)
  BY <1>5 DEF WakeUp, StartAttempt, Ended
<1>6. QED
  BY <1>1, <1>2, <1>3, <1>4, <1>5 DEF Upstream, Timers, Caller

\* Only its answer or its failure settles an operation of a call that is no
\* stream: a timeout, a retry or the caller leave it running.
LEMMA OnceIsNotSettled ==
  ASSUME IInv, NEW c \in Calls,
         UpstreamEvent(c) \/ UpstreamEventThenReturn(c) \/ Timers(c) \/ Caller(c)
  PROVE  \A d \in Calls : kind[d] = "once" => inflight[d] \subseteq inflight'[d]
<1> USE DEF IInv, TypeOK
<1>1. CASE UpstreamEventThenReturn(c) \/ ConsumerReturn(c)
  <2>1. kind[c] = "stream"
    BY <1>1 DEF UpstreamEventThenReturn, ConsumerReturn, AttemptDiscipline
  <2>2. QED
    BY <1>1, <2>1 DEF UpstreamEventThenReturn, ConsumerReturn, Settle
<1>2. CASE UpstreamEvent(c) \/ CallerAbort(c) \/ ConsumerNext(c) \/ Cancel(c) \/ AttemptTimeout(c)
  BY <1>2 DEF UpstreamEvent, CallerAbort, ConsumerNext, Cancel, AttemptTimeout
<1>3. CASE WakeUp(c)
  BY <1>3 DEF WakeUp
<1>4. QED
  BY <1>1, <1>2, <1>3 DEF Timers, Caller

-----------------------------------------------------------------------------
\* The invariant holds in every state.
LEMMA Invariant == Spec => []IInv
  BY InitIInv, NextIInv, PTL DEF Spec

\* Every variable keeps its type; in particular no call passes its last attempt.
THEOREM TypeCorrect == Spec => []TypeOK
<1>1. IInv => TypeOK
  BY DEF IInv
<1>2. QED
  BY <1>1, Invariant, PTL

\* The breaker's flag and its failure counter never disagree.
THEOREM BreakerIsConsistent == Spec => []BreakerConsistent
<1>1. IInv => BreakerConsistent
  BY DEF IInv
<1>2. QED
  BY <1>1, Invariant, PTL

\* A call never has two live upstream operations, an ended call none.
THEOREM AtMostOneLiveAttempt == Spec => []OneLiveAttempt
<1>1. IInv => OneLiveAttempt
  BY DEF IInv
<1>2. QED
  BY <1>1, Invariant, PTL

\* A consumer is handed the events of one attempt only.
THEOREM NothingIsReplayed == Spec => []NoReplay
<1>1. IInv => NoReplay
  BY DEF IInv
<1>2. QED
  BY <1>1, Invariant, PTL

-----------------------------------------------------------------------------
(* Action property. *)

\* onFailure counts one failure, of its own provider.
LEMMA FailureAddsOne ==
  ASSUME TypeOK, NEW p \in Providers, NEW q \in Providers,
         circuit' = AfterFailure(q)
  PROVE  circuit'[p].failures > circuit[p].failures =>
             p = q /\ circuit'[p].failures = circuit[p].failures + 1
  BY DEF TypeOK, AfterFailure

\* onSuccess and the check before an attempt count no failure.
LEMMA NoFailureAdded ==
  ASSUME TypeOK, NEW p \in Providers, NEW q \in Providers,
         \/ circuit' = AfterCheck(q)
         \/ circuit' = AfterSuccess(q)
         \/ circuit' = circuit
  PROVE  ~(circuit'[p].failures > circuit[p].failures)
<1>1. circuit[p].failures \in Nat /\ circuit[q].failures \in Nat
  BY DEF TypeOK
<1>2. Closed(circuit[q]).failures = 0
  BY DEF Closed
<1>3. \/ circuit' = [circuit EXCEPT ![q] = Closed(circuit[q])]
      \/ circuit' = circuit
  BY DEF AfterCheck, AfterSuccess
<1>4. (circuit'[p] = Closed(circuit[q]) /\ p = q) \/ circuit'[p] = circuit[p]
  BY <1>3 DEF TypeOK
<1>5. QED
  BY <1>1, <1>2, <1>4

\* A caught failure charges the provider of the attempt that ended.
LEMMA CaughtCharges ==
  ASSUME IInv, NEW c \in Calls, pc[c] = "running", Caught(c)
  PROVE  ChargesOneAttempt
<1> SUFFICES ASSUME NEW p \in Providers,
                    circuit'[p].failures > circuit[p].failures
             PROVE  /\ circuit'[p].failures = circuit[p].failures + 1
                    /\ \E d \in Calls :
                          /\ target[d] = p
                          /\ ~callerAborted[d]
                          /\ attempt[d] \notin aborted[d]
                          /\ attempt[d] \in aborted'[d]
  BY DEF ChargesOneAttempt
<1>1. TypeOK /\ target[c] \in Providers /\ circuit[p].failures \in Nat
  BY DEF IInv, TypeOK
<1>2. circuit' # circuit
  BY <1>1
<1>3. circuit' = AfterFailure(target[c]) /\ ~callerAborted[c]
  BY <1>2 DEF Caught, CaughtAborted, CaughtYielded, CaughtRetry, CaughtExhausted
<1>4. p = target[c] /\ circuit'[p].failures = circuit[p].failures + 1
  BY <1>1, <1>3, FailureAddsOne
<1>5. attempt[c] \notin aborted[c] /\ attempt[c] \in aborted'[c]
  BY DEF IInv, AttemptDiscipline, Caught, AbortAttempt, TypeOK
<1>6. QED
  BY <1>3, <1>4, <1>5

\* Every step charges as ChargesOneAttempt says.
LEMMA NextCharges == IInv /\ [Next]_vars => [ChargesOneAttempt]_vars
<1> SUFFICES ASSUME IInv, Next PROVE ChargesOneAttempt
  OBVIOUS
<1>1. TypeOK
  BY DEF IInv
<1>2. ASSUME NEW q \in Providers,
             circuit' = AfterCheck(q) \/ circuit' = AfterSuccess(q) \/ circuit' = circuit
      PROVE  ChargesOneAttempt
  BY <1>1, <1>2, NoFailureAdded DEF ChargesOneAttempt
<1>3. CASE Tick
  <2>1. \A p \in Providers : circuit'[p].failures = circuit[p].failures
                            /\ circuit[p].failures \in Nat
    BY <1>1, <1>3 DEF Tick, TypeOK
  <2>2. QED
    BY <2>1 DEF ChargesOneAttempt
<1>4. ASSUME NEW c \in Calls, Invoke(c) \/ Upstream(c) \/ Timers(c) \/ Caller(c)
      PROVE  ChargesOneAttempt
  <2>1. target[c] \in Providers
    BY <1>1 DEF TypeOK
  <2>2. CASE Invoke(c)
    <3>1. PICK p \in Providers, kd \in Kinds :
             Admit(c, p, kd) \/ AdmitAborted(c, p, kd) \/ Refuse(c, p, kd)
      BY <2>2 DEF Invoke
    <3>2. circuit' = AfterCheck(p) \/ circuit' = circuit
      BY <3>1 DEF Admit, AdmitAborted, Refuse
    <3>3. QED
      BY <1>2, <3>2
  <2>3. CASE UpstreamFailure(c) \/ AttemptTimeout(c)
    BY <2>3, CaughtCharges DEF UpstreamFailure, AttemptTimeout
  <2>4. CASE UpstreamSuccess(c)
    BY <1>2, <2>1, <2>4 DEF UpstreamSuccess
  <2>5. CASE \/ UpstreamEvent(c) \/ UpstreamEventThenReturn(c) \/ LateSettle(c)
             \/ WakeUp(c) \/ Caller(c)
    <3>1. UNCHANGED circuit
      BY <2>5 DEF UpstreamEvent, UpstreamEventThenReturn, LateSettle, WakeUp,
                  Caller, CallerAbort, ConsumerNext, ConsumerReturn, Cancel
    <3>2. QED
      BY <1>2, <2>1, <3>1
  <2>6. QED
    BY <1>4, <2>2, <2>3, <2>4, <2>5 DEF Upstream, Timers
<1>5. QED
  BY <1>3, <1>4 DEF Next

\* A provider's failure count rises by one for one attempt that is over, and
\* never for a call whose caller has aborted.
THEOREM FailuresCharged == Spec => FailuresAreCharged
  BY Invariant, NextCharges, PTL DEF Spec, FailuresAreCharged

-----------------------------------------------------------------------------
(* How far concurrent failures can drive a breaker's count. *)

\* There are as many attempts to come as there are calls and retries, at most.
LEMMA AttemptsAreFew ==
  ASSUME NEW S, S \subseteq Calls \X Attempts
  PROVE  /\ IsFiniteSet(S)
         /\ Cardinality(S) \in Nat
         /\ Cardinality(S) <= Cardinality(Calls) * (MaxRetries + 1)
         /\ Cardinality(Calls) * (MaxRetries + 1) \in Nat
<1>1. MaxRetries \in Nat /\ IsFiniteSet(Calls)
  BY PolicyAssumption
<1>2. IsFiniteSet(Attempts) /\ Cardinality(Attempts) = MaxRetries + 1
  BY <1>1, FS_Interval DEF Attempts
<1>3. /\ IsFiniteSet(Calls \X Attempts)
      /\ Cardinality(Calls \X Attempts) = Cardinality(Calls) * (MaxRetries + 1)
  BY <1>1, <1>2, FS_Product
<1>4. IsFiniteSet(S) /\ Cardinality(S) <= Cardinality(Calls \X Attempts)
  BY <1>3, FS_Subset
<1>5. Cardinality(S) \in Nat /\ Cardinality(Calls \X Attempts) \in Nat
  BY <1>3, <1>4, FS_CardinalityType
<1>6. QED
  BY <1>3, <1>4, <1>5

\* What a step may do to the count of provider p: the count is low afterwards,
\* or no attempt at p has been added, and a failure has used one up.
Bounded(p) ==
    \/ circuit'[p].failures <= Threshold - 1
    \/ /\ circuit'[p].failures = circuit[p].failures
       /\ AttemptsLeft(p)' \subseteq AttemptsLeft(p)
    \/ /\ circuit'[p].failures = circuit[p].failures + 1
       /\ \E s \in AttemptsLeft(p) : AttemptsLeft(p)' \subseteq AttemptsLeft(p) \ {s}

\* A failure that is counted uses up an attempt: the bound is kept.
LEMMA BoundedKeeps ==
  ASSUME TypeOK, TypeOK', FailuresBounded, NEW p \in Providers, Bounded(p)
  PROVE  circuit'[p].failures + Cardinality(AttemptsLeft(p)')
            <= (Threshold - 1) + Cardinality(Calls) * (MaxRetries + 1)
<1> DEFINE room == Cardinality(Calls) * (MaxRetries + 1)
           S == AttemptsLeft(p)
           T == AttemptsLeft(p)'
<1>1. Threshold \in Nat \ {0}
  BY PolicyAssumption
<1>2. circuit[p].failures \in Nat /\ circuit'[p].failures \in Nat
  BY DEF TypeOK
<1>3. /\ IsFiniteSet(S) /\ Cardinality(S) \in Nat
      /\ IsFiniteSet(T) /\ Cardinality(T) \in Nat /\ Cardinality(T) <= room
      /\ room \in Nat
  <2>1. S \subseteq Calls \X Attempts /\ T \subseteq Calls \X Attempts
    BY DEF AttemptsLeft
  <2>2. QED
    BY <2>1, AttemptsAreFew
<1>4. circuit[p].failures + Cardinality(S) <= (Threshold - 1) + room
  BY DEF FailuresBounded
<1>5. CASE circuit'[p].failures <= Threshold - 1
  <2> HIDE DEF room, S, T
  <2>1. QED
    BY <1>1, <1>2, <1>3, <1>5 DEF T, room
<1>6. CASE circuit'[p].failures = circuit[p].failures /\ T \subseteq S
  <2>1. Cardinality(T) <= Cardinality(S)
    BY <1>3, <1>6, FS_Subset
  <2> HIDE DEF room, S, T
  <2>2. circuit'[p].failures + Cardinality(T) <= (Threshold - 1) + room
    BY <1>1, <1>2, <1>3, <1>4, <1>6, <2>1
  <2>3. QED
    BY <2>2 DEF T, room
<1>7. ASSUME NEW s \in S, T \subseteq S \ {s},
             circuit'[p].failures = circuit[p].failures + 1
      PROVE  circuit'[p].failures + Cardinality(T) <= (Threshold - 1) + room
  <2>1. IsFiniteSet(S \ {s}) /\ Cardinality(S \ {s}) = Cardinality(S) - 1
    BY <1>3, FS_RemoveElement
  <2>2. Cardinality(T) <= Cardinality(S) - 1
    BY <1>7, <2>1, FS_Subset
  <2> HIDE DEF room, S, T
  <2>3. QED
    BY <1>1, <1>2, <1>3, <1>4, <1>7, <2>2
<1>8. QED
  BY <1>5, <1>6, <1>7 DEF Bounded

\* A call is over, or goes on with what it had left: no attempt is added.
LEMMA NoneAdded ==
  ASSUME TypeOK, NEW c \in Calls, UNCHANGED target,
         \A d \in Calls \ {c} : pc'[d] = pc[d] /\ attempt'[d] = attempt[d],
         \/ pc'[c] = Ended
         \/ \A k \in Attempts : MayRun(c, k)' => MayRun(c, k),
         NEW p \in Providers
  PROVE  AttemptsLeft(p)' \subseteq AttemptsLeft(p)
<1> SUFFICES ASSUME NEW s \in Calls \X Attempts, target[s[1]] = p, MayRun(s[1], s[2])'
             PROVE  MayRun(s[1], s[2])
  BY DEF AttemptsLeft
<1>1. s[1] \in Calls /\ s[2] \in Attempts
  OBVIOUS
<1>2. CASE s[1] = c
  BY <1>1, <1>2 DEF MayRun, Ended
<1>3. CASE s[1] # c
  BY <1>1, <1>3 DEF MayRun
<1>4. QED
  BY <1>2, <1>3

\* An invocation takes a count below the threshold with it, or adds no attempt.
LEMMA InvokeBounded ==
  ASSUME IInv, NEW c \in Calls, Invoke(c), NEW q \in Providers
  PROVE  Bounded(q)
<1> USE DEF IInv
<1>1. PICK p \in Providers, kd \in Kinds :
         Admit(c, p, kd) \/ AdmitAborted(c, p, kd) \/ Refuse(c, p, kd)
  BY DEF Invoke
<1>2. /\ target' = [target EXCEPT ![c] = p] /\ pc[c] = Ended
      /\ \A d \in Calls \ {c} : /\ target'[d] = target[d]
                                /\ pc'[d] = pc[d]
                                /\ attempt'[d] = attempt[d]
  BY <1>1 DEF Admit, AdmitAborted, Refuse, Enter, StartAttempt, End, TypeOK
<1>3. CASE target'[c] # q \/ pc'[c] = Ended
  <2>1. AttemptsLeft(q)' \subseteq AttemptsLeft(q)
    <3> SUFFICES ASSUME NEW s \in Calls \X Attempts, target'[s[1]] = q,
                        MayRun(s[1], s[2])'
                 PROVE  target[s[1]] = q /\ MayRun(s[1], s[2])
      BY DEF AttemptsLeft
    <3>1. s[1] \in Calls /\ s[1] # c
      BY <1>3 DEF MayRun, Ended
    <3>2. QED
      BY <1>2, <3>1 DEF MayRun
  <2>2. CASE circuit' = circuit
    BY <2>1, <2>2 DEF Bounded
  <2>3. CASE circuit' = AfterCheck(p) /\ circuit' # circuit
    <3>1. circuit' = [circuit EXCEPT ![p] = Closed(circuit[p])]
      BY <2>3 DEF AfterCheck
    <3>2. circuit'[q].failures = circuit[q].failures \/ circuit'[q].failures = 0
      BY <3>1 DEF TypeOK, Closed
    <3>3. QED
      BY <2>1, <3>2, PolicyAssumption DEF Bounded
  <2>4. QED
    BY <1>1, <2>2, <2>3 DEF Admit, AdmitAborted, Refuse
<1>4. CASE target'[c] = q /\ pc'[c] # Ended
  <2>1. p = q /\ circuit' = AfterCheck(q)
    <3>1. p = q
      BY <1>2, <1>4 DEF TypeOK
    <3>2. Admit(c, p, kd)
      BY <1>1, <1>4 DEF AdmitAborted, Refuse, End, TypeOK
    <3>3. QED
      BY <3>1, <3>2 DEF Admit
  <2>2. CASE circuit[q].isOpen
    <3>1. circuit'[q].failures = 0
      BY <2>1, <2>2 DEF AfterCheck, Closed, TypeOK
    <3>2. QED
      BY <3>1, PolicyAssumption DEF Bounded
  <2>3. CASE ~circuit[q].isOpen
    <3>1. circuit' = circuit /\ circuit[q].failures \in Nat
      BY <2>1, <2>3 DEF AfterCheck, TypeOK
    <3>2. ~(circuit[q].failures >= Threshold)
      BY <2>3 DEF BreakerConsistent
    <3>3. QED
      BY <3>1, <3>2, PolicyAssumption DEF Bounded
  <2>4. QED
    BY <2>2, <2>3
<1>5. QED
  BY <1>3, <1>4

\* A failure that counts uses up the attempt that failed.
LEMMA CaughtBounded ==
  ASSUME IInv, NEW c \in Calls, pc[c] = "running", Caught(c), NEW q \in Providers
  PROVE  Bounded(q)
<1> USE DEF IInv
<1>1. /\ UNCHANGED target /\ target[c] \in Providers
      /\ attempt' = attempt /\ attempt[c] \in Attempts
      /\ \A d \in Calls \ {c} : pc'[d] = pc[d]
      /\ pc'[c] \in {Ended, "sleeping"}
  BY DEF Caught, CaughtAborted, CaughtYielded, CaughtRetry, CaughtExhausted, End,
         callVars, TypeOK
<1>2. ASSUME NEW k \in Attempts, MayRun(c, k)'
      PROVE  MayRun(c, k) /\ k # attempt[c]
  BY <1>1, <1>2, PolicyAssumption DEF MayRun, Ended, Attempts
<1>3. AttemptsLeft(q)' \subseteq AttemptsLeft(q)
  BY <1>1, <1>2, NoneAdded
<1>4. CASE circuit' = circuit
  BY <1>3, <1>4 DEF Bounded
<1>5. CASE circuit' = AfterFailure(target[c])
  <2>1. CASE q # target[c]
    BY <1>1, <1>3, <1>5, <2>1 DEF AfterFailure, Bounded, TypeOK
  <2>2. CASE q = target[c]
    <3> DEFINE s == <<c, attempt[c]>>
    <3>1. circuit'[q].failures = circuit[q].failures + 1
      BY <1>1, <1>5, <2>2 DEF AfterFailure, TypeOK
    <3>2. s \in AttemptsLeft(q)
      BY <1>1, <2>2, PolicyAssumption DEF AttemptsLeft, MayRun, Attempts
    <3>3. s \notin AttemptsLeft(q)'
      BY <1>1, <1>2 DEF AttemptsLeft
    <3>4. QED
      BY <1>3, <3>1, <3>2, <3>3 DEF Bounded
  <2>3. QED
    BY <2>1, <2>2
<1>6. QED
  BY <1>4, <1>5 DEF Caught, CaughtAborted, CaughtYielded, CaughtRetry, CaughtExhausted

\* No other step adds an attempt or a failure.
LEMMA NextBounded ==
  ASSUME IInv, [Next]_vars, NEW q \in Providers
  PROVE  Bounded(q)
<1> USE DEF IInv
<1>1. CASE UNCHANGED vars
  BY <1>1 DEF vars, Bounded, AttemptsLeft, MayRun
<1>2. CASE Tick
  <2>1. circuit'[q].failures = circuit[q].failures
    BY <1>2 DEF Tick, TypeOK
  <2>2. AttemptsLeft(q)' = AttemptsLeft(q)
    BY <1>2 DEF Tick, callVars, AttemptsLeft, MayRun
  <2>3. QED
    BY <2>1, <2>2 DEF Bounded
<1>3. ASSUME NEW c \in Calls, UpstreamSuccess(c)
      PROVE  Bounded(q)
  <2>1. /\ UNCHANGED target /\ pc'[c] = Ended /\ attempt' = attempt
        /\ \A d \in Calls \ {c} : pc'[d] = pc[d]
        /\ circuit' = [circuit EXCEPT ![target[c]] = Closed(circuit[target[c]])]
    BY <1>3 DEF UpstreamSuccess, AfterSuccess, End, callVars, TypeOK
  <2>2. circuit'[q].failures = circuit[q].failures \/ circuit'[q].failures = 0
    BY <2>1 DEF TypeOK, Closed
  <2>3. AttemptsLeft(q)' \subseteq AttemptsLeft(q)
    BY <2>1, NoneAdded
  <2>4. QED
    BY <2>2, <2>3, PolicyAssumption DEF Bounded
<1>4. ASSUME NEW c \in Calls, UNCHANGED <<circuit, target>>,
             \A d \in Calls \ {c} : pc'[d] = pc[d] /\ attempt'[d] = attempt[d],
             pc'[c] = Ended \/ \A k \in Attempts : MayRun(c, k)' => MayRun(c, k)
      PROVE  Bounded(q)
  BY <1>4, NoneAdded DEF Bounded
<1>5. ASSUME NEW c \in Calls, UpstreamEventThenReturn(c) \/ ConsumerReturn(c)
      PROVE  Bounded(q)
  BY <1>4, <1>5 DEF UpstreamEventThenReturn, ConsumerReturn, End, callVars, TypeOK
<1>6. ASSUME NEW c \in Calls,
             \/ UpstreamEvent(c) \/ LateSettle(c) \/ CallerAbort(c) \/ ConsumerNext(c)
             \/ Cancel(c)
      PROVE  Bounded(q)
  <2>1. /\ UNCHANGED <<circuit, target, attempt>>
        /\ \A d \in Calls \ {c} : pc'[d] = pc[d]
        /\ \/ pc'[c] = pc[c]
           \/ {pc[c], pc'[c]} \subseteq {"running", "suspended"}
    BY <1>6 DEF UpstreamEvent, LateSettle, CallerAbort, ConsumerNext, Cancel, callVars,
                TypeOK
  <2>2. \A k \in Attempts : MayRun(c, k)' => MayRun(c, k)
    BY <2>1 DEF MayRun
  <2>3. QED
    BY <1>4, <2>1, <2>2
<1>7. ASSUME NEW c \in Calls, WakeUp(c)
      PROVE  Bounded(q)
  <2>1. /\ UNCHANGED <<circuit, target>>
        /\ pc[c] = "sleeping" /\ pc'[c] = "running"
        /\ attempt'[c] = attempt[c] + 1
        /\ \A d \in Calls \ {c} : pc'[d] = pc[d] /\ attempt'[d] = attempt[d]
    BY <1>7 DEF WakeUp, StartAttempt, callVars, TypeOK
  <2>2. attempt[c] \in Nat /\ Attempts \subseteq Nat
    BY PolicyAssumption DEF TypeOK, Attempts
  <2>3. \A k \in Attempts : MayRun(c, k)' => MayRun(c, k)
    BY <2>1, <2>2 DEF MayRun
  <2>4. QED
    BY <1>4, <2>1, <2>3
<1>8. ASSUME NEW c \in Calls, UpstreamFailure(c) \/ AttemptTimeout(c)
      PROVE  Bounded(q)
  BY <1>8, CaughtBounded DEF UpstreamFailure, AttemptTimeout
<1>9. QED
  BY <1>1, <1>2, <1>3, <1>5, <1>6, <1>7, <1>8, InvokeBounded
  DEF Next, Upstream, Timers, Caller

\* Before the first call no failure has been counted.
LEMMA InitBounded == Init => FailuresBounded
<1> SUFFICES ASSUME Init, NEW p \in Providers
             PROVE  circuit[p].failures + Cardinality(AttemptsLeft(p))
                       <= (Threshold - 1) + Cardinality(Calls) * (MaxRetries + 1)
  BY DEF FailuresBounded
<1>1. circuit[p].failures = 0
  BY DEF Init, ClosedCircuit
<1>2. AttemptsLeft(p) \subseteq Calls \X Attempts
  BY DEF AttemptsLeft
<1>3. /\ Cardinality(AttemptsLeft(p)) \in Nat
      /\ Cardinality(AttemptsLeft(p)) <= Cardinality(Calls) * (MaxRetries + 1)
      /\ Cardinality(Calls) * (MaxRetries + 1) \in Nat
  BY <1>2, AttemptsAreFew
<1>4. QED
  BY <1>1, <1>3, PolicyAssumption

\* However many calls are in flight when a provider begins to fail, its count
\* stays within the attempts that had been let through.
THEOREM FailureCountIsBounded == Spec => []FailuresBounded
<1>1. IInv /\ IInv' /\ FailuresBounded /\ [Next]_vars => FailuresBounded'
  <2> SUFFICES ASSUME IInv, IInv', FailuresBounded, [Next]_vars, NEW p \in Providers
               PROVE  circuit'[p].failures + Cardinality(AttemptsLeft(p)')
                         <= (Threshold - 1) + Cardinality(Calls) * (MaxRetries + 1)
    BY DEF FailuresBounded
  <2>1. QED
    BY NextBounded, BoundedKeeps DEF IInv
<1>2. QED
  BY <1>1, InitBounded, Invariant, PTL DEF Spec

-----------------------------------------------------------------------------
(* Refinement: the policy implements the abstract breaker. *)

\* The abstract picture of each update of a provider's breaker.
LEMMA AbstractUpdates ==
  ASSUME TypeOK, BreakerConsistent, NEW p \in Providers
  PROVE  /\ circuit' = AfterCheck(p) =>
               /\ AbstractBreaker!Set(p, IF absOpen[p] THEN 0 ELSE absStreak[p])
               /\ UNCHANGED absElapsed
         /\ circuit' = AfterSuccess(p) =>
               AbstractBreaker!Set(p, 0) /\ UNCHANGED absElapsed
         /\ circuit' = AfterFailure(p) =>
               /\ AbstractBreaker!Set(p, IF absStreak[p] < Threshold
                                         THEN absStreak[p] + 1 ELSE Threshold)
               /\ absElapsed' = [absElapsed EXCEPT ![p] = 0]
<1> DEFINE Record == [failures : Nat, elapsed : 0..ResetMs, isOpen : BOOLEAN]
<1>1. circuit \in [Providers -> Record] /\ Threshold \in Nat \ {0} /\ ResetMs \in Nat
  BY PolicyAssumption DEF TypeOK
<1>2. \A q \in Providers : circuit[q].isOpen <=> circuit[q].failures >= Threshold
  BY DEF BreakerConsistent
<1>3. ASSUME NEW r, circuit' = [circuit EXCEPT ![p] = r]
      PROVE  /\ absOpen' = [absOpen EXCEPT ![p] = r.isOpen]
             /\ absStreak' = [absStreak EXCEPT ![p] =
                    IF r.failures < Threshold THEN r.failures ELSE Threshold]
             /\ absElapsed' = [absElapsed EXCEPT ![p] = r.elapsed]
  BY <1>1, <1>3 DEF absOpen, absStreak, absElapsed
<1>4. /\ absOpen[p] = circuit[p].isOpen
      /\ absStreak[p] = IF circuit[p].failures < Threshold
                        THEN circuit[p].failures ELSE Threshold
      /\ absElapsed[p] = circuit[p].elapsed
      /\ circuit[p].isOpen \in BOOLEAN
      /\ circuit[p].failures \in Nat
  BY <1>1 DEF absOpen, absStreak, absElapsed
<1>5. ASSUME circuit' = [circuit EXCEPT ![p] = Closed(@)]
      PROVE  AbstractBreaker!Set(p, 0) /\ UNCHANGED absElapsed
  <2> DEFINE r == Closed(circuit[p])
  <2>1. /\ circuit' = [circuit EXCEPT ![p] = r]
        /\ r.failures = 0
        /\ r.isOpen = FALSE
        /\ r.elapsed = circuit[p].elapsed
    BY <1>5 DEF Closed
  <2> HIDE DEF r
  <2>2. /\ absOpen' = [absOpen EXCEPT ![p] = FALSE]
        /\ absStreak' = [absStreak EXCEPT ![p] = 0]
        /\ absElapsed' = [absElapsed EXCEPT ![p] = circuit[p].elapsed]
    <3>1. (IF r.failures < Threshold THEN r.failures ELSE Threshold) = 0
      BY <1>1, <2>1
    <3>2. QED
      BY <1>3, <2>1, <3>1
  <2>3. UNCHANGED absElapsed
    BY <1>4, <2>2 DEF absElapsed
  <2>4. QED
    BY <1>1, <2>2, <2>3 DEF AbstractBreaker!Set
<1>6. ASSUME circuit' = circuit, ~circuit[p].isOpen
      PROVE  AbstractBreaker!Set(p, absStreak[p]) /\ UNCHANGED absElapsed
  <2>1. UNCHANGED <<absOpen, absStreak, absElapsed>>
    BY <1>6 DEF absOpen, absStreak, absElapsed
  <2>2. circuit[p].failures < Threshold
    BY <1>1, <1>2, <1>4, <1>6
  <2>3. absStreak[p] # Threshold /\ absOpen[p] = FALSE
    BY <1>1, <1>4, <1>6, <2>2
  <2>4. /\ absStreak = [absStreak EXCEPT ![p] = absStreak[p]]
        /\ absOpen = [absOpen EXCEPT ![p] = absStreak[p] = Threshold]
    BY <2>3 DEF absStreak, absOpen
  <2>5. QED
    BY <2>1, <2>4 DEF AbstractBreaker!Set
<1>7. ASSUME circuit' = AfterFailure(p)
      PROVE  /\ AbstractBreaker!Set(p, IF absStreak[p] < Threshold
                                       THEN absStreak[p] + 1 ELSE Threshold)
             /\ absElapsed' = [absElapsed EXCEPT ![p] = 0]
  <2> DEFINE n == IF absStreak[p] < Threshold THEN absStreak[p] + 1 ELSE Threshold
             r == [failures |-> circuit[p].failures + 1,
                   elapsed |-> 0,
                   isOpen |-> IF circuit[p].failures + 1 >= Threshold
                              THEN TRUE ELSE circuit[p].isOpen]
  <2>1. circuit' = [circuit EXCEPT ![p] = r]
    BY <1>1, <1>7 DEF AfterFailure
  <2>2. n = IF circuit[p].failures + 1 < Threshold
            THEN circuit[p].failures + 1 ELSE Threshold
    BY <1>1, <1>4
  <2>3. \/ r.isOpen = TRUE /\ n = Threshold
        \/ r.isOpen = FALSE /\ n # Threshold
    <3>1. CASE circuit[p].failures + 1 >= Threshold
      <4>1. r.isOpen = TRUE
        BY <3>1
      <4>2. n = Threshold
        BY <1>1, <1>4, <2>2, <3>1
      <4>3. QED
        BY <4>1, <4>2
    <3>2. CASE ~(circuit[p].failures + 1 >= Threshold)
      <4>1. circuit[p].isOpen = FALSE
        BY <1>1, <1>2, <1>4, <3>2
      <4>2. r.isOpen = FALSE
        BY <3>2, <4>1
      <4>3. n # Threshold
        BY <1>1, <1>4, <2>2, <3>2
      <4>4. QED
        BY <4>2, <4>3
    <3>3. QED
      BY <3>1, <3>2
  <2>4. r.failures = circuit[p].failures + 1 /\ r.elapsed = 0
    OBVIOUS
  <2> HIDE DEF r, n
  <2>5. /\ absOpen' = [absOpen EXCEPT ![p] = n = Threshold]
        /\ absStreak' = [absStreak EXCEPT ![p] = n]
        /\ absElapsed' = [absElapsed EXCEPT ![p] = 0]
    <3>1. /\ absOpen' = [absOpen EXCEPT ![p] = r.isOpen]
          /\ absStreak' = [absStreak EXCEPT ![p] =
                 IF r.failures < Threshold THEN r.failures ELSE Threshold]
          /\ absElapsed' = [absElapsed EXCEPT ![p] = r.elapsed]
      BY <1>3, <2>1
    <3>2. absOpen' = [absOpen EXCEPT ![p] = n = Threshold]
      BY <2>3, <3>1
    <3>3. QED
      BY <2>2, <2>4, <3>1, <3>2
  <2>6. QED
    BY <2>5 DEF AbstractBreaker!Set, n
<1>8. QED
  BY <1>4, <1>5, <1>6, <1>7 DEF AfterCheck, AfterSuccess

\* Closed circuits are the abstract breaker's initial state.
LEMMA InitRefines == Init => AbstractBreaker!Init
<1> SUFFICES ASSUME Init PROVE AbstractBreaker!Init
  OBVIOUS
<1>1. \A p \in Providers : /\ circuit[p].isOpen = FALSE
                           /\ circuit[p].failures = 0
                           /\ circuit[p].elapsed = ResetMs
  BY DEF Init, ClosedCircuit
<1>2. \A c \in Calls : pc[c] = Ended
  BY DEF Init
<1>3. absOpen = [p \in Providers |-> FALSE] /\ absElapsed = [p \in Providers |-> ResetMs]
  BY <1>1 DEF absOpen, absElapsed
<1>4. absStreak = [p \in Providers |-> 0]
  BY <1>1, PolicyAssumption DEF absStreak
<1>5. absServing = [c \in Calls |-> NoProvider]
  BY <1>2 DEF absServing
<1>6. QED
  BY <1>3, <1>4, <1>5 DEF AbstractBreaker!Init

\* The end of a call and the entry of one, seen from the abstract breaker.
LEMMA ServingUpdates ==
  ASSUME TypeOK, TypeOK', NEW c \in Calls
  PROVE  /\ (\E how \in Outcomes : End(c, how)) /\ UNCHANGED target =>
               absServing' = [absServing EXCEPT ![c] = NoProvider]
         /\ \A p \in Providers, kd \in Kinds, k \in Attempts :
               StartAttempt(c, k, kd) /\ target' = [target EXCEPT ![c] = p] =>
                  absServing' = [absServing EXCEPT ![c] = p]
         /\ pc[c] # Ended => absServing[c] = target[c] /\ target[c] # NoProvider
<1>1. /\ pc \in [Calls -> {Ended, "running", "suspended", "sleeping"}]
      /\ target \in [Calls -> Providers]
  BY DEF TypeOK
<1>2. ASSUME NEW how \in Outcomes, End(c, how), UNCHANGED target
      PROVE  absServing' = [absServing EXCEPT ![c] = NoProvider]
  BY <1>1, <1>2 DEF End, absServing
<1>3. ASSUME NEW p \in Providers, NEW kd \in Kinds, NEW k \in Attempts,
             StartAttempt(c, k, kd), target' = [target EXCEPT ![c] = p]
      PROVE  absServing' = [absServing EXCEPT ![c] = p]
  BY <1>1, <1>3 DEF StartAttempt, absServing, Ended
<1>4. pc[c] # Ended => absServing[c] = target[c] /\ target[c] # NoProvider
  BY <1>1, PolicyAssumption DEF absServing
<1>5. QED
  BY <1>2, <1>3, <1>4

\* A caught failure is a failure of the abstract breaker, or silent.
LEMMA CaughtRefines ==
  ASSUME IInv, IInv', NEW c \in Calls, pc[c] = "running", Caught(c)
  PROVE  AbstractBreaker!Failure(c) \/ AbstractBreaker!Silent(c)
<1>1. TypeOK /\ TypeOK' /\ BreakerConsistent /\ target[c] \in Providers
  BY DEF IInv, TypeOK
<1>2. absServing[c] = target[c] /\ target[c] # NoProvider
  BY <1>1, ServingUpdates DEF Ended
<1>3. UNCHANGED target
  BY DEF Caught, callVars
<1>4. CASE CaughtAborted(c)
  <2>1. UNCHANGED circuit /\ \E how \in Outcomes : End(c, how)
    BY <1>4 DEF CaughtAborted, Outcomes
  <2>2. absServing' = [absServing EXCEPT ![c] = NoProvider]
    BY <1>1, <1>3, <2>1, ServingUpdates
  <2>3. UNCHANGED <<absOpen, absStreak, absElapsed>>
    BY <2>1 DEF absOpen, absStreak, absElapsed
  <2>4. QED
    BY <1>2, <2>2, <2>3 DEF AbstractBreaker!Silent, AbstractBreaker!Leave
<1>5. CASE CaughtYielded(c) \/ CaughtExhausted(c) \/ CaughtRetry(c)
  <2>1. circuit' = AfterFailure(target[c])
    BY <1>5 DEF CaughtYielded, CaughtExhausted, CaughtRetry
  <2>2. /\ AbstractBreaker!Set(target[c], IF absStreak[target[c]] < Threshold
                                          THEN absStreak[target[c]] + 1 ELSE Threshold)
        /\ absElapsed' = [absElapsed EXCEPT ![target[c]] = 0]
    BY <1>1, <2>1, AbstractUpdates
  <2>3. absServing' = [absServing EXCEPT ![c] = NoProvider] \/ UNCHANGED absServing
    <3>1. CASE CaughtYielded(c) \/ CaughtExhausted(c)
      <4>1. \E how \in Outcomes : End(c, how)
        BY <3>1 DEF CaughtYielded, CaughtExhausted, Outcomes
      <4>2. QED
        BY <1>1, <1>3, <4>1, ServingUpdates
    <3>2. CASE CaughtRetry(c)
      <4>1. pc' = [pc EXCEPT ![c] = "sleeping"]
        BY <3>2 DEF CaughtRetry
      <4>2. \A d \in Calls : pc'[d] = Ended <=> pc[d] = Ended
        BY <1>1, <4>1 DEF TypeOK, Ended
      <4>3. QED
        BY <1>3, <4>2 DEF absServing
    <3>3. QED
      BY <1>5, <3>1, <3>2
  <2>4. QED
    BY <1>2, <2>2, <2>3 DEF AbstractBreaker!Failure, AbstractBreaker!Leave
<1>6. QED
  BY <1>4, <1>5 DEF Caught

\* An admitted call is admitted by the abstract breaker; a refused one is not
\* seen by it.
LEMMA InvokeRefines ==
  ASSUME IInv, IInv', NEW c \in Calls, Invoke(c)
  PROVE  \/ \E p \in Providers : AbstractBreaker!Admit(c, p)
         \/ UNCHANGED <<absOpen, absStreak, absElapsed, absServing>>
<1>1. PICK p \in Providers, kd \in Kinds :
         Admit(c, p, kd) \/ AdmitAborted(c, p, kd) \/ Refuse(c, p, kd)
  BY DEF Invoke
<1>2. TypeOK /\ TypeOK' /\ BreakerConsistent
  BY DEF IInv
<1>3. /\ pc[c] = Ended
      /\ target' = [target EXCEPT ![c] = p]
  BY <1>1 DEF Admit, AdmitAborted, Refuse, Enter
<1>4. absServing[c] = NoProvider
  BY <1>3 DEF absServing
<1>5. ASSUME Admits(p)
      PROVE  AbstractBreaker!Admissible(p)
  <2>1. circuit[p].elapsed \in 0..ResetMs /\ ResetMs \in Nat
    BY <1>2, PolicyAssumption DEF TypeOK
  <2>2. CASE ~circuit[p].isOpen
    BY <2>2 DEF AbstractBreaker!Admissible, absOpen
  <2>3. CASE circuit[p].elapsed >= ResetMs
    <3>1. circuit[p].elapsed = ResetMs
      BY <2>1, <2>3
    <3>2. QED
      BY <3>1 DEF AbstractBreaker!Admissible, absElapsed
  <2>4. QED
    BY <1>5, <2>2, <2>3 DEF Admits
<1>6. CASE Admit(c, p, kd)
  <2>1. Admits(p) /\ circuit' = AfterCheck(p) /\ StartAttempt(c, 0, kd) /\ 0 \in Attempts
    BY <1>6, PolicyAssumption DEF Admit, Attempts
  <2>2. absServing' = [absServing EXCEPT ![c] = p]
    BY <1>2, <1>3, <2>1, ServingUpdates
  <2>3. QED
    BY <1>2, <1>4, <1>5, <2>1, <2>2, AbstractUpdates DEF AbstractBreaker!Admit
<1>7. ASSUME AdmitAborted(c, p, kd) \/ Refuse(c, p, kd)
      PROVE  UNCHANGED absServing
  <2>1. PICK how \in Outcomes : End(c, how)
    BY <1>7 DEF AdmitAborted, Refuse, Outcomes
  <2>2. \A d \in Calls : /\ pc'[d] = pc[d]
                         /\ d # c => target'[d] = target[d]
    BY <1>2, <1>3, <2>1 DEF End, TypeOK
  <2>3. QED
    BY <1>3, <2>2 DEF absServing
<1>8. CASE AdmitAborted(c, p, kd)
  <2>1. Admits(p) /\ circuit' = AfterCheck(p)
    BY <1>8 DEF AdmitAborted
  <2>2. QED
    BY <1>2, <1>4, <1>5, <1>7, <1>8, <2>1, AbstractUpdates DEF AbstractBreaker!Admit
<1>9. CASE Refuse(c, p, kd)
  BY <1>7, <1>9 DEF Refuse, absOpen, absStreak, absElapsed
<1>10. QED
  BY <1>1, <1>6, <1>8, <1>9

\* Every step of the policy is one of the abstract breaker or a stutter.
LEMMA NextRefines ==
  IInv /\ IInv' /\ [Next]_vars => [AbstractBreaker!Next]_(AbstractBreaker!bvars)
<1> SUFFICES ASSUME IInv, IInv', [Next]_vars
             PROVE  \/ AbstractBreaker!Next
                    \/ UNCHANGED <<absOpen, absStreak, absElapsed, absServing>>
  BY DEF AbstractBreaker!bvars
<1>1. TypeOK /\ TypeOK' /\ BreakerConsistent
  BY DEF IInv
<1>2. CASE Tick
  <2>1. AbstractBreaker!Tick
    <3>1. \A p \in Providers :
            /\ circuit'[p].isOpen = circuit[p].isOpen
            /\ circuit'[p].failures = circuit[p].failures
            /\ circuit'[p].elapsed = IF circuit[p].elapsed < ResetMs
                                     THEN circuit[p].elapsed + 1 ELSE circuit[p].elapsed
      BY <1>1, <1>2 DEF Tick, TypeOK
    <3>2. UNCHANGED <<absOpen, absStreak>>
      BY <3>1 DEF absOpen, absStreak
    <3>3. UNCHANGED absServing
      BY <1>2 DEF Tick, callVars, absServing
    <3>4. absElapsed' = [p \in Providers |-> IF absElapsed[p] < ResetMs
                                             THEN absElapsed[p] + 1 ELSE absElapsed[p]]
      BY <3>1 DEF absElapsed
    <3>5. QED
      BY <3>2, <3>3, <3>4 DEF AbstractBreaker!Tick
  <2>2. QED
    BY <2>1 DEF AbstractBreaker!Next
<1>3. ASSUME NEW c \in Calls, Invoke(c)
      PROVE  \/ AbstractBreaker!Next
             \/ UNCHANGED <<absOpen, absStreak, absElapsed, absServing>>
  BY <1>3, InvokeRefines DEF AbstractBreaker!Next
<1>4. ASSUME NEW c \in Calls, UpstreamFailure(c) \/ AttemptTimeout(c)
      PROVE  AbstractBreaker!Next
  BY <1>4, CaughtRefines DEF UpstreamFailure, AttemptTimeout, AbstractBreaker!Next
<1>5. ASSUME NEW c \in Calls,
             UpstreamSuccess(c) \/ UpstreamEventThenReturn(c) \/ ConsumerReturn(c)
      PROVE  AbstractBreaker!Next
  <2>1. /\ target[c] \in Providers
        /\ pc[c] # Ended
        /\ UNCHANGED target
        /\ \E how \in Outcomes : End(c, how)
    BY <1>1, <1>5 DEF UpstreamSuccess, UpstreamEventThenReturn, ConsumerReturn,
                      callVars, TypeOK, Ended, Outcomes
  <2>2. /\ absServing' = [absServing EXCEPT ![c] = NoProvider]
        /\ absServing[c] = target[c] /\ target[c] # NoProvider
    BY <1>1, <2>1, ServingUpdates
  <2>3. CASE UpstreamSuccess(c)
    <3>1. AbstractBreaker!Set(target[c], 0) /\ UNCHANGED absElapsed
      BY <1>1, <2>1, <2>3, AbstractUpdates DEF UpstreamSuccess
    <3>2. AbstractBreaker!Success(c)
      BY <2>2, <3>1 DEF AbstractBreaker!Success, AbstractBreaker!Leave
    <3>3. QED
      BY <3>2 DEF AbstractBreaker!Next
  <2>4. CASE UpstreamEventThenReturn(c) \/ ConsumerReturn(c)
    <3>1. UNCHANGED <<absOpen, absStreak, absElapsed>>
      BY <2>4 DEF UpstreamEventThenReturn, ConsumerReturn, absOpen, absStreak, absElapsed
    <3>2. AbstractBreaker!Silent(c)
      BY <2>2, <3>1 DEF AbstractBreaker!Silent, AbstractBreaker!Leave
    <3>3. QED
      BY <3>2 DEF AbstractBreaker!Next
  <2>5. QED
    BY <1>5, <2>3, <2>4
<1>6. ASSUME NEW c \in Calls,
             \/ UpstreamEvent(c) \/ LateSettle(c) \/ WakeUp(c)
             \/ CallerAbort(c) \/ Cancel(c) \/ ConsumerNext(c)
      PROVE  UNCHANGED <<absOpen, absStreak, absElapsed, absServing>>
  <2>1. UNCHANGED <<circuit, target>>
    BY <1>6 DEF UpstreamEvent, LateSettle, WakeUp, CallerAbort, Cancel, ConsumerNext,
                callVars
  <2>2. \/ UNCHANGED pc
        \/ pc[c] # Ended /\ pc' = [pc EXCEPT ![c] = "running"]
        \/ pc[c] # Ended /\ pc' = [pc EXCEPT ![c] = "suspended"]
    BY <1>6 DEF UpstreamEvent, LateSettle, WakeUp, StartAttempt, CallerAbort, Cancel,
                ConsumerNext, Ended
  <2>3. \A d \in Calls : pc'[d] = Ended <=> pc[d] = Ended
    BY <1>1, <2>2 DEF TypeOK, Ended
  <2>4. QED
    BY <2>1, <2>3 DEF absOpen, absStreak, absElapsed, absServing
<1>7. CASE UNCHANGED vars
  BY <1>7 DEF vars, callVars, absOpen, absStreak, absElapsed, absServing
<1>8. QED
  BY <1>2, <1>3, <1>4, <1>5, <1>6, <1>7 DEF Next, Upstream, Timers, Caller

\* Concurrent calls with retries, timeouts, cancellations and late answers act
\* on each provider's breaker as the abstract breaker allows, and no other way.
THEOREM PolicyImplementsBreaker == Spec => ImplementsBreaker
  BY Invariant, InitRefines, NextRefines, PTL
  DEF Spec, ImplementsBreaker, AbstractBreaker!Spec
=============================================================================
