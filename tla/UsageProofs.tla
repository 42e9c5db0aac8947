----------------------------- MODULE UsageProofs -----------------------------
(***************************************************************************)
(* Proofs about module Usage, for any requests, chains, settings and       *)
(* adapters.                                                               *)
(*                                                                         *)
(* Every step of Usage is a step of Gateway, so what GatewayProofs shows   *)
(* holds of Usage too.  Beyond it the proof needs to know how the map, the *)
(* reports and the answers hang together: the map holds exactly the        *)
(* reports of the attempts still awaited in an adapter, a report belongs   *)
(* to an attempt that has been started, and an answer carries exactly what *)
(* was reported of the attempt that gave it.                               *)
(***************************************************************************)
EXTENDS Usage, GatewayProofs

\* Position i of request r has not been called yet.
Ahead(r, i) == i > pos[r] \/ (i = pos[r] /\ gpc[r] \in {"idle", "trying"})

\* What was reported of the attempt that the current position stands at.
Known(r) == {v \in reported : v.of = <<r, pos[r], attempt[Call(r)]>>}

\* Nothing runs at a position that has not been called.
AheadIsIdle ==
    \A r \in Requests, i \in Positions : Ahead(r, i) => inflight[<<r, i>>] = {}

\* An entry of the map is the report of an attempt its adapter still awaits.
EntriesInv ==
    \A o \in observations :
        LET a == o.value.of
        IN  o.key = a /\ o.value \in reported /\ InAdapter(a[1], a[2], a[3])

\* A report is of an attempt that has been started at an adapter, it is the
\* only one of that attempt, and it is in the map as long as the attempt runs.
ReportsInv ==
    \A v \in reported :
        LET a == v.of
            c == <<a[1], a[2]>>
        IN  /\ ~Ahead(a[1], a[2])
            /\ kind[c] = "once"
            /\ target[c] \in Observing
            /\ a[3] <= attempt[c]
            /\ \A w \in reported : w.of = a => w = v
            /\ a[3] \in inflight[c] => [key |-> a, value |-> v] \in observations

\* An answer carries what was reported of the attempt that gave it.
CarriedInv ==
    \A r \in Requests :
        mode[r] # "stream" /\ pos[r] \in Positions /\ outcome[Call(r)] = "ok" =>
            carried[r] = Known(r)

\* A line is written of an answer, once and of what was reported of it.
RecordsInv ==
    \A r \in Requests :
        LET answer == <<r, pos[r], attempt[Call(r)]>>
        IN  \/ records[r] = <<>>
            \/ /\ gpc[r] = "done"
               /\ pos[r] \in Positions
               /\ outcome[Call(r)] = "ok"
               /\ \/ records[r] = <<Line(TRUE, answer)>> /\ Known(r) = {}
                  \/ /\ records[r] = <<Line(FALSE, answer)>>
                     /\ Known(r) = {Observation(answer, TRUE)}

UsageTypes ==
    /\ observations \subseteq [key : Tries, value : Observations]
    /\ reported \subseteq Observations
    /\ carried \in [Requests -> SUBSET Observations]
    /\ records \in [Requests -> Seq([counts : BOOLEAN, of : Tries])]

UInv ==
    /\ GInv
    /\ UsageTypes
    /\ AheadIsIdle
    /\ EntriesInv
    /\ ReportsInv
    /\ CarriedInv
    /\ RecordsInv

-----------------------------------------------------------------------------
(* Usage's steps as steps of the gateway and of its calls.                  *)

\* The recorder and the adapters' maps never stand in the way of a request.
LEMMA UsageSteps == [UsageNext]_uvars => [Next]_vars
<1> SUFFICES ASSUME UsageNext PROVE Next \/ UNCHANGED vars
  BY DEF uvars
<1>1. CASE Tick \/ Others
  BY <1>1 DEF Next
<1>2. ASSUME NEW r \in Requests, Elsewhere(r)
      PROVE  Next
  BY <1>2 DEF Next, Elsewhere, Gateway, PolicyStep
<1>3. ASSUME NEW r \in Requests, Answered(r)
      PROVE  Next
  BY <1>3 DEF Next, Answered, Gateway
<1>4. ASSUME NEW r \in Requests, NEW i \in Positions, AdapterReturns(r, i)
      PROVE  Next
  BY <1>4 DEF Next, AdapterReturns, PolicyStep
<1>5. ASSUME NEW r \in Requests, NEW i \in Positions, NEW k \in 0..MaxRetries,
             NEW whole \in BOOLEAN, Observe(r, i, k, whole)
      PROVE  UNCHANGED vars
  BY <1>5 DEF Observe
<1>6. QED
  BY <1>1, <1>2, <1>3, <1>4, <1>5 DEF UsageNext

\* A position that has been called is never again ahead.
LEMMA PositionsAdvance ==
  ASSUME GInv, [Next]_vars, NEW q \in Requests, NEW i \in Positions, Ahead(q, i)'
  PROVE  Ahead(q, i)
<1> USE DEF GInv
<1>1. TypeOK /\ i \in Nat /\ pos[q] \in Nat
  BY GatewayAssumption DEF TypeOK, Positions
<1>2. CASE UNCHANGED <<gpc, pos>>
  BY <1>2 DEF Ahead
<1>3. ASSUME NEW r \in Requests, NEW m \in Modes, NEW ch \in Chains, Arrive(r, m, ch)
      PROVE  Ahead(q, i)
  BY <1>1, <1>3 DEF Arrive, Ahead, TypeOK
<1>4. ASSUME NEW r \in Requests,
             gpc' = [gpc EXCEPT ![r] = "waiting"] \/ gpc' = [gpc EXCEPT ![r] = "holding"]
             \/ gpc' = [gpc EXCEPT ![r] = "done"],
             UNCHANGED pos
      PROVE  Ahead(q, i)
  BY <1>1, <1>4 DEF Ahead, TypeOK
<1>5. ASSUME NEW r \in Requests, PositionFailed(r)
      PROVE  Ahead(q, i)
  <2>1. CASE FallBack(r)
    BY <1>1, <2>1 DEF FallBack, Ahead, TypeOK
  <2>2. CASE ClientHasLeft(r) \/ OutputHasBegun(r)
    BY <1>4, <2>2 DEF ClientHasLeft, OutputHasBegun, Reply, Over,
       Complete
  <2>3. QED
    BY <1>5, <2>1, <2>2 DEF PositionFailed
<1>6. ASSUME NEW r \in Requests, Gateway(r) \/ StreamEvent(r)
      PROVE  Ahead(q, i)
  BY <1>4, <1>5, <1>6 DEF Gateway, TryProvider, ChainExhausted, PositionSucceeded,
     StreamOver, AnswerSent, PolicyCallFailed, WriteChunk, BreakOff, Reply, Complete, Over,
     StreamEvent
<1>7. ASSUME NEW r \in Requests, ClientClose(r) \/ PolicyStep(r)
      PROVE  UNCHANGED <<gpc, pos>>
  BY <1>7 DEF ClientClose, PolicyStep, gatewayVars
<1>8. ASSUME NEW r \in Requests, IdleTimeout(r)
      PROVE  PositionFailed(r)
  BY <1>8 DEF IdleTimeout
<1>9. CASE Tick \/ Others \/ UNCHANGED vars
  BY <1>2, <1>9 DEF Tick, Others, vars, gatewayVars
<1>10. QED
  BY <1>2, <1>3, <1>5, <1>6, <1>7, <1>8, <1>9 DEF Next

\* The request whose position is called is the only one that changes.
LEMMA TriedCalls ==
  ASSUME GInv, NEW r \in Requests, TryProvider(r)
  PROVE  /\ Ahead(r, pos[r]) /\ ~Ahead(r, pos[r])' /\ UNCHANGED pos
         /\ \A d \in Calls \ {Call(r)} : /\ kind'[d] = kind[d]
                                         /\ target'[d] = target[d]
                                         /\ attempt'[d] = attempt[d]
                                         /\ inflight'[d] = inflight[d]
<1> DEFINE p == chain[r][pos[r]]
           kd == CallKind(mode[r])
<1> USE DEF GInv
<1>1. /\ gpc[r] = "trying" /\ gpc' = [gpc EXCEPT ![r] = "waiting"] /\ UNCHANGED pos
      /\ P!Admit(Call(r), p, kd) \/ P!AdmitAborted(Call(r), p, kd)
         \/ P!Refuse(Call(r), p, kd)
  BY DEF TryProvider
<1>2. Ahead(r, pos[r]) /\ ~Ahead(r, pos[r])'
  BY <1>1, GatewayAssumption DEF Ahead, TypeOK
<1>3. P!TypeOK
  BY PolicyTypes
<1>4. /\ kind' = [kind EXCEPT ![Call(r)] = kd]
      /\ target' = [target EXCEPT ![Call(r)] = p]
  BY <1>1 DEF P!Admit, P!AdmitAborted, P!Refuse, P!Enter
<1>5. /\ attempt' = [attempt EXCEPT ![Call(r)] = 0] \/ UNCHANGED attempt
      /\ inflight' = [inflight EXCEPT ![Call(r)] = {0}] \/ UNCHANGED inflight
  BY <1>1 DEF P!Admit, P!AdmitAborted, P!Refuse, P!StartAttempt, P!End
<1>6. \A d \in Calls \ {Call(r)} : /\ kind'[d] = kind[d]
                                   /\ target'[d] = target[d]
                                   /\ attempt'[d] = attempt[d]
                                   /\ inflight'[d] = inflight[d]
  BY <1>3, <1>4, <1>5 DEF P!TypeOK, Calls
<1>7. QED
  BY <1>1, <1>2, <1>6

\* The steps that are taken by one policy call.
LEMMA PolicySteps ==
  ASSUME GInv, NEW r \in Requests,
         StreamEvent(r) \/ WriteChunk(r) \/ BreakOff(r) \/ IdleTimeout(r)
  PROVE  /\ Call(r) \in Calls
         /\ \/ P!UpstreamEvent(Call(r)) \/ P!ConsumerNext(Call(r))
            \/ P!ConsumerReturn(Call(r)) \/ P!Cancel(Call(r))
<1>1. gpc[r] \in {"waiting", "holding"}
  BY DEF StreamEvent, WriteChunk, BreakOff, IdleTimeout
<1>2. Call(r) \in Calls
  BY <1>1, ChainTypes DEF GInv, RequestInv, InChain
<1>3. QED
  BY <1>2 DEF StreamEvent, WriteChunk, BreakOff, IdleTimeout

\* The steps that leave the upstream operations alone.
LEMMA IdleSteps ==
  ASSUME NEW r \in Requests,
         \/ \E m \in Modes, ch \in Chains : Arrive(r, m, ch)
         \/ ChainExhausted(r) \/ PositionSucceeded(r) \/ PolicyCallFailed(r)
         \/ ClientClose(r)
  PROVE  UNCHANGED <<kind, target, attempt, inflight>>
  BY DEF Arrive, ChainExhausted, PositionSucceeded, PolicyCallFailed, ClientClose,
         policyVars, P!CallerAbort, P!callVars

\* What a step does to a position: one that has been called keeps its kind and
\* its provider and starts later attempts only, one that is ahead stays idle.
PositionAdvances(q, i) ==
    LET c == <<q, i>>
    IN  /\ ~Ahead(q, i) => /\ ~Ahead(q, i)'
                           /\ kind'[c] = kind[c]
                           /\ target'[c] = target[c]
                           /\ attempt[c] <= attempt'[c]
                           /\ \A k \in inflight'[c] : k \in inflight[c] \/ k > attempt[c]
        /\ Ahead(q, i)' => inflight'[c] \subseteq inflight[c]

\* Every step moves the calls of a position only forward.
LEMMA NextAdvances ==
  ASSUME GInv, [Next]_vars, NEW q \in Requests, NEW i \in Positions
  PROVE  PositionAdvances(q, i)
<1> DEFINE c == <<q, i>>
<1> USE DEF GInv
<1>1. /\ c \in Calls
      /\ P!TypeOK
      /\ Ahead(q, i)' => Ahead(q, i)
      /\ Ahead(q, i) => pc[c] = P!Ended
  BY PolicyTypes, PositionsAdvance DEF Calls, RequestInv, Untried, Ahead
<1>2. attempt[c] \in Nat /\ inflight[c] \subseteq Nat
  BY <1>1 DEF P!TypeOK, P!Attempts, Calls
<1>3. CASE UNCHANGED <<kind, target, attempt, inflight>>
  BY <1>1, <1>2, <1>3 DEF PositionAdvances
<1>4. ASSUME NEW r \in Requests, TryProvider(r)
      PROVE  PositionAdvances(q, i)
  <2>1. CASE c = Call(r)
    BY <2>1, <1>4, TriedCalls DEF PositionAdvances, Call, Ahead
  <2>2. CASE c # Call(r)
    BY <2>2, <1>1, <1>2, <1>4, TriedCalls DEF PositionAdvances
  <2>3. QED
    BY <2>1, <2>2
<1>5. ASSUME NEW d \in Calls, PP!Upstream(d) \/ PP!Timers(d) \/ PP!Caller(d)
      PROVE  PositionAdvances(q, i)
  <2>1. /\ UNCHANGED <<kind, target>>
        /\ \A e \in Calls :
              /\ attempt[e] <= attempt'[e]
              /\ \A k \in inflight'[e] : k \in inflight[e] \/ k > attempt[e]
              /\ pc[e] = PP!Ended => inflight'[e] \subseteq inflight[e]
    BY <1>5, PP!AttemptsAdvance, PolicySettings DEF Calls
  <2>2. QED
    BY <1>1, <2>1 DEF PositionAdvances, P!Ended, PP!Ended
<1>6. ASSUME NEW r \in Requests, PolicyStep(r)
      PROVE  \E d \in Calls : PP!Upstream(d) \/ PP!Timers(d)
  BY <1>6, SameSteps DEF PolicyStep, Calls, PP!Upstream
<1>7. ASSUME NEW r \in Requests,
             StreamEvent(r) \/ WriteChunk(r) \/ BreakOff(r) \/ IdleTimeout(r)
      PROVE  \E d \in Calls : PP!Upstream(d) \/ PP!Caller(d)
  BY <1>7, PolicySteps, SameSteps DEF PP!Upstream, PP!Caller
<1>8. CASE Tick \/ Others \/ UNCHANGED vars
  BY <1>3, <1>8 DEF Tick, P!Tick, P!callVars, Others, vars, policyVars
<1>9. QED
  BY <1>3, <1>4, <1>5, <1>6, <1>7, <1>8, IdleSteps DEF Next, Gateway

\* The steps that settle no operation of a call that is no stream.
LEMMA NotSettled ==
  ASSUME GInv, NEW q \in Requests, NEW i \in Positions, ~Ahead(q, i),
         kind[<<q, i>>] = "once",
         \/ Tick \/ Others \/ UNCHANGED vars
         \/ \E r \in Requests : Elsewhere(r) \/ PositionSucceeded(r)
  PROVE  inflight[<<q, i>>] \subseteq inflight'[<<q, i>>]
<1> DEFINE c == <<q, i>>
<1> USE DEF GInv
<1>1. c \in Calls
  BY DEF Calls
<1>2. CASE UNCHANGED inflight
  BY <1>2
<1>3. CASE Tick \/ Others \/ UNCHANGED vars
  BY <1>2, <1>3 DEF Tick, P!Tick, Others, vars, policyVars
<1>4. ASSUME NEW r \in Requests, TryProvider(r)
      PROVE  inflight[c] \subseteq inflight'[c]
  BY <1>1, <1>4, TriedCalls DEF Call
<1>5. ASSUME NEW d \in Calls,
             \/ P!UpstreamEvent(d) \/ P!UpstreamEventThenReturn(d) \/ P!Timers(d)
             \/ P!ConsumerNext(d) \/ P!ConsumerReturn(d) \/ P!Cancel(d)
      PROVE  inflight[c] \subseteq inflight'[c]
  <2>1. \/ PP!UpstreamEvent(d) \/ PP!UpstreamEventThenReturn(d) \/ PP!Timers(d)
        \/ PP!Caller(d)
    BY <1>5, SameSteps DEF PP!Caller
  <2>2. QED
    BY <1>1, <2>1, PP!OnceIsNotSettled, PolicySettings DEF Calls
<1>6. ASSUME NEW r \in Requests, Elsewhere(r) \/ PositionSucceeded(r)
      PROVE  inflight[c] \subseteq inflight'[c]
  <2>1. CASE TryProvider(r)
    BY <1>4, <2>1
  <2>2. CASE StreamEvent(r) \/ WriteChunk(r) \/ BreakOff(r) \/ IdleTimeout(r)
    BY <1>5, <2>2, PolicySteps
  <2>3. CASE \E j \in Positions : P!UpstreamEventThenReturn(<<r, j>>) \/ P!Timers(<<r, j>>)
    BY <1>5, <2>3 DEF Calls
  <2>4. CASE \/ \E m \in Modes, ch \in Chains : Arrive(r, m, ch)
             \/ ChainExhausted(r) \/ PositionSucceeded(r) \/ PolicyCallFailed(r)
             \/ ClientClose(r)
    BY <1>2, <2>4, IdleSteps
  <2>5. QED
    BY <1>6, <2>1, <2>2, <2>3, <2>4 DEF Elsewhere
<1>7. QED
  BY <1>3, <1>6

\* A call that has succeeded stays as it is.
LEMMA OkStays ==
  ASSUME GInv, [Next]_vars, NEW c \in Calls, outcome[c] = "ok"
  PROVE  outcome'[c] = "ok" /\ attempt'[c] = attempt[c]
<1> USE DEF GInv
<1>1. P!TypeOK /\ pc[c] = P!Ended
  BY PolicyTypes DEF PP!IInv, PP!AttemptDiscipline, Calls, PP!Ended, P!Ended
<1>2. CASE \A d \in Calls : ~(P!UpstreamSuccess(d) /\ UNCHANGED gatewayVars)
  BY <1>2, NextServed DEF ServedSame, Calls
<1>3. ASSUME NEW d \in Calls, P!UpstreamSuccess(d)
      PROVE  outcome'[c] = "ok" /\ attempt'[c] = attempt[c]
  BY <1>1, <1>3 DEF P!UpstreamSuccess, P!End, P!Ended, P!TypeOK, Calls
<1>4. QED
  BY <1>2, <1>3

\* While a position is awaited and when the request is over, the position and
\* the mode stand.
LEMMA ServingStands ==
  ASSUME GInv, [Next]_vars, NEW q \in Requests
  PROVE  /\ gpc[q] = "done" => gpc'[q] = "done"
         /\ gpc'[q] \notin {"idle", "trying"} => pos'[q] = pos[q] /\ mode'[q] = mode[q]
<1> USE DEF GInv
<1>1. TypeOK
  OBVIOUS
<1>2. CASE UNCHANGED <<gpc, pos, mode>>
  BY <1>2
<1>3. ASSUME NEW r \in Requests, NEW m \in Modes, NEW ch \in Chains, Arrive(r, m, ch)
      PROVE  /\ gpc[q] = "done" => gpc'[q] = "done"
             /\ gpc'[q] \notin {"idle", "trying"} => pos'[q] = pos[q] /\ mode'[q] = mode[q]
  BY <1>1, <1>3 DEF Arrive, TypeOK
<1>4. ASSUME NEW r \in Requests, gpc[r] # "done",
             gpc' = [gpc EXCEPT ![r] = "waiting"] \/ gpc' = [gpc EXCEPT ![r] = "holding"]
             \/ gpc' = [gpc EXCEPT ![r] = "done"],
             UNCHANGED <<pos, mode>>
      PROVE  gpc[q] = "done" => gpc'[q] = "done"
  BY <1>1, <1>4 DEF TypeOK
<1>5. ASSUME NEW r \in Requests, gpc[r] = "waiting", PositionFailed(r)
      PROVE  /\ gpc[q] = "done" => gpc'[q] = "done"
             /\ gpc'[q] \notin {"idle", "trying"} => pos'[q] = pos[q] /\ mode'[q] = mode[q]
  <2>1. CASE FallBack(r)
    BY <1>1, <1>5, <2>1 DEF FallBack, PositionFailed, TypeOK
  <2>2. CASE ClientHasLeft(r) \/ OutputHasBegun(r)
    BY <1>4, <1>5, <2>2 DEF ClientHasLeft, OutputHasBegun, Reply, Over,
       Complete, PositionFailed
  <2>3. QED
    BY <1>5, <2>1, <2>2 DEF PositionFailed
<1>6. ASSUME NEW r \in Requests,
             \/ TryProvider(r) \/ ChainExhausted(r) \/ PositionSucceeded(r)
             \/ WriteChunk(r) \/ BreakOff(r) \/ StreamEvent(r)
      PROVE  /\ gpc[q] = "done" => gpc'[q] = "done"
             /\ UNCHANGED <<pos, mode>>
  BY <1>4, <1>6 DEF TryProvider, ChainExhausted, PositionSucceeded, StreamOver,
     AnswerSent, WriteChunk, BreakOff, Reply, Complete, Over, StreamEvent
<1>7. ASSUME NEW r \in Requests, ClientClose(r) \/ PolicyStep(r)
      PROVE  UNCHANGED <<gpc, pos, mode>>
  BY <1>7 DEF ClientClose, PolicyStep, gatewayVars
<1>8. ASSUME NEW r \in Requests, IdleTimeout(r) \/ PolicyCallFailed(r)
      PROVE  gpc[r] = "waiting" /\ PositionFailed(r)
  BY <1>8 DEF IdleTimeout, PolicyCallFailed
<1>9. CASE Tick \/ Others \/ UNCHANGED vars
  BY <1>2, <1>9 DEF Tick, Others, vars, gatewayVars
<1>10. QED
  BY <1>2, <1>3, <1>5, <1>6, <1>7, <1>8, <1>9 DEF Next, Gateway

-----------------------------------------------------------------------------
(* The invariant. *)

\* The attempts that the map is keyed by.
LEMMA Triples ==
  ASSUME NEW a \in Tries
  PROVE  /\ a[1] \in Requests
         /\ a[2] \in Positions
         /\ a[3] \in 0..MaxRetries
         /\ a = <<a[1], a[2], a[3]>>
         /\ <<a[1], a[2]>> \in Calls
  BY DEF Tries, Calls

\* Nothing runs ahead.
LEMMA AheadStaysIdle == UInv /\ [Next]_vars => AheadIsIdle'
<1> SUFFICES ASSUME UInv, [Next]_vars, NEW r \in Requests, NEW i \in Positions,
                    Ahead(r, i)'
             PROVE  inflight'[<<r, i>>] = {}
  BY DEF AheadIsIdle
<1>1. inflight'[<<r, i>>] \subseteq inflight[<<r, i>>] /\ Ahead(r, i)
  BY NextAdvances, PositionsAdvance DEF UInv, PositionAdvances
<1>2. QED
  BY <1>1 DEF UInv, AheadIsIdle

\* A written line stays the line of its answer.
LEMMA RecordsKept ==
  ASSUME UInv, [Next]_vars, UNCHANGED <<reported, records>>
  PROVE  RecordsInv'
<1> SUFFICES ASSUME NEW r \in Requests, records[r] # <<>>
             PROVE  LET answer == <<r, pos'[r], attempt'[Call(r)']>>
                    IN  /\ gpc'[r] = "done"
                        /\ pos'[r] \in Positions
                        /\ outcome'[Call(r)'] = "ok"
                        /\ \/ records'[r] = <<Line(TRUE, answer)>> /\ Known(r)' = {}
                           \/ /\ records'[r] = <<Line(FALSE, answer)>>
                              /\ Known(r)' = {Observation(answer, TRUE)}
  BY DEF RecordsInv, Line, Observation
<1>1. /\ gpc[r] = "done" /\ pos[r] \in Positions /\ outcome[Call(r)] = "ok"
      /\ Call(r) \in Calls
  BY DEF UInv, RecordsInv, Call, Calls
<1>2. gpc'[r] = "done" /\ pos'[r] = pos[r]
  BY <1>1, ServingStands DEF UInv
<1>3. Call(r)' = Call(r)
  BY <1>2 DEF Call
<1>4. outcome'[Call(r)] = "ok" /\ attempt'[Call(r)] = attempt[Call(r)]
  BY <1>1, OkStays DEF UInv
<1>5. Known(r)' = Known(r)
  BY <1>2, <1>3, <1>4 DEF Known
<1>6. QED
  BY <1>1, <1>2, <1>3, <1>4, <1>5 DEF UInv, RecordsInv

\* What an answer carries stays what was reported of it.
LEMMA CarriedKept ==
  ASSUME UInv, GInv', [Next]_vars, UNCHANGED <<reported, carried>>,
         \A c \in Calls : outcome'[c] = "ok" => outcome[c] = "ok"
  PROVE  CarriedInv'
<1> SUFFICES ASSUME NEW r \in Requests, mode'[r] # "stream", pos'[r] \in Positions,
                    outcome'[Call(r)'] = "ok"
             PROVE  carried[r] = Known(r)'
  BY DEF CarriedInv
<1>1. gpc'[r] \notin {"idle", "trying"}
  BY DEF GInv, RequestInv, Untried, Call
<1>2. pos'[r] = pos[r] /\ mode'[r] = mode[r]
  BY <1>1, ServingStands DEF UInv
<1>3. Call(r)' = Call(r) /\ Call(r) \in Calls
  BY <1>2 DEF Call, Calls
<1>4. outcome[Call(r)] = "ok" /\ attempt'[Call(r)] = attempt[Call(r)]
  BY <1>2, <1>3, OkStays DEF UInv
<1>5. Known(r)' = Known(r)
  BY <1>2, <1>3, <1>4 DEF Known
<1>6. QED
  BY <1>2, <1>4, <1>5 DEF UInv, CarriedInv

\* As long as no operation settles, the map stays as it is.
LEMMA MapKept ==
  ASSUME UInv, [Next]_vars, UNCHANGED <<observations, reported>>,
         \/ Tick \/ Others \/ UNCHANGED vars
         \/ \E r \in Requests : Elsewhere(r) \/ PositionSucceeded(r)
  PROVE  EntriesInv' /\ ReportsInv'
<1> USE DEF UInv
<1>1. ASSUME NEW v \in reported
      PROVE  LET a == v.of
                 c == <<a[1], a[2]>>
             IN  /\ ~Ahead(a[1], a[2])'
                 /\ kind'[c] = "once"
                 /\ target'[c] \in Observing
                 /\ a[3] <= attempt'[c]
                 /\ a[3] \in inflight'[c] <=> a[3] \in inflight[c]
  <2> DEFINE a == v.of
             c == <<a[1], a[2]>>
  <2>1. /\ a[1] \in Requests /\ a[2] \in Positions /\ a[3] \in 0..MaxRetries
        /\ c \in Calls
    BY Triples DEF UsageTypes, Observations
  <2>2. /\ ~Ahead(a[1], a[2])
        /\ kind[c] = "once"
        /\ target[c] \in Observing
        /\ a[3] <= attempt[c]
    BY DEF ReportsInv
  <2>3. attempt[c] \in Nat /\ attempt'[c] \in Nat /\ MaxRetries \in Nat
    <3>1. PP!IInv'
      BY NextPolicyInv
    <3>2. QED
      BY <2>1, <3>1, PolicyTypes, PolicySettings DEF GInv, P!TypeOK, P!Attempts, Calls
  <2>4. PositionAdvances(a[1], a[2])
    BY <2>1, NextAdvances
  <2>5. inflight[c] \subseteq inflight'[c]
    BY <2>1, <2>2, NotSettled
  <2>6. QED
    BY <2>1, <2>2, <2>3, <2>4, <2>5 DEF PositionAdvances
<1>2. ReportsInv'
  BY <1>1 DEF ReportsInv
<1>3. EntriesInv'
  BY <1>1 DEF EntriesInv, InAdapter
<1>4. QED
  BY <1>2, <1>3

\* The report of an attempt comes in.
LEMMA ObserveUInv ==
  ASSUME UInv, NEW r \in Requests, NEW i \in Positions, NEW k \in 0..MaxRetries,
         NEW whole \in BOOLEAN, Observe(r, i, k, whole)
  PROVE  UInv'
<1> DEFINE a == <<r, i, k>>
           seen == Observation(a, whole)
           entry == [key |-> a, value |-> seen]
<1> USE DEF UInv
<1>1. /\ InAdapter(r, i, k)
      /\ \A o \in reported : o.of # a
      /\ reported' = reported \cup {seen}
      /\ observations' = {o \in observations : o.key # a} \cup {entry}
      /\ UNCHANGED <<vars, carried, records>>
  BY DEF Observe, Key
<1>2. a \in Tries /\ seen \in Observations /\ seen.of = a /\ seen.whole = whole
  BY DEF Tries, Observations, Observation
<1>3. GInv'
  BY <1>1, NextGInv DEF vars
<1>4. UsageTypes'
  <2>1. entry \in [key : Tries, value : Observations]
    BY <1>2
  <2>2. QED
    BY <1>1, <1>2, <2>1 DEF UsageTypes
<1>5. UNCHANGED <<gpc, pos, mode, kind, target, attempt, inflight, outcome>>
  BY <1>1 DEF vars, policyVars, gatewayVars
<1>6. AheadIsIdle'
  BY <1>5 DEF AheadIsIdle, Ahead
<1>7. EntriesInv'
  <2> SUFFICES ASSUME NEW o \in observations'
               PROVE  LET b == o.value.of
                      IN  o.key = b /\ o.value \in reported' /\ InAdapter(b[1], b[2], b[3])
    BY <1>5 DEF EntriesInv, InAdapter
  <2>1. CASE o \in observations
    BY <1>1, <2>1 DEF EntriesInv
  <2>2. CASE o = entry
    BY <1>1, <1>2, <2>2
  <2>3. QED
    BY <1>1, <2>1, <2>2
<1>8. ReportsInv'
  <2>1. i \in Positions /\ ~Ahead(r, i) /\ k <= attempt[<<r, i>>]
    <3>1. ~Ahead(r, i)
      BY <1>1 DEF AheadIsIdle, InAdapter
    <3>2. k <= attempt[<<r, i>>]
      BY <1>1 DEF GInv, PP!IInv, PP!AttemptDiscipline, InAdapter
    <3>3. QED
      BY <3>1, <3>2
  <2>2. \A o \in observations : o.value \in reported /\ o.key = o.value.of
    BY DEF EntriesInv
  <2> SUFFICES ASSUME NEW v \in reported'
               PROVE  LET b == v.of
                          c == <<b[1], b[2]>>
                      IN  /\ ~Ahead(b[1], b[2])
                          /\ kind[c] = "once"
                          /\ target[c] \in Observing
                          /\ b[3] <= attempt[c]
                          /\ \A w \in reported' : w.of = b => w = v
                          /\ b[3] \in inflight[c] =>
                                [key |-> b, value |-> v] \in observations'
    BY <1>5 DEF ReportsInv, Ahead
  <2>3. CASE v \in reported
    <3>1. v.of # a
      BY <1>1, <2>3
    <3>2. \A w \in reported' : w.of = v.of => w = v
      BY <1>1, <1>2, <2>3, <3>1 DEF ReportsInv
    <3>3. QED
      BY <1>1, <2>3, <3>1, <3>2 DEF ReportsInv
  <2>4. CASE v = seen
    <3>1. \A w \in reported' : w.of = a => w = seen
      BY <1>1
    <3>2. QED
      BY <1>1, <1>2, <2>1, <2>4, <3>1 DEF InAdapter
  <2>5. QED
    BY <1>1, <2>3, <2>4
<1>9. ASSUME NEW q \in Requests, pos[q] \in Positions, outcome[Call(q)] = "ok"
      PROVE  Known(q)' = Known(q)
  <2>1. Call(q) \in Calls /\ attempt[Call(q)] \notin inflight[Call(q)]
    BY <1>9 DEF GInv, PP!IInv, PP!AttemptDiscipline, Call, Calls
  <2>2. <<q, pos[q], attempt[Call(q)]>> # a
    BY <1>1, <2>1 DEF InAdapter, Call
  <2>3. QED
    BY <1>1, <1>2, <1>5, <2>2 DEF Known, Call
<1>10. CarriedInv' /\ RecordsInv'
  BY <1>1, <1>5, <1>9 DEF CarriedInv, RecordsInv, Call
<1>11. QED
  BY <1>3, <1>4, <1>6, <1>7, <1>8, <1>10

\* A call of an adapter is over and its entry goes with it, into the answer if
\* there is one.
LEMMA AdapterReturnsUInv ==
  ASSUME UInv, NEW r \in Requests, NEW i \in Positions, AdapterReturns(r, i)
  PROVE  UInv'
<1> DEFINE c == <<r, i>>
<1> USE DEF UInv
<1>1. /\ P!UpstreamSuccess(c) \/ P!UpstreamFailure(c) \/ P!LateSettle(c)
      /\ Deleted(r, i)
      /\ Taken(r, i)
      /\ UNCHANGED <<reported, records>>
      /\ UNCHANGED gatewayVars
      /\ c \in Calls
  BY DEF AdapterReturns, Calls
<1>2. [Next]_vars
  BY <1>1 DEF Next, PolicyStep
<1>3. GInv'
  BY <1>2, NextGInv
<1>4. P!TypeOK /\ P!TypeOK'
  BY <1>3, PolicyTypes DEF GInv
<1>5. AheadIsIdle' /\ RecordsInv'
  BY <1>1, <1>2, AheadStaysIdle, RecordsKept
<1>6. UNCHANGED <<gpc, pos, mode>>
  BY <1>1 DEF gatewayVars
<1>7. /\ UNCHANGED <<kind, target>>
      /\ \A d \in Calls : attempt[d] <= attempt'[d] /\ inflight'[d] \subseteq inflight[d]
      /\ \A d \in Calls \ {c} : inflight'[d] = inflight[d]
  <2>1. \/ inflight' = [inflight EXCEPT ![c] = @ \ {attempt[c]}]
        \/ \E k \in inflight[c] : inflight' = [inflight EXCEPT ![c] = @ \ {k}]
    BY <1>1 DEF P!UpstreamSuccess, P!UpstreamFailure, P!LateSettle, P!Settle
  <2>2. UNCHANGED <<kind, target>> /\ \A d \in Calls : attempt[d] <= attempt'[d]
    BY <1>1, SameSteps, PP!AttemptsAdvance, PolicySettings DEF PP!Upstream, GInv, Calls
  <2>3. inflight \in [Calls -> SUBSET P!Attempts]
    BY <1>4 DEF P!TypeOK, Calls
  <2>4. /\ \A d \in Calls : inflight'[d] \subseteq inflight[d]
        /\ \A d \in Calls \ {c} : inflight'[d] = inflight[d]
    BY <1>1, <2>1, <2>3
  <2>5. QED
    BY <2>2, <2>4
<1>8. observations' = {o \in observations :
          \A k \in inflight[c] \ inflight'[c] : o.key # <<r, i, k>>}
  BY <1>1 DEF Deleted, Key
<1>9. ASSUME NEW v \in reported
      PROVE  /\ v.of = <<v.of[1], v.of[2], v.of[3]>>
             /\ <<v.of[1], v.of[2]>> \in Calls
  BY Triples DEF UsageTypes, Observations
<1>10. EntriesInv'
  <2> SUFFICES ASSUME NEW o \in observations'
               PROVE  LET b == o.value.of
                      IN  /\ o.key = b /\ o.value \in reported
                          /\ b[3] \in inflight'[<<b[1], b[2]>>]
                          /\ kind[<<b[1], b[2]>>] = "once"
                          /\ target[<<b[1], b[2]>>] \in Observing
    BY <1>1, <1>7 DEF EntriesInv, InAdapter
  <2> DEFINE b == o.value.of
  <2>1. /\ o.key = b /\ o.value \in reported
        /\ b[3] \in inflight[<<b[1], b[2]>>]
        /\ kind[<<b[1], b[2]>>] = "once"
        /\ target[<<b[1], b[2]>>] \in Observing
    BY <1>8 DEF EntriesInv, InAdapter
  <2>2. b = <<b[1], b[2], b[3]>> /\ <<b[1], b[2]>> \in Calls
    BY <1>9, <2>1
  <2>3. CASE <<b[1], b[2]>> = c
    BY <1>8, <2>1, <2>2, <2>3
  <2>4. CASE <<b[1], b[2]>> # c
    BY <1>7, <2>1, <2>2, <2>4
  <2>5. QED
    BY <2>1, <2>3, <2>4
<1>11. ReportsInv'
  <2> SUFFICES ASSUME NEW v \in reported
               PROVE  LET b == v.of
                          d == <<b[1], b[2]>>
                      IN  /\ ~Ahead(b[1], b[2])
                          /\ kind[d] = "once"
                          /\ target[d] \in Observing
                          /\ b[3] <= attempt'[d]
                          /\ \A w \in reported : w.of = b => w = v
                          /\ b[3] \in inflight'[d] =>
                                [key |-> b, value |-> v] \in observations'
    BY <1>1, <1>6, <1>7 DEF ReportsInv, Ahead
  <2> DEFINE b == v.of
             d == <<b[1], b[2]>>
  <2>1. /\ ~Ahead(b[1], b[2])
        /\ kind[d] = "once"
        /\ target[d] \in Observing
        /\ b[3] <= attempt[d]
        /\ \A w \in reported : w.of = b => w = v
        /\ b[3] \in inflight[d] => [key |-> b, value |-> v] \in observations
    BY DEF ReportsInv
  <2>2. b = <<b[1], b[2], b[3]>> /\ d \in Calls
    BY <1>9
  <2>3. b[3] <= attempt'[d]
    <3>1. attempt[d] \in Nat /\ attempt'[d] \in Nat
      BY <1>4, <2>2 DEF P!TypeOK, P!Attempts, Calls
    <3>2. b[3] \in Nat
      <4>1. b \in Tries
        BY DEF UsageTypes, Observations
      <4>2. b[3] \in 0..MaxRetries
        BY <4>1, Triples
      <4>3. MaxRetries \in Nat
        BY PolicySettings
      <4>4. QED
        BY <4>2, <4>3
    <3>3. QED
      BY <1>7, <2>1, <2>2, <3>1, <3>2
  <2>4. ASSUME b[3] \in inflight'[d]
        PROVE  [key |-> b, value |-> v] \in observations'
    <3>1. b[3] \in inflight[d]
      BY <1>7, <2>2, <2>4
    <3>2. \A k \in inflight[c] \ inflight'[c] : b # <<r, i, k>>
      BY <2>2, <2>4
    <3>3. QED
      BY <1>8, <2>1, <3>1, <3>2
  <2>5. QED
    BY <2>1, <2>3, <2>4
<1>12. UsageTypes'
  <2>1. observations' \subseteq observations
    BY <1>8
  <2>2. carried' \in [Requests -> SUBSET Observations]
    <3>1. {o.value : o \in {e \in observations : e.key = Key(r, i, attempt[c])}}
             \subseteq Observations
      BY DEF UsageTypes
    <3>2. QED
      BY <1>1, <3>1 DEF Taken, UsageTypes
  <2>3. QED
    BY <1>1, <2>1, <2>2 DEF UsageTypes
<1>13. \A d \in Calls \ {c} : outcome'[d] = outcome[d]
  <2>1. UNCHANGED outcome \/ \E how \in P!Outcomes : outcome' = [outcome EXCEPT ![c] = how]
    BY <1>1 DEF P!UpstreamSuccess, P!UpstreamFailure, P!Caught, P!CaughtAborted,
       P!CaughtYielded, P!CaughtRetry, P!CaughtExhausted, P!LateSettle, P!End, P!Outcomes
  <2>2. QED
    BY <1>4, <2>1 DEF P!TypeOK, Calls
<1>14. CASE ~(outcome'[c] = "ok" /\ outcome[c] # "ok")
  <2>1. UNCHANGED carried
    BY <1>1, <1>14 DEF Taken
  <2>2. CarriedInv'
    BY <1>1, <1>2, <1>3, <1>13, <1>14, <2>1, CarriedKept
  <2>3. QED
    BY <1>3, <1>5, <1>10, <1>11, <1>12, <2>2
<1>15. CASE outcome'[c] = "ok" /\ outcome[c] # "ok"
  <2> DEFINE own == {o \in observations : o.key = <<r, i, attempt[c]>>}
  <2>1. carried' = [carried EXCEPT ![r] = {o.value : o \in own}]
    BY <1>1, <1>15 DEF Taken, Key
  <2>2. pc[c] = "running" /\ attempt'[c] = attempt[c] /\ attempt[c] \in inflight[c]
    <3>1. P!UpstreamSuccess(c)
      <4>1. CASE P!LateSettle(c)
        BY <1>15, <4>1 DEF P!LateSettle
      <4>2. CASE P!UpstreamFailure(c)
        <5>1. \/ UNCHANGED outcome
              \/ outcome' = [outcome EXCEPT ![c] = "failed"]
              \/ outcome' = [outcome EXCEPT ![c] = "abort"]
          BY <4>2 DEF P!UpstreamFailure, P!Caught, P!CaughtAborted, P!CaughtYielded,
             P!CaughtRetry, P!CaughtExhausted, P!End
        <5>2. QED
          BY <1>1, <1>4, <1>15, <5>1 DEF P!TypeOK, Calls
      <4>3. QED
        BY <1>1, <4>1, <4>2
    <3>2. QED
      BY <1>1, <3>1
      DEF P!UpstreamSuccess, P!End, GInv, PP!IInv, PP!AttemptDiscipline, Calls
  <2>3. mode[r] # "stream" => i = pos[r]
    BY <2>2 DEF GInv, RequestInv, Wanted, P!Ended
  <2>4. {o.value : o \in own} = {v \in reported : v.of = <<r, i, attempt[c]>>}
    <3>1. ASSUME NEW o \in own
          PROVE  o.value \in reported /\ o.value.of = <<r, i, attempt[c]>>
      BY DEF EntriesInv
    <3>2. ASSUME NEW v \in reported, v.of = <<r, i, attempt[c]>>
          PROVE  \E o \in own : o.value = v
      <4>1. [key |-> v.of, value |-> v] \in observations
        BY <2>2, <3>2 DEF ReportsInv
      <4>2. QED
        BY <3>2, <4>1
    <3>3. QED
      BY <3>1, <3>2
  <2>5. CarriedInv'
    <3> SUFFICES ASSUME NEW q \in Requests, mode[q] # "stream", pos[q] \in Positions,
                        outcome'[Call(q)] = "ok"
                 PROVE  carried'[q] = Known(q)'
      BY <1>6 DEF CarriedInv, Call
    <3>1. Call(q) = <<q, pos[q]>> /\ Call(q)' = Call(q) /\ Call(q) \in Calls
      BY <1>6 DEF Call, Calls
    <3>2. CASE q = r
      <4>1. Call(q) = c
        BY <2>3, <3>1, <3>2
      <4>2. carried'[q] = {o.value : o \in own}
        BY <2>1, <3>2 DEF UsageTypes
      <4>3. Known(q)' = {v \in reported : v.of = <<r, i, attempt[c]>>}
        BY <1>1, <1>6, <2>2, <2>3, <3>1, <3>2, <4>1 DEF Known
      <4>4. QED
        BY <2>4, <4>2, <4>3
    <3>3. CASE q # r
      <4>1. outcome[Call(q)] = "ok"
        BY <1>13, <3>1, <3>3
      <4>2. attempt'[Call(q)] = attempt[Call(q)]
        BY <1>2, <3>1, <4>1, OkStays
      <4>3. carried'[q] = carried[q]
        BY <2>1, <3>3 DEF UsageTypes
      <4>4. Known(q)' = Known(q)
        BY <1>1, <1>6, <3>1, <4>2 DEF Known
      <4>5. QED
        BY <4>1, <4>3, <4>4 DEF CarriedInv
    <3>4. QED
      BY <3>2, <3>3
  <2>6. QED
    BY <1>3, <1>5, <1>10, <1>11, <1>12, <2>5
<1>16. QED
  BY <1>14, <1>15

\* An answer is recorded, or its line is dropped.
LEMMA AnsweredUInv ==
  ASSUME UInv, NEW r \in Requests, Answered(r)
  PROVE  UInv'
<1> DEFINE answer == <<r, pos[r], attempt[Call(r)]>>
<1> USE DEF UInv
<1>1. /\ PositionSucceeded(r)
      /\ UNCHANGED <<observations, reported, carried>>
      /\ UNCHANGED records \/ (mode[r] # "stream" /\ Recorded(r))
  BY DEF Answered
<1>2. /\ gpc[r] = "waiting" /\ outcome[Call(r)] = "ok"
      /\ gpc' = [gpc EXCEPT ![r] = "done"]
      /\ UNCHANGED <<pos, mode, attempt, outcome, inflight>>
  BY <1>1 DEF PositionSucceeded, StreamOver, AnswerSent, Reply, Complete, Over,
     policyVars
<1>3. [Next]_vars
  BY <1>1 DEF Next, Gateway
<1>4. GInv'
  BY <1>3, NextGInv
<1>5. pos[r] \in Positions /\ Call(r) \in Calls
  BY <1>2, ChainTypes DEF GInv, RequestInv, InChain
<1>6. AheadIsIdle' /\ EntriesInv' /\ ReportsInv' /\ CarriedInv'
  BY <1>1, <1>2, <1>3, <1>4, AheadStaysIdle, MapKept, CarriedKept
<1>7. CASE UNCHANGED records
  BY <1>1, <1>3, <1>4, <1>6, <1>7, RecordsKept DEF UsageTypes
<1>8. CASE mode[r] # "stream" /\ Recorded(r) /\ ~UNCHANGED records
  <2>1. carried[r] = Known(r)
    BY <1>2, <1>5, <1>8 DEF CarriedInv
  <2>2. PICK l : /\ records' = [records EXCEPT ![r] = Append(@, l)]
                 /\ \/ carried[r] = {} /\ l = Line(TRUE, answer)
                    \/ \E o \in carried[r] : o.whole /\ l = Line(FALSE, o.of)
    BY <1>8 DEF Recorded
  <2>3. records[r] = <<>>
    BY <1>2 DEF RecordsInv
  <2>4. \/ l = Line(TRUE, answer) /\ Known(r) = {}
        \/ l = Line(FALSE, answer) /\ Known(r) = {Observation(answer, TRUE)}
    <3>1. CASE carried[r] = {} /\ l = Line(TRUE, answer)
      BY <2>1, <3>1
    <3>2. ASSUME NEW o \in carried[r], o.whole, l = Line(FALSE, o.of)
          PROVE  l = Line(FALSE, answer) /\ Known(r) = {Observation(answer, TRUE)}
      <4>1. o \in reported /\ o.of = answer
        BY <2>1, <3>2 DEF Known
      <4>2. o = Observation(answer, TRUE)
        BY <3>2, <4>1 DEF UsageTypes, Observations, Observation
      <4>3. \A w \in Known(r) : w = o
        BY <4>1 DEF Known, ReportsInv
      <4>4. Known(r) = {o}
        BY <2>1, <4>3
      <4>5. QED
        BY <3>2, <4>1, <4>2, <4>4
    <3>3. QED
      BY <2>2, <3>1, <3>2
  <2>5. l \in [counts : BOOLEAN, of : Tries]
    <3>1. answer \in Tries
      BY <1>5, PolicyTypes DEF Tries, GInv, P!TypeOK, P!Attempts, Calls
    <3>2. l = [counts |-> TRUE, of |-> answer] \/ l = [counts |-> FALSE, of |-> answer]
      BY <2>4 DEF Line
    <3>3. \A b \in BOOLEAN : [counts |-> b, of |-> answer] \in [counts : BOOLEAN, of : Tries]
      BY <3>1
    <3>4. QED
      BY <3>2, <3>3
  <2>6. /\ records'[r] = <<l>>
        /\ \A q \in Requests \ {r} : records'[q] = records[q]
        /\ records' \in [Requests -> Seq([counts : BOOLEAN, of : Tries])]
    <3>1. Append(<<>>, l) = <<l>>
      OBVIOUS
    <3>2. records' = [records EXCEPT ![r] = <<l>>]
      BY <2>2, <2>3, <3>1 DEF UsageTypes
    <3>3. <<l>> \in Seq([counts : BOOLEAN, of : Tries])
      BY <2>5
    <3>4. QED
      BY <3>2, <3>3 DEF UsageTypes
  <2>7. UsageTypes'
    BY <1>1, <2>6 DEF UsageTypes
  <2>8. \A q \in Requests : Known(q)' = Known(q)
    BY <1>1, <1>2 DEF Known, Call
  <2>9. \A q \in Requests \ {r} : gpc'[q] = gpc[q]
    BY <1>2 DEF GInv, TypeOK
  <2>10. gpc'[r] = "done"
    BY <1>2 DEF GInv, TypeOK
  <2>11. RecordsInv'
    <3> SUFFICES ASSUME NEW q \in Requests
                 PROVE  LET seen == <<q, pos[q], attempt[Call(q)]>>
                        IN  \/ records'[q] = <<>>
                            \/ /\ gpc'[q] = "done"
                               /\ pos[q] \in Positions
                               /\ outcome[Call(q)] = "ok"
                               /\ \/ records'[q] = <<Line(TRUE, seen)>> /\ Known(q) = {}
                                  \/ /\ records'[q] = <<Line(FALSE, seen)>>
                                     /\ Known(q) = {Observation(seen, TRUE)}
      BY <1>2, <2>8 DEF RecordsInv, Line, Observation, Call
    <3>1. CASE q = r
      BY <1>2, <1>5, <2>4, <2>6, <2>10, <3>1
    <3>2. CASE q # r
      BY <2>6, <2>9, <3>2 DEF RecordsInv
    <3>3. QED
      BY <3>1, <3>2
  <2>12. QED
    BY <1>4, <1>6, <2>7, <2>11
<1>9. QED
  BY <1>1, <1>7, <1>8

\* Only an adapter or an upstream that returns makes a call succeed.
LEMMA NoneSucceeds ==
  ASSUME GInv,
         Tick \/ Others \/ UNCHANGED vars \/ \E r \in Requests : Elsewhere(r)
  PROVE  \A c \in Calls : outcome'[c] = "ok" => outcome[c] = "ok"
<1> USE DEF GInv
<1>1. CASE UNCHANGED outcome
  BY <1>1
<1>2. ASSUME NEW d \in Calls, NEW how \in P!Outcomes \ {"ok"},
             outcome' = [outcome EXCEPT ![d] = how]
      PROVE  \A c \in Calls : outcome'[c] = "ok" => outcome[c] = "ok"
  BY <1>2, PolicyTypes DEF P!TypeOK, Calls
<1>3. ASSUME NEW r \in Requests, TryProvider(r)
      PROVE  \A c \in Calls : outcome'[c] = "ok" => outcome[c] = "ok"
  <2>1. Call(r) \in Calls
    BY <1>3, ChainTypes DEF TryProvider
  <2>2. \/ outcome' = [outcome EXCEPT ![Call(r)] = "none"]
        \/ outcome' = [outcome EXCEPT ![Call(r)] = "abort"]
        \/ outcome' = [outcome EXCEPT ![Call(r)] = "refused"]
    BY <1>3 DEF TryProvider, P!Admit, P!AdmitAborted, P!Refuse, P!End
  <2>3. QED
    BY <1>2, <2>1, <2>2 DEF P!Outcomes
<1>4. ASSUME NEW r \in Requests, NEW i \in Positions,
             P!UpstreamEventThenReturn(<<r, i>>) \/ P!Timers(<<r, i>>)
      PROVE  \A c \in Calls : outcome'[c] = "ok" => outcome[c] = "ok"
  <2>1. <<r, i>> \in Calls
    BY DEF Calls
  <2>2. \/ UNCHANGED outcome
        \/ outcome' = [outcome EXCEPT ![<<r, i>>] = "returned"]
        \/ outcome' = [outcome EXCEPT ![<<r, i>>] = "abort"]
        \/ outcome' = [outcome EXCEPT ![<<r, i>>] = "failed"]
    BY <1>4 DEF P!UpstreamEventThenReturn, P!Timers, P!AttemptTimeout, P!WakeUp, P!Caught,
       P!CaughtAborted, P!CaughtYielded, P!CaughtRetry, P!CaughtExhausted, P!End
  <2>3. QED
    BY <1>1, <1>2, <2>1, <2>2 DEF P!Outcomes
<1>5. ASSUME NEW r \in Requests,
             StreamEvent(r) \/ WriteChunk(r) \/ BreakOff(r) \/ IdleTimeout(r)
      PROVE  \A c \in Calls : outcome'[c] = "ok" => outcome[c] = "ok"
  <2>1. Call(r) \in Calls
    BY <1>5, PolicySteps
  <2>2. UNCHANGED outcome \/ outcome' = [outcome EXCEPT ![Call(r)] = "returned"]
    BY <1>5, PolicySteps
    DEF P!UpstreamEvent, P!ConsumerNext, P!ConsumerReturn, P!Cancel, P!End
  <2>3. QED
    BY <1>1, <1>2, <2>1, <2>2 DEF P!Outcomes
<1>6. ASSUME NEW r \in Requests,
             \/ \E m \in Modes, ch \in Chains : Arrive(r, m, ch)
             \/ ChainExhausted(r) \/ PolicyCallFailed(r) \/ ClientClose(r)
      PROVE  UNCHANGED outcome
  BY <1>6 DEF Arrive, ChainExhausted, PolicyCallFailed, ClientClose, policyVars,
     P!CallerAbort
<1>7. CASE Tick \/ Others \/ UNCHANGED vars
  BY <1>1, <1>7 DEF Tick, P!Tick, Others, vars, policyVars
<1>8. QED
  BY <1>1, <1>3, <1>4, <1>5, <1>6, <1>7 DEF Elsewhere

\* The steps in which neither the adapters nor the recorder take part.
LEMMA QuietUInv ==
  ASSUME UInv, UNCHANGED usageVars,
         Tick \/ Others \/ UNCHANGED vars \/ \E r \in Requests : Elsewhere(r)
  PROVE  UInv'
<1> USE DEF UInv
<1>1. [Next]_vars
  BY DEF Next, Elsewhere, Gateway, PolicyStep
<1>2. GInv'
  BY <1>1, NextGInv
<1>3. UNCHANGED <<observations, reported, carried, records>>
  BY DEF usageVars
<1>4. AheadIsIdle' /\ EntriesInv' /\ ReportsInv' /\ CarriedInv' /\ RecordsInv'
  BY <1>1, <1>2, <1>3, AheadStaysIdle, MapKept, NoneSucceeds, CarriedKept, RecordsKept
<1>5. UsageTypes'
  BY <1>3 DEF UsageTypes
<1>6. QED
  BY <1>2, <1>4, <1>5

\* Before any request arrives nothing has been reported or recorded.
LEMMA InitUInv == UsageInit => UInv
<1> SUFFICES ASSUME UsageInit PROVE UInv
  OBVIOUS
<1>1. GInv
  BY InitGInv DEF UsageInit
<1>2. UsageTypes /\ EntriesInv /\ ReportsInv /\ RecordsInv
  BY DEF UsageInit, UsageTypes, EntriesInv, ReportsInv, RecordsInv
<1>3. AheadIsIdle
  BY DEF UsageInit, Init, P!Init, AheadIsIdle, Calls
<1>4. CarriedInv
  BY DEF UsageInit, Init, P!Init, CarriedInv, Call
<1>5. QED
  BY <1>1, <1>2, <1>3, <1>4 DEF UInv

\* Every step of Usage keeps the invariant.
LEMMA NextUInv == UInv /\ [UsageNext]_uvars => UInv'
<1> SUFFICES ASSUME UInv, [UsageNext]_uvars PROVE UInv'
  OBVIOUS
<1>1. CASE UNCHANGED uvars
  BY <1>1, QuietUInv DEF uvars
<1>2. CASE (Tick \/ Others) /\ UNCHANGED usageVars
  BY <1>2, QuietUInv
<1>3. ASSUME NEW r \in Requests, Elsewhere(r), UNCHANGED usageVars
      PROVE  UInv'
  BY <1>3, QuietUInv
<1>4. ASSUME NEW r \in Requests, Answered(r)
      PROVE  UInv'
  BY <1>4, AnsweredUInv
<1>5. ASSUME NEW r \in Requests, NEW i \in Positions, AdapterReturns(r, i)
      PROVE  UInv'
  BY <1>5, AdapterReturnsUInv
<1>6. ASSUME NEW r \in Requests, NEW i \in Positions, NEW k \in 0..MaxRetries,
             NEW whole \in BOOLEAN, Observe(r, i, k, whole)
      PROVE  UInv'
  BY <1>6, ObserveUInv
<1>7. QED
  BY <1>1, <1>2, <1>3, <1>4, <1>5, <1>6 DEF UsageNext

\* The invariant holds of every request with its reports and its record.
LEMMA UsageInvariant == UsageSpec => []UInv
  BY InitUInv, NextUInv, PTL DEF UsageSpec

-----------------------------------------------------------------------------
(* Theorems. *)

\* A request with its reports and its record is a request of the gateway.
THEOREM UsageImplementsGateway == UsageSpec => Spec
<1>1. UsageInit => Init
  BY DEF UsageInit
<1>2. QED
  BY <1>1, UsageSteps, PTL DEF UsageSpec, Spec

\* Every variable keeps its type: at most one line is written for a request.
THEOREM UsageTypeCorrect == UsageSpec => []UsageTypeOK
<1>1. UInv => UsageTypeOK
  <2> SUFFICES ASSUME UInv PROVE UsageTypeOK
    OBVIOUS
  <2>1. ASSUME NEW r \in Requests
        PROVE  Len(records[r]) <= 1
    <3>1. CASE records[r] = <<>>
      BY <3>1
    <3>2. CASE \E l : records[r] = <<l>>
      BY <3>2
    <3>3. QED
      BY <3>1, <3>2 DEF UInv, RecordsInv
  <2>2. QED
    BY <2>1 DEF UInv, GInv, UsageTypes, UsageTypeOK
<1>2. QED
  BY <1>1, UsageInvariant, PTL

\* An adapter's map holds nothing of a call that is over.
THEOREM MapHoldsLiveCallsOnly == UsageSpec => []ObservationsLive
<1>1. UInv => ObservationsLive
  BY DEF UInv, EntriesInv, ObservationsLive
<1>2. QED
  BY <1>1, UsageInvariant, PTL

\* What is recorded of a request is what was observed of the attempt that
\* answered it.
THEOREM RecordedAsObserved == UsageSpec => []RecordIsOfTheAnswer
<1>1. UInv => RecordIsOfTheAnswer
  <2> SUFFICES ASSUME UInv, NEW r \in Requests, records[r] # <<>>
               PROVE  LET answer == <<r, pos[r], attempt[Call(r)]>>
                          known == {o \in reported : o.of = answer}
                      IN  /\ gpc[r] = "done"
                          /\ outcome[Call(r)] = "ok"
                          /\ \/ records[r] = <<Line(TRUE, answer)>> /\ known = {}
                             \/ /\ records[r] = <<Line(FALSE, answer)>>
                                /\ known = {Observation(answer, TRUE)}
    BY DEF RecordIsOfTheAnswer
  <2>1. QED
    BY DEF UInv, RecordsInv, Known
<1>2. QED
  BY <1>1, UsageInvariant, PTL

\* What is shown of the gateway's requests holds of requests that are also
\* recorded, on which the runs check it: a client reads one source, no upstream
\* work is left behind, a response is completed once, and the client's view is
\* that of Exchange.
THEOREM GatewayKeptByUsage ==
  UsageSpec => /\ [](NoSplice /\ LiveUpstreamIsWanted)
               /\ CompletedOnce
               /\ ImplementsExchange
  BY UsageImplementsGateway, NothingIsSpliced, UpstreamIsWanted, ResponsesCompletedOnce,
     GatewayImplementsExchange, PTL
=============================================================================
