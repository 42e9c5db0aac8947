------------------------------ MODULE Gateway ------------------------------
(***************************************************************************)
(* GatewayService (apps/sirius-api/src/gateway.service.ts) between its two *)
(* neighbours: the HTTP controllers that consume it and PolicyService,     *)
(* whose calls it makes.                                                   *)
(*                                                                         *)
(* A request walks the provider chain of its routing decision.  Position i *)
(* of request r is the policy call <<r, i>>; every step of a policy call   *)
(* is an action of module Policy, joined here with what the gateway does   *)
(* in the same turn.  The gateway adds the idle timeout between stream     *)
(* events, the fallback to the next position and the rule that a fallback  *)
(* may not follow output.  The controller writes frames and ends the       *)
(* response; a client may disconnect at any moment.                        *)
(*                                                                         *)
(* Requests meet in the circuit breakers and nowhere else.  What requests  *)
(* other than those modelled do to a breaker is an action of its own, so   *)
(* one modelled request stands for any one among arbitrarily many.         *)
(*                                                                         *)
(* Definitions marked "Fault:" are as in Policy.                           *)
(***************************************************************************)
EXTENDS Integers, Sequences, FiniteSets

CONSTANTS
    Providers, MaxRetries, BaseDelay, TimeoutMs, Threshold, ResetMs, NoProvider,
    Requests,    \* slots for concurrent HTTP requests
    Chains,      \* provider chains the router may decide on
    MaxChain,    \* bound: the length of the longest chain
    IdleMs,      \* SIRIUS_STREAM_IDLE_TIMEOUT_MS
    MaxEvents,   \* bound: upstream events per request
    MaxFailures  \* bound: a count from which others' failures add nothing

ASSUME GatewayAssumption ==
    /\ MaxRetries \in Nat /\ BaseDelay \in Nat /\ TimeoutMs \in Nat
    /\ Threshold \in Nat \ {0} /\ ResetMs \in Nat
    /\ NoProvider \notin Providers
    /\ IsFiniteSet(Requests)
    /\ MaxChain \in Nat
    /\ Chains \subseteq Seq(Providers)
    /\ <<>> \in Chains    \* no route
    /\ \A ch \in Chains : Len(ch) <= MaxChain
    /\ IdleMs \in Nat
    /\ MaxEvents \in Nat
    /\ MaxFailures \in Nat

VARIABLES
    circuit, pc, kind, target, attempt, timer, callerAborted,
    returning, inflight, aborted, delivered, outcome,  \* of module Policy
    mode,        \* per request: "response", "stream" or "embeddings"
    chain,       \* per request: the provider chain
    pos,         \* per request: the position being tried
    gpc,         \* per request: where the gateway stands
    yieldedAny,  \* per request: the current position has produced output
    event,       \* per request: the event the controller holds
    idle,        \* per request: ticks left of the idle timer
    clientGone,  \* per request: the response socket has closed
    sources,     \* per request: <<position, attempt>> of what was written or sent
    errors,      \* per request: error frames or error bodies written
    ends,        \* per request: times the response was completed
    events       \* per request: upstream events so far

Positions == 1..MaxChain
P == INSTANCE Policy WITH Calls <- Requests \X Positions

policyVars == <<circuit, pc, kind, target, attempt, timer, callerAborted,
                returning, inflight, aborted, delivered, outcome>>
replyVars == <<sources, errors, ends>>
gatewayVars == <<mode, chain, pos, gpc, yieldedAny, event, idle, clientGone,
                 replyVars, events>>
vars == <<policyVars, gatewayVars>>

Modes == {"response", "stream", "embeddings"}
Event == {"delta", "done", "error"}
NoEvent == "none"
NoSource == <<0, 0>>

Call(r) == <<r, pos[r]>>
CallKind(m) == IF m = "stream" THEN "stream" ELSE "once"

-----------------------------------------------------------------------------
TypeOK ==
    /\ P!TypeOK
    /\ mode \in [Requests -> Modes]
    /\ chain \in [Requests -> Chains]
    /\ pos \in [Requests -> 1..(MaxChain + 1)]
    /\ gpc \in [Requests -> {"idle", "trying", "waiting", "holding", "done"}]
    /\ yieldedAny \in [Requests -> BOOLEAN]
    /\ event \in [Requests -> Event \cup {NoEvent}]
    /\ idle \in [Requests -> 0..IdleMs]
    /\ clientGone \in [Requests -> BOOLEAN]
    /\ sources \in [Requests -> SUBSET (Positions \X (0..MaxRetries))]
    /\ errors \in [Requests -> 0..1]
    /\ ends \in [Requests -> 0..1]
    /\ events \in [Requests -> 0..MaxEvents]

Init ==
    /\ P!Init
    /\ mode = [r \in Requests |-> "response"]
    /\ chain = [r \in Requests |-> <<>>]
    /\ pos = [r \in Requests |-> 1]
    /\ gpc = [r \in Requests |-> "idle"]
    /\ yieldedAny = [r \in Requests |-> FALSE]
    /\ event = [r \in Requests |-> NoEvent]
    /\ idle = [r \in Requests |-> 0]
    /\ clientGone = [r \in Requests |-> FALSE]
    /\ sources = [r \in Requests |-> {}]
    /\ errors = [r \in Requests |-> 0]
    /\ ends = [r \in Requests |-> 0]
    /\ events = [r \in Requests |-> 0]

-----------------------------------------------------------------------------
(* The controller's side: what reaches the client. *)

\* The handler is through with the request.
Over(r) ==
    /\ gpc' = [gpc EXCEPT ![r] = "done"]
    /\ event' = [event EXCEPT ![r] = NoEvent]
    /\ idle' = [idle EXCEPT ![r] = 0]

\* The response is completed, with or without an error, whatever has become
\* of its socket.
Complete(r, nErrors) ==
    /\ Over(r)
    /\ errors' = [errors EXCEPT ![r] = @ + nErrors]
    /\ ends' = [ends EXCEPT ![r] = @ + 1]

\* Fault: neither a stream nor an error looks at the socket before it ends.
ReplyBlindly(r, nErrors) == Complete(r, nErrors)

\* The end of a stream and that of a handler which caught an error leave a
\* closed response alone (`aborted`, res.raw.destroyed).
Reply(r, nErrors) ==
    IF clientGone[r] THEN Over(r) /\ UNCHANGED <<errors, ends>>
                     ELSE Complete(r, nErrors)

\* createEmbeddings calls the selected provider only, whatever fallbacks the
\* decision lists.
MayTake(m, ch) == m = "embeddings" => Len(ch) <= 1

\* A request arrives and is routed.
Arrive(r, m, ch) ==
    /\ gpc[r] = "idle"
    /\ MayTake(m, ch)
    /\ mode' = [mode EXCEPT ![r] = m]
    /\ chain' = [chain EXCEPT ![r] = ch]
    /\ gpc' = [gpc EXCEPT ![r] = "trying"]
    /\ UNCHANGED <<policyVars, pos, yieldedAny, event, idle, clientGone,
                   replyVars, events>>

-----------------------------------------------------------------------------
(* The loop over the chain. *)

\* The policy call of the current position is entered; for a stream the first
\* next() does so and the idle timer starts with it.
TryProvider(r) ==
    LET p == chain[r][pos[r]]
        kd == CallKind(mode[r])
    IN  /\ gpc[r] = "trying"
        /\ pos[r] <= Len(chain[r])
        /\ \/ ~clientGone[r] /\ P!Admit(Call(r), p, kd)
           \/ clientGone[r] /\ P!AdmitAborted(Call(r), p, kd)
           \/ P!Refuse(Call(r), p, kd)
        /\ gpc' = [gpc EXCEPT ![r] = "waiting"]
        /\ yieldedAny' = [yieldedAny EXCEPT ![r] = FALSE]
        /\ idle' = [idle EXCEPT ![r] = IF mode[r] = "stream" THEN IdleMs ELSE 0]
        /\ UNCHANGED <<mode, chain, pos, event, clientGone, replyVars, events>>

\* No position is left: "All providers failed".
ChainExhausted(r) ==
    /\ gpc[r] = "trying"
    /\ pos[r] > Len(chain[r])
    /\ Reply(r, 1)
    /\ UNCHANGED <<policyVars, mode, chain, pos, yieldedAny, clientGone,
                   sources, events>>

\* The catch block around one position.
ClientHasLeft(r) == clientGone[r] /\ Reply(r, 0) /\ UNCHANGED pos

\* Fault: the error frame is written by the gateway and by the controller.
OutputHasBegunTwice(r) ==
    /\ ~clientGone[r]
    /\ yieldedAny[r]
    /\ Reply(r, 2)
    /\ UNCHANGED pos

\* Fault: a stream that breaks after its beginning just ends.
OutputHasBegunSilently(r) ==
    /\ ~clientGone[r]
    /\ yieldedAny[r]
    /\ Reply(r, 0)
    /\ UNCHANGED pos

OutputHasBegun(r) ==
    /\ ~clientGone[r]
    /\ yieldedAny[r]
    /\ Reply(r, 1)
    /\ UNCHANGED pos

\* Fault: output that has reached the client does not prevent a fallback.
FallBackAlways(r) ==
    /\ ~clientGone[r]
    /\ gpc' = [gpc EXCEPT ![r] = "trying"]
    /\ pos' = [pos EXCEPT ![r] = @ + 1]
    /\ idle' = [idle EXCEPT ![r] = 0]
    /\ UNCHANGED <<event, errors, ends>>

FallBack(r) ==
    /\ ~clientGone[r]
    /\ ~yieldedAny[r]
    /\ gpc' = [gpc EXCEPT ![r] = "trying"]
    /\ pos' = [pos EXCEPT ![r] = @ + 1]
    /\ idle' = [idle EXCEPT ![r] = 0]
    /\ UNCHANGED <<event, errors, ends>>

PositionFailed(r) ==
    /\ ClientHasLeft(r) \/ OutputHasBegun(r) \/ FallBack(r)
    /\ UNCHANGED <<mode, chain, yieldedAny, clientGone, sources, events>>

\* The stream is over, and with it the controller's loop.
StreamOver(r) ==
    /\ mode[r] = "stream"
    /\ Reply(r, 0)
    /\ UNCHANGED sources

\* res.send is given the whole answer without a look at the socket: an upstream
\* that does not heed the signal may answer after the client has gone.
AnswerSent(r) ==
    /\ mode[r] # "stream"
    /\ Complete(r, 0)
    /\ sources' = [sources EXCEPT ![r] = @ \cup {<<pos[r], attempt[Call(r)]>>}]

\* The policy call succeeded.
PositionSucceeded(r) ==
    /\ gpc[r] = "waiting"
    /\ pc[Call(r)] = P!Ended
    /\ outcome[Call(r)] = "ok"
    /\ StreamOver(r) \/ AnswerSent(r)
    /\ UNCHANGED <<policyVars, mode, chain, pos, yieldedAny, clientGone, events>>

\* The policy call threw.
PolicyCallFailed(r) ==
    /\ gpc[r] = "waiting"
    /\ pc[Call(r)] = P!Ended
    /\ outcome[Call(r)] # "ok"
    /\ PositionFailed(r)
    /\ UNCHANGED policyVars

\* Fault: the stream is given up without cancelling the policy call.
IdleTimeoutLeaks(r) ==
    /\ gpc[r] = "waiting"
    /\ mode[r] = "stream"
    /\ pc[Call(r)] # P!Ended
    /\ idle[r] = 0
    /\ PositionFailed(r)
    /\ UNCHANGED policyVars

\* Fault: the idle timer is armed for the first event only.
FirstEventTimeout(r) ==
    /\ gpc[r] = "waiting"
    /\ mode[r] = "stream"
    /\ pc[Call(r)] # P!Ended
    /\ idle[r] = 0
    /\ ~yieldedAny[r]
    /\ P!Cancel(Call(r))
    /\ PositionFailed(r)

\* The idle timer wins the race against next(): the finally block cancels the
\* policy call, then the catch block runs.
IdleTimeout(r) ==
    /\ gpc[r] = "waiting"
    /\ mode[r] = "stream"
    /\ pc[Call(r)] # P!Ended
    /\ idle[r] = 0
    /\ P!Cancel(Call(r))
    /\ PositionFailed(r)

-----------------------------------------------------------------------------
(* Streaming: an event travels from the upstream to the controller. *)

StreamEvent(r) ==
    /\ gpc[r] = "waiting"
    /\ mode[r] = "stream"
    /\ events[r] < MaxEvents
    /\ P!UpstreamEvent(Call(r))
    /\ gpc' = [gpc EXCEPT ![r] = "holding"]
    /\ yieldedAny' = [yieldedAny EXCEPT ![r] = TRUE]
    /\ \E e \in Event : event' = [event EXCEPT ![r] = e]
    /\ idle' = [idle EXCEPT ![r] = 0]
    /\ events' = [events EXCEPT ![r] = @ + 1]
    /\ UNCHANGED <<mode, chain, pos, clientGone, replyVars>>

\* The controller writes the event and asks for the next one.
WriteChunk(r) ==
    /\ gpc[r] = "holding"
    /\ ~clientGone[r]
    /\ event[r] # "error"
    /\ P!ConsumerNext(Call(r))
    /\ gpc' = [gpc EXCEPT ![r] = "waiting"]
    /\ event' = [event EXCEPT ![r] = NoEvent]
    /\ idle' = [idle EXCEPT ![r] = IdleMs]
    /\ sources' = [sources EXCEPT ![r] = @ \cup {<<pos[r], attempt[Call(r)]>>}]
    /\ UNCHANGED <<mode, chain, pos, yieldedAny, clientGone, errors, ends, events>>

\* The controller leaves its loop: at an error event it writes an error frame
\* and ends the response, for a client that has gone it does neither.  The
\* break returns the generators down to the upstream.
BreakOff(r) ==
    /\ gpc[r] = "holding"
    /\ clientGone[r] \/ event[r] = "error"
    /\ P!ConsumerReturn(Call(r))
    /\ Reply(r, 1)
    /\ UNCHANGED <<mode, chain, pos, yieldedAny, clientGone, sources, events>>

-----------------------------------------------------------------------------
(* The client and the clock. *)

\* The socket closes: the controller's abort signal fires and with it the
\* signal of the policy call in progress.
ClientClose(r) ==
    /\ gpc[r] \in {"trying", "waiting", "holding"}
    /\ ~clientGone[r]
    /\ clientGone' = [clientGone EXCEPT ![r] = TRUE]
    /\ IF gpc[r] # "trying" /\ pc[Call(r)] # P!Ended
       THEN P!CallerAbort(Call(r))
       ELSE UNCHANGED policyVars
    /\ UNCHANGED <<mode, chain, pos, gpc, yieldedAny, event, idle, replyVars,
                   events>>

\* What goes on inside a policy call without the gateway taking part.
PolicyStep(r) ==
    /\ \E i \in Positions :
          \/ P!UpstreamSuccess(<<r, i>>)
          \/ P!UpstreamFailure(<<r, i>>)
          \/ P!UpstreamEventThenReturn(<<r, i>>)
          \/ P!LateSettle(<<r, i>>)
          \/ P!Timers(<<r, i>>)
    /\ UNCHANGED gatewayVars

Tick ==
    /\ P!Tick
    /\ idle' = [r \in Requests |-> IF idle[r] > 0 THEN idle[r] - 1 ELSE 0]
    /\ UNCHANGED <<mode, chain, pos, gpc, yieldedAny, event, clientGone,
                   replyVars, events>>

\* The breaker seen by a call of some other request: it is let through, or
\* it reports how an attempt went.
OthersAdmitted(p) == P!Admits(p) /\ circuit[p].isOpen /\ circuit' = P!AfterCheck(p)
OthersSucceed(p) == circuit[p].failures > 0 /\ circuit' = P!AfterSuccess(p)
OthersFail(p) == circuit[p].failures < MaxFailures /\ circuit' = P!AfterFailure(p)

Others ==
    /\ \E p \in Providers : OthersAdmitted(p) \/ OthersSucceed(p) \/ OthersFail(p)
    /\ UNCHANGED <<pc, kind, target, attempt, timer, callerAborted, returning,
                   inflight, aborted, delivered, outcome, gatewayVars>>

Gateway(r) ==
    \/ TryProvider(r)
    \/ ChainExhausted(r)
    \/ PositionSucceeded(r)
    \/ PolicyCallFailed(r)
    \/ WriteChunk(r)
    \/ BreakOff(r)

Next ==
    \/ Tick
    \/ Others
    \/ \E r \in Requests :
          \/ \E m \in Modes, ch \in Chains : Arrive(r, m, ch)
          \/ Gateway(r)
          \/ IdleTimeout(r)
          \/ StreamEvent(r)
          \/ ClientClose(r)
          \/ PolicyStep(r)

Spec == Init /\ [][Next]_vars

\* Time passes, due timers are run, and the code between two awaits runs to
\* the next await.  The upstream is free to stay silent for ever.
Fairness ==
    /\ WF_vars(Tick)
    /\ \A r \in Requests :
          /\ WF_vars(Gateway(r))
          /\ WF_vars(IdleTimeout(r))
          /\ \A i \in Positions : WF_vars(P!Timers(<<r, i>>) /\ UNCHANGED gatewayVars)

FairSpec == Spec /\ Fairness

-----------------------------------------------------------------------------
(* Properties. *)

\* What is written to a client comes from a single attempt at one provider: no
\* retry, fallback or late answer is spliced onto output already written
\* (`yieldedAny` here, `yielded` in the policy).
NoSplice == \A r \in Requests : Cardinality(sources[r]) <= 1

\* The upstream operations of a request that no signal has reached.
Live(r) ==
    {s \in Positions \X (0..MaxRetries) :
        s[2] \in inflight[<<r, s[1]>>] /\ ~P!SignalAborted(<<r, s[1]>>, s[2])}

\* The only upstream operation of a request left running is the one whose
\* answer the gateway is waiting for, and none is left running for a client
\* that has gone or a response that is complete.  A policy call cancelled in
\* its backoff goes on to start attempts of its own: they must be born aborted
\* (the per-attempt AbortController of streamResponse and its finally block).
LiveUpstreamIsWanted ==
    \A r \in Requests :
        Live(r) # {} =>
            /\ ~clientGone[r]
            /\ gpc[r] \in {"waiting", "holding"}
            /\ Live(r) = {<<pos[r], attempt[Call(r)]>>}

LeftAlone(r) ==
    /\ sources'[r] = sources[r]
    /\ errors'[r] = errors[r]
    /\ ends'[r] = ends[r]

\* The answer of the call that is awaited is sent at once, and alone.
SentWhole(r) ==
    /\ mode[r] # "stream"
    /\ outcome[Call(r)] = "ok"
    /\ sources'[r] = {<<pos[r], attempt[Call(r)]>>}
    /\ errors'[r] = 0
    /\ ends'[r] = 1

\* A response is completed once, and nothing is written to it afterwards; a
\* client that stays gets it completed.  For a client that has gone no frame,
\* error or end is written any more, with one exception: the whole answer of
\* a request that is not streamed, where it comes all the same (the ends of the
\* controllers' loops and catch blocks, and the res.send of their try blocks).
CompletedOnce ==
    [][\A r \in Requests :
         /\ ends[r] = 1 => LeftAlone(r)
         /\ clientGone[r] => LeftAlone(r) \/ SentWhole(r)
         /\ gpc'[r] = "done" => ends'[r] = 1 \/ clientGone'[r]]_vars

\* The gateway implements the abstract exchange: whatever attempts, fallbacks
\* and timers do, what a client reads has one source, it is told that its
\* answer is whole only if that source has served it to its end, and it is
\* told once (the ends of streamResponse and of the controllers).  A client
\* that has gone reads nothing, so it is told nothing by an answer sent after it.
absRead(r) == IF clientGone[r] /\ mode[r] # "stream" THEN {} ELSE sources[r]
absSource == [r \in Requests |->
                 IF absRead(r) = {} THEN NoSource ELSE CHOOSE s \in absRead(r) : TRUE]
absServed == [r \in Requests |->
                 {<<i, attempt[<<r, i>>]>> : i \in {j \in Positions : outcome[<<r, j>>] = "ok"}}]
absTold == [r \in Requests |->
               CASE ends[r] = 0 \/ clientGone[r] -> "nothing"
                 [] ends[r] > 0 /\ ~clientGone[r] /\ errors[r] = 0 -> "whole"
                 [] OTHER -> "failure"]
absStage == [r \in Requests |->
                CASE gpc[r] = "idle" -> "idle"
                  [] gpc[r] = "done" -> "closed"
                  [] OTHER -> "open"]

AbstractExchange == INSTANCE Exchange WITH
    Sources <- Positions \X (0..MaxRetries),
    stage <- absStage, source <- absSource, served <- absServed,
    gone <- clientGone, told <- absTold

ImplementsExchange == AbstractExchange!Spec

\* Every request is brought to an end even if no upstream ever answers, as
\* long as no upstream goes on sending events for ever.
RequestEnds ==
    \A r \in Requests : gpc[r] = "trying" ~> gpc[r] = "done"

-----------------------------------------------------------------------------
(* What a comment of the repository says, and the code does not do.         *)

\* policy.service.ts:128-129: "A caller abort is not a provider failure - the
\* client is gone".  As a property: a policy call sees its caller abort only
\* when the client has gone.
CallerAbortMeansClientGone ==
    \A r \in Requests, i \in Positions :
        pc[<<r, i>>] # P!Ended /\ callerAborted[<<r, i>>] => clientGone[r]
=============================================================================
