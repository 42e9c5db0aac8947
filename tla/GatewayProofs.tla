---------------------------- MODULE GatewayProofs ----------------------------
(***************************************************************************)
(* Proofs about module Gateway, for any number of concurrent requests, any *)
(* chains and any settings.                                                *)
(*                                                                         *)
(* The policy calls <<r, i>> of the requests are calls of module Policy,   *)
(* so what PolicyProofs shows of a step of a call holds of them; the other *)
(* requests' use of a breaker is covered by the lemma about its updates.   *)
(*                                                                         *)
(* On top of the policy's invariant the proof needs to know, of a request, *)
(* that a call nobody wants any more has been cancelled, that positions    *)
(* not reached yet are untouched, that a fallback starts with nothing      *)
(* written, and that what is written was delivered by the attempt the      *)
(* current position stands at, which can then not be retried.              *)
(***************************************************************************)
EXTENDS Gateway, FiniteSetTheorems, TLAPS

PP == INSTANCE PolicyProofs WITH Calls <- Requests \X Positions

Calls == Requests \X Positions

\* Only a reply writes the end of a response, and it does so once.
RepliedAtEnd(r) ==
    /\ gpc[r] # "done" => errors[r] = 0 /\ ends[r] = 0
    /\ gpc[r] = "done" => ends[r] = 1 \/ clientGone[r]

\* A request starts at its first position, and while a policy call is awaited,
\* it is one of the chain.
InChain(r) ==
    /\ gpc[r] = "idle" => pos[r] = 1
    /\ gpc[r] \in {"waiting", "holding"} => pos[r] <= Len(chain[r])

\* The positions not reached yet have not been tried.
Untried(r) ==
    \A i \in Positions :
        i > pos[r] \/ (i = pos[r] /\ gpc[r] \in {"idle", "trying"}) =>
            pc[<<r, i>>] = P!Ended /\ outcome[<<r, i>>] = "none"

\* A policy call that is still running is the one the gateway awaits, for a
\* client that is there, or it has been cancelled; only a stream goes on while
\* another call is awaited.
Wanted(r) ==
    \A i \in Positions :
        LET awaited == i = pos[r] /\ gpc[r] \in {"waiting", "holding"}
        IN  pc[<<r, i>>] # P!Ended =>
                /\ callerAborted[<<r, i>>] \/ (awaited /\ ~clientGone[r])
                /\ mode[r] = "stream" \/ awaited

\* A position starts with nothing written, only a stream is written before its
\* end, and what has been written comes from the attempt at which its call
\* stands.
Written(r) ==
    /\ gpc[r] \in {"idle", "trying"} => sources[r] = {}
    /\ gpc[r] = "waiting" /\ ~yieldedAny[r] => sources[r] = {}
    /\ gpc[r] = "waiting" /\ mode[r] # "stream" => sources[r] = {}
    /\ gpc[r] = "holding" =>
          /\ mode[r] = "stream"
          /\ yieldedAny[r]
          /\ attempt[Call(r)] \in delivered[Call(r)]
    /\ \A s \in sources[r] :
          /\ s = <<pos[r], attempt[Call(r)]>>
          /\ \/ attempt[Call(r)] \in delivered[Call(r)]
             \/ gpc[r] = "done" /\ pc[Call(r)] = P!Ended

RequestInv(r) ==
    RepliedAtEnd(r) /\ InChain(r) /\ Untried(r) /\ Wanted(r) /\ Written(r)

GInv == PP!IInv /\ TypeOK /\ \A r \in Requests : RequestInv(r)

-----------------------------------------------------------------------------
(* The policy's invariant.                                                  *)

\* The gateway's settings are settings of the policy.
LEMMA PolicySettings ==
  /\ MaxRetries \in Nat
  /\ BaseDelay \in Nat
  /\ TimeoutMs \in Nat
  /\ Threshold \in Nat \ {0}
  /\ ResetMs \in Nat
  /\ NoProvider \notin Providers
  /\ PP!IsFiniteSet(Requests \X Positions)
<1>1. IsFiniteSet(Positions)
  BY GatewayAssumption, FS_Interval DEF Positions
<1>2. IsFiniteSet(Requests \X Positions)
  BY <1>1, GatewayAssumption, FS_Product
<1>3. PP!IsFiniteSet(Requests \X Positions)
  BY <1>2 DEF IsFiniteSet, PP!IsFiniteSet
<1>4. QED
  BY <1>3, GatewayAssumption

\* The policy's invariant gives the types of its variables.
LEMMA PolicyTypes == (PP!IInv => P!TypeOK) /\ (PP!IInv' => P!TypeOK')
  BY DEF PP!IInv, PP!TypeOK, P!TypeOK, PP!Ended, P!Ended, PP!Kinds, P!Kinds,
         PP!Attempts, P!Attempts, PP!Outcomes, P!Outcomes

\* The actions of Policy that module Gateway names are those that PolicyProofs
\* is about.
LEMMA SameEntries ==
  ASSUME NEW c \in Calls, NEW p \in Providers, NEW kd \in {"once", "stream"}
  PROVE  /\ P!Admit(c, p, kd) => PP!Admit(c, p, kd)
         /\ P!AdmitAborted(c, p, kd) => PP!AdmitAborted(c, p, kd)
         /\ P!Refuse(c, p, kd) => PP!Refuse(c, p, kd)
  BY DEF P!Admit, P!AdmitAborted, P!Refuse, PP!Admit, PP!AdmitAborted, PP!Refuse,
     P!Admits, PP!Admits, P!Enter, PP!Enter, P!AfterCheck, PP!AfterCheck, P!Closed,
     PP!Closed, P!StartAttempt, PP!StartAttempt, P!End, PP!End, P!Ended, PP!Ended

\* The handler of a failed attempt is that of the policy on its own.
LEMMA SameCatch == \A c \in Calls : P!Caught(c) => PP!Caught(c)
  BY DEF P!Caught, PP!Caught, P!AbortAttempt, PP!AbortAttempt, P!callVars, PP!callVars,
     P!CaughtAborted, PP!CaughtAborted, P!CaughtYielded, PP!CaughtYielded,
     P!CaughtRetry, PP!CaughtRetry, P!CaughtExhausted, PP!CaughtExhausted,
     P!End, PP!End, P!Ended, PP!Ended, P!AfterFailure, PP!AfterFailure,
     P!BackoffDelay, PP!BackoffDelay

\* The steps of a call of the gateway are those of the policy on its own.
LEMMA SameSteps ==
  ASSUME NEW c \in Calls
  PROVE  /\ P!UpstreamSuccess(c) => PP!UpstreamSuccess(c)
         /\ P!UpstreamFailure(c) => PP!UpstreamFailure(c)
         /\ P!UpstreamEvent(c) => PP!UpstreamEvent(c)
         /\ P!UpstreamEventThenReturn(c) => PP!UpstreamEventThenReturn(c)
         /\ P!LateSettle(c) => PP!LateSettle(c)
         /\ P!Timers(c) => PP!Timers(c)
         /\ P!CallerAbort(c) => PP!CallerAbort(c)
         /\ P!Cancel(c) => PP!Cancel(c)
         /\ P!ConsumerNext(c) => PP!ConsumerNext(c)
         /\ P!ConsumerReturn(c) => PP!ConsumerReturn(c)
<1> USE DEF P!Settle, PP!Settle, P!AbortAttempt, PP!AbortAttempt, P!End, PP!End,
            P!Ended, PP!Ended, P!callVars, PP!callVars
<1>1. P!UpstreamSuccess(c) => PP!UpstreamSuccess(c)
  BY DEF P!UpstreamSuccess, PP!UpstreamSuccess, P!AfterSuccess, PP!AfterSuccess,
         P!Closed, PP!Closed
<1>2. P!UpstreamFailure(c) => PP!UpstreamFailure(c)
  BY SameCatch DEF P!UpstreamFailure, PP!UpstreamFailure
<1>3. /\ P!UpstreamEvent(c) => PP!UpstreamEvent(c)
      /\ P!UpstreamEventThenReturn(c) => PP!UpstreamEventThenReturn(c)
      /\ P!LateSettle(c) => PP!LateSettle(c)
  BY DEF P!UpstreamEvent, PP!UpstreamEvent, P!UpstreamEventThenReturn,
         PP!UpstreamEventThenReturn, P!LateSettle, PP!LateSettle
<1>4. P!Timers(c) => PP!Timers(c)
  BY SameCatch DEF P!Timers, PP!Timers, P!AttemptTimeout, PP!AttemptTimeout,
                   P!WakeUp, PP!WakeUp, P!StartAttempt, PP!StartAttempt
<1>5. /\ P!CallerAbort(c) => PP!CallerAbort(c)
      /\ P!Cancel(c) => PP!Cancel(c)
      /\ P!ConsumerNext(c) => PP!ConsumerNext(c)
      /\ P!ConsumerReturn(c) => PP!ConsumerReturn(c)
  BY DEF P!CallerAbort, PP!CallerAbort, P!Cancel, PP!Cancel, P!ConsumerNext,
         PP!ConsumerNext, P!ConsumerReturn, PP!ConsumerReturn
<1>6. QED
  BY <1>1, <1>2, <1>3, <1>4, <1>5

\* A policy call is entered (TryProvider), goes on (PolicyStep, StreamEvent) or
\* its caller acts (IdleTimeout, ClientClose, WriteChunk, BreakOff).
LEMMA CallIInv ==
  ASSUME PP!IInv, NEW c \in Calls,
         \/ \E p \in Providers, kd \in {"once", "stream"} :
               P!Admit(c, p, kd) \/ P!AdmitAborted(c, p, kd) \/ P!Refuse(c, p, kd)
         \/ P!UpstreamSuccess(c) \/ P!UpstreamFailure(c) \/ P!UpstreamEvent(c)
         \/ P!UpstreamEventThenReturn(c) \/ P!LateSettle(c) \/ P!Timers(c)
         \/ P!CallerAbort(c) \/ P!Cancel(c) \/ P!ConsumerNext(c) \/ P!ConsumerReturn(c)
  PROVE  PP!IInv'
<1>1. PP!Invoke(c) \/ PP!Upstream(c) \/ PP!Timers(c) \/ PP!Caller(c)
  BY SameEntries, SameSteps DEF PP!Invoke, PP!Kinds, PP!Upstream, PP!Caller
<1>2. QED
  BY <1>1, PP!InvokeIInv, PP!UpstreamIInv, PP!TimersIInv, PP!CallerIInv,
     PolicySettings DEF Calls

\* Time passes.
LEMMA TickedIInv == PP!IInv /\ P!Tick => PP!IInv'
<1> SUFFICES ASSUME PP!IInv, P!Tick PROVE PP!IInv'
  OBVIOUS
<1>1. PP!Tick
  BY DEF P!Tick, PP!Tick, P!callVars, PP!callVars
<1>2. QED
  BY <1>1, PP!TickIInv, PolicySettings

\* What other requests do to a breaker.
LEMMA OthersIInv == PP!IInv /\ Others => PP!IInv'
<1> SUFFICES ASSUME PP!IInv, Others PROVE PP!IInv'
  OBVIOUS
<1>1. PICK p \in Providers : OthersAdmitted(p) \/ OthersSucceed(p) \/ OthersFail(p)
  BY DEF Others
<1>2. PP!TypeOK /\ PP!BreakerConsistent
  BY DEF PP!IInv
<1>3. \/ circuit' = PP!AfterCheck(p)
      \/ circuit' = PP!AfterSuccess(p)
      \/ circuit' = PP!AfterFailure(p)
  BY <1>1 DEF OthersAdmitted, OthersSucceed, OthersFail, P!AfterCheck, PP!AfterCheck,
     P!AfterSuccess, PP!AfterSuccess, P!AfterFailure, PP!AfterFailure, P!Closed, PP!Closed
<1>4. /\ circuit' \in [Providers -> [failures : Nat, elapsed : 0..ResetMs,
                                     isOpen : BOOLEAN]]
      /\ PP!BreakerConsistent'
  BY <1>2, <1>3, PP!CircuitUpdates, PolicySettings
<1>5. UNCHANGED <<pc, kind, target, attempt, timer, callerAborted, returning,
                  inflight, aborted, delivered, outcome>>
  BY DEF Others
<1>6. QED
  BY <1>4, <1>5 DEF PP!IInv, PP!TypeOK, PP!OneLiveAttempt, PP!NoReplay,
                    PP!AttemptDiscipline

\* A step that leaves the policy alone.
LEMMA StutteredIInv == PP!IInv /\ UNCHANGED policyVars => PP!IInv'
  BY DEF policyVars, PP!IInv, PP!TypeOK, PP!BreakerConsistent, PP!OneLiveAttempt,
         PP!NoReplay, PP!AttemptDiscipline

-----------------------------------------------------------------------------
(* The gateway's invariant.                                                 *)

\* A chain is a sequence of at most MaxChain providers.
LEMMA ChainTypes ==
  ASSUME TypeOK, NEW r \in Requests
  PROVE  /\ chain[r] \in Seq(Providers)
         /\ Len(chain[r]) \in 0..MaxChain
         /\ pos[r] \in Nat \ {0}
         /\ pos[r] <= Len(chain[r]) =>
               /\ pos[r] \in Positions
               /\ Call(r) \in Calls
               /\ chain[r][pos[r]] \in Providers
<1>1. chain[r] \in Chains /\ chain[r] \in Seq(Providers) /\ Len(chain[r]) <= MaxChain
  BY GatewayAssumption DEF TypeOK
<1>2. MaxChain \in Nat /\ Len(chain[r]) \in Nat /\ pos[r] \in 1..(MaxChain + 1)
  BY <1>1, GatewayAssumption DEF TypeOK
<1>3. QED
  BY <1>1, <1>2 DEF Positions, Call, Calls

\* What a request sees of a step that is not its own, or only its calls': the
\* gateway stands where it stood, and its calls can only have advanced.
Advanced(q) ==
    /\ gpc'[q] = gpc[q]
    /\ pos'[q] = pos[q]
    /\ chain'[q] = chain[q]
    /\ mode'[q] = mode[q]
    /\ yieldedAny'[q] = yieldedAny[q]
    /\ clientGone'[q] = clientGone[q]
    /\ sources'[q] = sources[q]
    /\ errors'[q] = errors[q]
    /\ ends'[q] = ends[q]
    /\ \A i \in Positions :
         LET c == <<q, i>>
         IN  /\ pc[c] = P!Ended =>
                   pc'[c] = P!Ended /\ attempt'[c] = attempt[c] /\ outcome'[c] = outcome[c]
             /\ callerAborted'[c] = callerAborted[c]
             /\ delivered[c] \subseteq delivered'[c]
             /\ attempt[c] \in delivered[c] => attempt'[c] = attempt[c]

\* A request whose calls only run on keeps its invariant.
LEMMA AdvancedInv ==
  ASSUME TypeOK, NEW q \in Requests, RequestInv(q), Advanced(q)
  PROVE  RequestInv(q)'
<1>1. RepliedAtEnd(q)' /\ InChain(q)'
  BY DEF RequestInv, Advanced, RepliedAtEnd, InChain
<1>2. Untried(q)'
  BY DEF RequestInv, Advanced, Untried
<1>3. Wanted(q)'
  BY DEF RequestInv, Advanced, Wanted
<1>4. Written(q)'
  <2>1. gpc[q] = "holding" \/ sources[q] # {} => pos[q] \in Positions
    BY ChainTypes DEF RequestInv, InChain, Written, TypeOK
  <2>2. Call(q)' = Call(q) /\ Call(q) = <<q, pos[q]>>
    BY DEF Advanced, Call
  <2>3. QED
    BY <2>1, <2>2 DEF RequestInv, Advanced, Written
<1>5. QED
  BY <1>1, <1>2, <1>3, <1>4 DEF RequestInv

\* A request that has not been answered is answered once by its completion.
LEMMA CompleteTypes ==
  ASSUME TypeOK, NEW r \in Requests, RequestInv(r), gpc[r] # "done",
         NEW n \in 0..1, Complete(r, n)
  PROVE  /\ gpc' = [gpc EXCEPT ![r] = "done"]
         /\ event' \in [Requests -> Event \cup {NoEvent}]
         /\ idle' \in [Requests -> 0..IdleMs]
         /\ errors' \in [Requests -> 0..1]
         /\ ends' \in [Requests -> 0..1]
         /\ \A q \in Requests \ {r} : errors'[q] = errors[q] /\ ends'[q] = ends[q]
         /\ errors'[r] = n /\ ends'[r] = 1
<1>1. errors[r] = 0 /\ ends[r] = 0
  BY DEF RequestInv, RepliedAtEnd
<1>2. /\ gpc' = [gpc EXCEPT ![r] = "done"]
      /\ event' \in [Requests -> Event \cup {NoEvent}]
      /\ idle' \in [Requests -> 0..IdleMs]
  BY GatewayAssumption DEF Complete, Over, TypeOK
<1>3. /\ errors' = [errors EXCEPT ![r] = n]
      /\ ends' = [ends EXCEPT ![r] = 1]
  BY <1>1 DEF Complete, TypeOK
<1>4. QED
  BY <1>2, <1>3 DEF TypeOK

\* By a reply it is answered at most once.
LEMMA ReplyTypes ==
  ASSUME TypeOK, NEW r \in Requests, RequestInv(r), gpc[r] # "done",
         NEW n \in 0..1, Reply(r, n)
  PROVE  /\ gpc' = [gpc EXCEPT ![r] = "done"]
         /\ event' \in [Requests -> Event \cup {NoEvent}]
         /\ idle' \in [Requests -> 0..IdleMs]
         /\ errors' \in [Requests -> 0..1]
         /\ ends' \in [Requests -> 0..1]
         /\ \A q \in Requests \ {r} : errors'[q] = errors[q] /\ ends'[q] = ends[q]
         /\ clientGone[r] => errors'[r] = errors[r] /\ ends'[r] = ends[r]
         /\ ~clientGone[r] => errors'[r] = n /\ ends'[r] = 1
<1>1. CASE clientGone[r]
  <2>1. Over(r) /\ UNCHANGED <<errors, ends>>
    BY <1>1 DEF Reply
  <2>2. QED
    BY <1>1, <2>1, GatewayAssumption DEF Over, TypeOK
<1>2. CASE ~clientGone[r]
  BY <1>2, CompleteTypes DEF Reply
<1>3. QED
  BY <1>1, <1>2

\* What the catch block around a position leaves, when the position had been
\* entered: the response is over, or the next position is tried with nothing
\* written.
LEMMA FailedTypes ==
  ASSUME TypeOK, P!TypeOK', NEW r \in Requests, RequestInv(r), gpc[r] = "waiting",
         PositionFailed(r)
  PROVE  /\ TypeOK'
         /\ \/ /\ gpc' = [gpc EXCEPT ![r] = "done"]
               /\ UNCHANGED pos
               /\ \E n \in 0..1 : Reply(r, n)
            \/ /\ gpc' = [gpc EXCEPT ![r] = "trying"]
               /\ pos' = [pos EXCEPT ![r] = @ + 1]
               /\ ~yieldedAny[r]
               /\ UNCHANGED <<errors, ends>>
<1>1. UNCHANGED <<mode, chain, yieldedAny, clientGone, sources, events>>
  BY DEF PositionFailed
<1>2. CASE \E n \in 0..1 : Reply(r, n) /\ UNCHANGED pos
  <2>1. PICK n \in 0..1 : Reply(r, n) /\ UNCHANGED pos
    BY <1>2
  <2>2. QED
    BY <1>1, <2>1, ReplyTypes DEF TypeOK
<1>3. CASE FallBack(r)
  <2>1. pos[r] + 1 \in 1..(MaxChain + 1)
    BY ChainTypes, GatewayAssumption DEF RequestInv, InChain, Positions
  <2>2. 0 \in 0..IdleMs
    BY GatewayAssumption
  <2>3. QED
    BY <1>1, <1>3, <2>1, <2>2 DEF FallBack, TypeOK
<1>4. QED
  BY <1>2, <1>3 DEF PositionFailed, ClientHasLeft, OutputHasBegun

\* A request arrives.
LEMMA ArriveInv ==
  ASSUME GInv, PP!IInv', NEW r \in Requests, NEW m \in Modes, NEW ch \in Chains,
         Arrive(r, m, ch)
  PROVE  GInv'
<1> USE DEF GInv
<1>1. TypeOK'
  <2>1. P!TypeOK'
    BY PolicyTypes
  <2>2. QED
    BY <2>1 DEF Arrive, TypeOK, replyVars
<1>2. ASSUME NEW q \in Requests \ {r}
      PROVE  RequestInv(q)'
  <2>1. Advanced(q)
    BY <1>2 DEF Arrive, Advanced, TypeOK, policyVars, replyVars
  <2>2. QED
    BY <2>1, AdvancedInv
<1>3. RequestInv(r)'
  <2>1. /\ gpc[r] = "idle" /\ gpc'[r] = "trying"
        /\ UNCHANGED <<policyVars, pos, sources, errors, ends>>
    BY DEF Arrive, TypeOK, replyVars
  <2>2. \A i \in Positions : pc[<<r, i>>] = P!Ended /\ outcome[<<r, i>>] = "none"
    BY <2>1 DEF RequestInv, InChain, Untried, Positions
  <2>3. QED
    BY <2>1, <2>2 DEF policyVars, RequestInv, RepliedAtEnd, InChain, Untried, Wanted,
                      Written
<1>4. QED
  BY <1>1, <1>2, <1>3

\* A position is tried.
LEMMA TryProviderInv ==
  ASSUME GInv, PP!IInv', NEW r \in Requests, TryProvider(r)
  PROVE  GInv'
<1> DEFINE p == chain[r][pos[r]]
           kd == CallKind(mode[r])
<1> USE DEF GInv
<1>1. /\ pos[r] \in Positions /\ Call(r) \in Calls /\ p \in Providers
      /\ gpc[r] = "trying" /\ pos[r] <= Len(chain[r])
  BY ChainTypes DEF TryProvider
<1>2. TypeOK'
  <2>1. P!TypeOK' /\ (IF mode[r] = "stream" THEN IdleMs ELSE 0) \in 0..IdleMs
    BY PolicyTypes, GatewayAssumption
  <2>2. QED
    BY <2>1 DEF TryProvider, TypeOK, replyVars
<1>3. /\ \A c \in Calls \ {Call(r)} :
            /\ pc'[c] = pc[c]
            /\ attempt'[c] = attempt[c]
            /\ outcome'[c] = outcome[c]
            /\ callerAborted'[c] = callerAborted[c]
            /\ delivered'[c] = delivered[c]
      /\ pc'[Call(r)] # P!Ended => ~clientGone[r]
  <2>1. \/ ~clientGone[r] /\ P!Admit(Call(r), p, kd)
        \/ P!AdmitAborted(Call(r), p, kd)
        \/ P!Refuse(Call(r), p, kd)
    BY DEF TryProvider
  <2>2. CASE ~clientGone[r] /\ P!Admit(Call(r), p, kd)
    BY <1>1, <2>2, PolicyTypes DEF P!Admit, P!Enter, P!StartAttempt, P!TypeOK, Calls
  <2>3. CASE P!AdmitAborted(Call(r), p, kd) \/ P!Refuse(Call(r), p, kd)
    <3>1. \E how : P!End(Call(r), how)
      BY <2>3 DEF P!AdmitAborted, P!Refuse
    <3>2. \E gone \in BOOLEAN : P!Enter(Call(r), p, kd, gone)
      BY <2>3 DEF P!AdmitAborted, P!Refuse
    <3>3. QED
      BY <1>1, <3>1, <3>2, PolicyTypes DEF P!End, P!Enter, P!TypeOK, Calls
  <2>4. QED
    BY <2>1, <2>2, <2>3
<1>4. ASSUME NEW q \in Requests \ {r}
      PROVE  RequestInv(q)'
  <2>1. \A i \in Positions : <<q, i>> \in Calls \ {Call(r)}
    BY <1>4 DEF Call, Calls
  <2>2. Advanced(q)
    BY <1>3, <2>1 DEF TryProvider, Advanced, TypeOK, replyVars
  <2>3. QED
    BY <2>2, AdvancedInv
<1>5. RequestInv(r)'
  <2>1. /\ gpc'[r] = "waiting" /\ yieldedAny'[r] = FALSE
        /\ UNCHANGED <<mode, chain, pos, clientGone, sources, errors, ends>>
    BY DEF TryProvider, TypeOK, replyVars
  <2>2. sources[r] = {} /\ RepliedAtEnd(r)
    BY <1>1 DEF RequestInv, Written
  <2>3. RepliedAtEnd(r)' /\ InChain(r)' /\ Written(r)'
    BY <1>1, <2>1, <2>2 DEF RepliedAtEnd, InChain, Written
  <2>4. \A i \in Positions : i # pos[r] => <<r, i>> \in Calls \ {Call(r)}
    BY DEF Call, Calls
  <2>5. Untried(r)'
    BY <1>1, <1>3, <2>1, <2>4, ChainTypes DEF RequestInv, Untried, Positions
  <2>6. Wanted(r)'
    BY <1>1, <1>3, <2>1, <2>4 DEF RequestInv, Wanted, Call
  <2>7. QED
    BY <2>3, <2>5, <2>6 DEF RequestInv
<1>6. QED
  BY <1>2, <1>4, <1>5

\* No position is left.
LEMMA ChainExhaustedInv ==
  ASSUME GInv, PP!IInv', NEW r \in Requests, ChainExhausted(r)
  PROVE  GInv'
<1> USE DEF GInv
<1>1. /\ gpc[r] = "trying" /\ Reply(r, 1) /\ 1 \in 0..1
      /\ UNCHANGED <<policyVars, mode, chain, pos, yieldedAny, clientGone, sources, events>>
  BY DEF ChainExhausted
<1>2. TypeOK'
  BY <1>1, ReplyTypes, PolicyTypes DEF TypeOK
<1>3. ASSUME NEW q \in Requests \ {r}
      PROVE  RequestInv(q)'
  <2>1. Advanced(q)
    BY <1>1, <1>3, ReplyTypes DEF Advanced, TypeOK, policyVars
  <2>2. QED
    BY <2>1, AdvancedInv
<1>4. RequestInv(r)'
  <2>1. gpc'[r] = "done" /\ (ends'[r] = 1 \/ clientGone'[r])
    BY <1>1, ReplyTypes DEF TypeOK
  <2>2. QED
    BY <1>1, <2>1 DEF policyVars, RequestInv, RepliedAtEnd, InChain, Untried, Wanted, Written
<1>5. QED
  BY <1>2, <1>3, <1>4

\* A success ends the request: a stream for a client that is there, any other
\* answer in any case.
LEMMA SucceededTypes ==
  ASSUME TypeOK, NEW r \in Requests, RequestInv(r), PositionSucceeded(r)
  PROVE  /\ gpc' = [gpc EXCEPT ![r] = "done"]
         /\ event' \in [Requests -> Event \cup {NoEvent}]
         /\ idle' \in [Requests -> 0..IdleMs]
         /\ errors' \in [Requests -> 0..1]
         /\ ends' \in [Requests -> 0..1]
         /\ \A q \in Requests \ {r} : errors'[q] = errors[q] /\ ends'[q] = ends[q]
         /\ errors'[r] = 0
         /\ clientGone[r] /\ mode[r] = "stream" => ends'[r] = ends[r]
         /\ ~(clientGone[r] /\ mode[r] = "stream") => ends'[r] = 1
<1>1. gpc[r] # "done" /\ 0 \in 0..1 /\ errors[r] = 0
  BY DEF PositionSucceeded, RequestInv, RepliedAtEnd
<1>2. CASE StreamOver(r)
  BY <1>1, <1>2, ReplyTypes DEF StreamOver
<1>3. CASE AnswerSent(r)
  BY <1>1, <1>3, CompleteTypes DEF AnswerSent
<1>4. QED
  BY <1>2, <1>3 DEF PositionSucceeded

\* The policy call of the position has succeeded.
LEMMA PositionSucceededInv ==
  ASSUME GInv, PP!IInv', NEW r \in Requests, PositionSucceeded(r)
  PROVE  GInv'
<1> USE DEF GInv
<1>1. /\ gpc[r] = "waiting" /\ pc[Call(r)] = P!Ended
      /\ UNCHANGED <<policyVars, mode, chain, pos, yieldedAny, clientGone, events>>
      /\ \/ UNCHANGED sources
         \/ sources' = [sources EXCEPT ![r] = @ \cup {<<pos[r], attempt[Call(r)]>>}]
  BY DEF PositionSucceeded, StreamOver, AnswerSent
<1>2. /\ gpc' = [gpc EXCEPT ![r] = "done"]
      /\ event' \in [Requests -> Event \cup {NoEvent}]
      /\ idle' \in [Requests -> 0..IdleMs]
      /\ errors' \in [Requests -> 0..1]
      /\ ends' \in [Requests -> 0..1]
      /\ \A q \in Requests \ {r} : errors'[q] = errors[q] /\ ends'[q] = ends[q]
      /\ ends'[r] = 1 \/ clientGone[r]
  BY <1>1, SucceededTypes
<1>3. /\ pos[r] \in Positions /\ Call(r) \in Calls
      /\ <<pos[r], attempt[Call(r)]>> \in Positions \X (0..MaxRetries)
  BY <1>1, ChainTypes, PolicyTypes DEF RequestInv, InChain, P!TypeOK, P!Attempts, Calls
<1>4. TypeOK'
  BY <1>1, <1>3, <1>2, PolicyTypes DEF TypeOK
<1>5. ASSUME NEW q \in Requests \ {r}
      PROVE  RequestInv(q)'
  <2>1. Advanced(q)
    BY <1>1, <1>5, <1>2 DEF Advanced, TypeOK, policyVars
  <2>2. QED
    BY <2>1, AdvancedInv
<1>6. RequestInv(r)'
  <2>1. gpc'[r] = "done" /\ (ends'[r] = 1 \/ clientGone'[r])
    BY <1>1, <1>2 DEF TypeOK
  <2>2. RepliedAtEnd(r)' /\ InChain(r)' /\ Untried(r)'
    BY <1>1, <2>1 DEF policyVars, RequestInv, RepliedAtEnd, InChain, Untried
  <2>3. Wanted(r)'
    BY <1>1, <2>1 DEF policyVars, RequestInv, Wanted, Call
  <2>4. Written(r)'
    <3>1. sources'[r] \subseteq sources[r] \cup {<<pos[r], attempt[Call(r)]>>}
      BY <1>1 DEF TypeOK
    <3>2. Call(r)' = Call(r)
      BY <1>1 DEF Call
    <3>3. QED
      BY <1>1, <2>1, <3>1, <3>2 DEF policyVars, RequestInv, Written
  <2>5. QED
    BY <2>2, <2>3, <2>4 DEF RequestInv
<1>7. QED
  BY <1>4, <1>5, <1>6

\* A position has failed whose policy call is over or has been cancelled.
LEMMA FailedInv ==
  ASSUME TypeOK, P!TypeOK', NEW r \in Requests, RequestInv(r),
         gpc[r] = "waiting", PositionFailed(r),
         UNCHANGED <<pc, attempt, outcome, delivered>>,
         \A i \in Positions \ {pos[r]} : callerAborted'[<<r, i>>] = callerAborted[<<r, i>>],
         pc[Call(r)] = P!Ended \/ (callerAborted'[Call(r)] /\ mode[r] = "stream"),
         \A c \in Calls : callerAborted[c] => callerAborted'[c]
  PROVE  RequestInv(r)'
<1>1. /\ TypeOK'
      /\ UNCHANGED <<mode, chain, yieldedAny, clientGone, sources, events>>
  BY FailedTypes DEF PositionFailed
<1>2. pos[r] \in Positions /\ Call(r) = <<r, pos[r]>>
  BY ChainTypes DEF RequestInv, InChain, Call
<1>3. CASE gpc' = [gpc EXCEPT ![r] = "done"] /\ UNCHANGED pos /\ \E n \in 0..1 : Reply(r, n)
  <2>1. gpc'[r] = "done" /\ (ends'[r] = 1 \/ clientGone'[r])
    BY <1>1, <1>3, ReplyTypes DEF TypeOK
  <2>2. RepliedAtEnd(r)' /\ InChain(r)'
    BY <2>1 DEF RepliedAtEnd, InChain
  <2>3. Untried(r)' /\ Wanted(r)'
    BY <1>1, <1>2, <1>3, <2>1 DEF RequestInv, Untried, Wanted
  <2>4. Written(r)'
    <3>1. Call(r)' = Call(r)
      BY <1>3 DEF Call
    <3>2. QED
      BY <1>1, <1>3, <2>1, <3>1 DEF RequestInv, Written
  <2>5. QED
    BY <2>2, <2>3, <2>4 DEF RequestInv
<1>4. CASE /\ gpc' = [gpc EXCEPT ![r] = "trying"]
           /\ pos' = [pos EXCEPT ![r] = @ + 1]
           /\ ~yieldedAny[r]
           /\ UNCHANGED <<errors, ends>>
  <2>1. gpc'[r] = "trying" /\ pos'[r] = pos[r] + 1
    BY <1>4 DEF TypeOK
  <2>2. RepliedAtEnd(r)' /\ InChain(r)'
    BY <1>4, <2>1 DEF RequestInv, RepliedAtEnd, InChain
  <2>3. Untried(r)'
    BY <1>2, <2>1 DEF RequestInv, Untried, Positions
  <2>4. Wanted(r)'
    BY <1>1, <1>2, <2>1 DEF RequestInv, Wanted
  <2>5. Written(r)'
    BY <1>1, <1>4, <2>1 DEF RequestInv, Written
  <2>6. QED
    BY <2>2, <2>3, <2>4, <2>5 DEF RequestInv
<1>5. QED
  BY <1>3, <1>4, FailedTypes

\* The policy call of the position threw, or its stream has been idle.
LEMMA PositionFailedInv ==
  ASSUME GInv, PP!IInv', NEW r \in Requests, PolicyCallFailed(r) \/ IdleTimeout(r)
  PROVE  GInv'
<1> USE DEF GInv
<1>1. gpc[r] = "waiting" /\ PositionFailed(r)
  BY DEF PolicyCallFailed, IdleTimeout
<1>2. P!TypeOK /\ P!TypeOK'
  BY PolicyTypes
<1>3. pos[r] \in Positions /\ Call(r) = <<r, pos[r]>> /\ Call(r) \in Calls
  BY <1>1, ChainTypes DEF RequestInv, InChain, Call
<1>4. /\ UNCHANGED <<pc, attempt, outcome, delivered>>
      /\ \A c \in Calls \ {Call(r)} : callerAborted'[c] = callerAborted[c]
      /\ pc[Call(r)] = P!Ended \/ (callerAborted'[Call(r)] /\ mode[r] = "stream")
      /\ \A c \in Calls : callerAborted[c] => callerAborted'[c]
  <2>1. CASE PolicyCallFailed(r)
    BY <2>1 DEF PolicyCallFailed, policyVars
  <2>2. CASE IdleTimeout(r)
    <3>1. P!Cancel(Call(r)) /\ mode[r] = "stream"
      BY <2>2 DEF IdleTimeout
    <3>2. QED
      BY <1>2, <1>3, <3>1 DEF P!Cancel, P!TypeOK, Calls
  <2>3. QED
    BY <2>1, <2>2
<1>5. TypeOK' /\ UNCHANGED <<mode, chain, yieldedAny, clientGone, sources, events>>
  BY <1>1, <1>2, FailedTypes DEF PositionFailed
<1>6. ASSUME NEW q \in Requests \ {r}
      PROVE  RequestInv(q)'
  <2>1. \A i \in Positions : <<q, i>> \in Calls \ {Call(r)}
    BY <1>3, <1>6 DEF Calls
  <2>2. \/ \E n \in 0..1 : Reply(r, n) /\ UNCHANGED pos
        \/ pos' = [pos EXCEPT ![r] = @ + 1] /\ gpc' = [gpc EXCEPT ![r] = "trying"]
              /\ UNCHANGED <<errors, ends>>
    BY <1>1, <1>2, FailedTypes
  <2>3. gpc'[q] = gpc[q] /\ pos'[q] = pos[q] /\ errors'[q] = errors[q] /\ ends'[q] = ends[q]
    BY <1>1, <2>2, ReplyTypes DEF TypeOK
  <2>4. Advanced(q)
    BY <1>4, <1>5, <2>1, <2>3 DEF Advanced
  <2>5. QED
    BY <2>4, AdvancedInv
<1>7. RequestInv(r)'
  <2>1. \A i \in Positions \ {pos[r]} : <<r, i>> \in Calls \ {Call(r)}
    BY <1>3 DEF Calls
  <2>2. QED
    BY <1>1, <1>2, <1>4, <2>1, FailedInv
<1>8. QED
  BY <1>5, <1>6, <1>7

\* The calls of other requests are other calls.
LEMMA OtherCalls ==
  ASSUME NEW r \in Requests, NEW q \in Requests \ {r}, NEW i \in Positions
  PROVE  <<q, i>> \in Calls \ {Call(r)}
  BY DEF Calls, Call

\* An event reaches the controller.
LEMMA StreamEventInv ==
  ASSUME GInv, PP!IInv', NEW r \in Requests, StreamEvent(r)
  PROVE  GInv'
<1> USE DEF GInv
<1>1. /\ gpc[r] = "waiting" /\ mode[r] = "stream" /\ events[r] < MaxEvents
      /\ P!UpstreamEvent(Call(r))
  BY DEF StreamEvent
<1>2. P!TypeOK /\ P!TypeOK'
  BY PolicyTypes
<1>3. pos[r] \in Positions /\ Call(r) = <<r, pos[r]>> /\ Call(r) \in Calls
  BY <1>1, ChainTypes DEF RequestInv, InChain, Call
<1>4. /\ \A c \in Calls : pc'[c] = P!Ended <=> pc[c] = P!Ended
      /\ UNCHANGED <<attempt, outcome, callerAborted>>
      /\ \A c \in Calls \ {Call(r)} : delivered'[c] = delivered[c]
      /\ \A c \in Calls : delivered[c] \subseteq delivered'[c]
      /\ attempt[Call(r)] \in delivered'[Call(r)]
  BY <1>1, <1>2, <1>3 DEF P!UpstreamEvent, P!TypeOK, P!Ended, Calls
<1>5. TypeOK'
  <2>1. events[r] + 1 \in 0..MaxEvents /\ 0 \in 0..IdleMs
    BY <1>1, GatewayAssumption DEF TypeOK
  <2>2. QED
    BY <1>2, <2>1 DEF StreamEvent, TypeOK, replyVars
<1>6. /\ gpc' = [gpc EXCEPT ![r] = "holding"]
      /\ yieldedAny' = [yieldedAny EXCEPT ![r] = TRUE]
      /\ UNCHANGED <<mode, chain, pos, clientGone, sources, errors, ends>>
  BY DEF StreamEvent, replyVars
<1>7. ASSUME NEW q \in Requests \ {r}
      PROVE  RequestInv(q)'
  <2>1. Advanced(q)
    BY <1>3, <1>4, <1>6, OtherCalls DEF Advanced, TypeOK
  <2>2. QED
    BY <2>1, AdvancedInv
<1>8. RequestInv(r)'
  <2>1. gpc'[r] = "holding" /\ yieldedAny'[r] = TRUE /\ Call(r)' = Call(r)
    BY <1>6 DEF TypeOK, Call
  <2>2. RepliedAtEnd(r)' /\ InChain(r)' /\ Written(r)'
    BY <1>1, <1>4, <1>6, <2>1 DEF RequestInv, RepliedAtEnd, InChain, Written
  <2>3. \A i \in Positions : <<r, i>> \in Calls
    BY DEF Calls
  <2>4. Untried(r)' /\ Wanted(r)'
    BY <1>1, <1>4, <1>6, <2>1, <2>3 DEF RequestInv, Untried, Wanted
  <2>5. QED
    BY <2>2, <2>4 DEF RequestInv
<1>9. QED
  BY <1>5, <1>7, <1>8

\* The controller writes the event and asks for the next one.
LEMMA WriteChunkInv ==
  ASSUME GInv, PP!IInv', NEW r \in Requests, WriteChunk(r)
  PROVE  GInv'
<1> USE DEF GInv
<1>1. /\ gpc[r] = "holding" /\ ~clientGone[r] /\ P!ConsumerNext(Call(r))
      /\ gpc' = [gpc EXCEPT ![r] = "waiting"]
      /\ sources' = [sources EXCEPT ![r] = @ \cup {<<pos[r], attempt[Call(r)]>>}]
      /\ UNCHANGED <<mode, chain, pos, yieldedAny, clientGone, errors, ends, events>>
  BY DEF WriteChunk
<1>2. P!TypeOK /\ P!TypeOK'
  BY PolicyTypes
<1>3. /\ pos[r] \in Positions /\ Call(r) = <<r, pos[r]>> /\ Call(r) \in Calls
      /\ <<pos[r], attempt[Call(r)]>> \in Positions \X (0..MaxRetries)
  BY <1>1, <1>2, ChainTypes DEF RequestInv, InChain, Call, P!TypeOK, P!Attempts, Calls
<1>4. /\ \A c \in Calls : pc'[c] = P!Ended <=> pc[c] = P!Ended
      /\ UNCHANGED <<attempt, outcome, callerAborted, delivered>>
  BY <1>1, <1>2, <1>3 DEF P!ConsumerNext, P!TypeOK, P!Ended, Calls
<1>5. TypeOK'
  <2>1. IdleMs \in 0..IdleMs
    BY GatewayAssumption
  <2>2. QED
    BY <1>1, <1>2, <1>3, <2>1 DEF WriteChunk, TypeOK
<1>6. ASSUME NEW q \in Requests \ {r}
      PROVE  RequestInv(q)'
  <2>1. Advanced(q)
    BY <1>1, <1>4, OtherCalls DEF Advanced, TypeOK
  <2>2. QED
    BY <2>1, AdvancedInv
<1>7. RequestInv(r)'
  <2>1. /\ gpc'[r] = "waiting" /\ Call(r)' = Call(r)
        /\ sources'[r] = sources[r] \cup {<<pos[r], attempt[Call(r)]>>}
    BY <1>1 DEF TypeOK, Call
  <2>2. RepliedAtEnd(r)' /\ InChain(r)' /\ Written(r)'
    BY <1>1, <1>4, <2>1 DEF RequestInv, RepliedAtEnd, InChain, Written
  <2>3. \A i \in Positions : <<r, i>> \in Calls
    BY DEF Calls
  <2>4. Untried(r)' /\ Wanted(r)'
    BY <1>1, <1>4, <2>1, <2>3 DEF RequestInv, Untried, Wanted
  <2>5. QED
    BY <2>2, <2>4 DEF RequestInv
<1>8. QED
  BY <1>5, <1>6, <1>7

\* The controller leaves its loop at an event.
LEMMA BreakOffInv ==
  ASSUME GInv, PP!IInv', NEW r \in Requests, BreakOff(r)
  PROVE  GInv'
<1> USE DEF GInv
<1>1. /\ gpc[r] = "holding" /\ P!ConsumerReturn(Call(r)) /\ Reply(r, 1) /\ 1 \in 0..1
      /\ UNCHANGED <<mode, chain, pos, yieldedAny, clientGone, sources, events>>
  BY DEF BreakOff
<1>2. P!TypeOK /\ P!TypeOK'
  BY PolicyTypes
<1>3. pos[r] \in Positions /\ Call(r) = <<r, pos[r]>> /\ Call(r) \in Calls
  BY <1>1, ChainTypes DEF RequestInv, InChain, Call
<1>4. /\ \A c \in Calls \ {Call(r)} : pc'[c] = pc[c] /\ outcome'[c] = outcome[c]
      /\ pc'[Call(r)] = P!Ended
      /\ UNCHANGED <<attempt, callerAborted, delivered>>
  BY <1>1, <1>2, <1>3 DEF P!ConsumerReturn, P!End, P!TypeOK, Calls
<1>5. TypeOK'
  BY <1>1, <1>2, ReplyTypes DEF TypeOK
<1>6. ASSUME NEW q \in Requests \ {r}
      PROVE  RequestInv(q)'
  <2>1. Advanced(q)
    BY <1>1, <1>4, OtherCalls, ReplyTypes DEF Advanced, TypeOK
  <2>2. QED
    BY <2>1, AdvancedInv
<1>7. RequestInv(r)'
  <2>1. /\ gpc'[r] = "done" /\ Call(r)' = Call(r)
        /\ ends'[r] = 1 \/ clientGone'[r]
    BY <1>1, ReplyTypes DEF TypeOK, Call
  <2>2. RepliedAtEnd(r)' /\ InChain(r)' /\ Written(r)'
    BY <1>1, <1>4, <2>1 DEF RequestInv, RepliedAtEnd, InChain, Written
  <2>3. \A i \in Positions \ {pos[r]} : <<r, i>> \in Calls \ {Call(r)}
    BY <1>3 DEF Calls
  <2>4. Untried(r)' /\ Wanted(r)'
    BY <1>1, <1>3, <1>4, <2>1, <2>3 DEF RequestInv, Untried, Wanted, Positions
  <2>5. QED
    BY <2>2, <2>4 DEF RequestInv
<1>8. QED
  BY <1>5, <1>6, <1>7

\* The client disconnects.
LEMMA ClientCloseInv ==
  ASSUME GInv, PP!IInv', NEW r \in Requests, ClientClose(r)
  PROVE  GInv'
<1> USE DEF GInv
<1>1. /\ gpc[r] \in {"trying", "waiting", "holding"}
      /\ clientGone' = [clientGone EXCEPT ![r] = TRUE]
      /\ UNCHANGED <<mode, chain, pos, gpc, yieldedAny, event, idle, sources, errors,
                     ends, events>>
  BY DEF ClientClose, replyVars
<1>2. P!TypeOK /\ P!TypeOK'
  BY PolicyTypes
<1>3. /\ UNCHANGED <<pc, attempt, outcome, delivered>>
      /\ \A c \in Calls : callerAborted[c] => callerAborted'[c]
      /\ \A c \in Calls \ {Call(r)} : callerAborted'[c] = callerAborted[c]
      /\ gpc[r] # "trying" /\ pc[Call(r)] # P!Ended => callerAborted'[Call(r)]
  <2>1. CASE gpc[r] # "trying" /\ pc[Call(r)] # P!Ended
    <3>1. Call(r) \in Calls /\ P!CallerAbort(Call(r))
      BY <1>1, <2>1, ChainTypes DEF ClientClose, RequestInv, InChain
    <3>2. QED
      BY <1>2, <3>1 DEF P!CallerAbort, P!TypeOK, Calls
  <2>2. CASE ~(gpc[r] # "trying" /\ pc[Call(r)] # P!Ended)
    BY <2>2 DEF ClientClose, policyVars
  <2>3. QED
    BY <2>1, <2>2
<1>4. TypeOK'
  BY <1>1, <1>2 DEF TypeOK
<1>5. ASSUME NEW q \in Requests \ {r}
      PROVE  RequestInv(q)'
  <2>1. Advanced(q)
    BY <1>1, <1>3, OtherCalls DEF Advanced, TypeOK
  <2>2. QED
    BY <2>1, AdvancedInv
<1>6. RequestInv(r)'
  <2>1. clientGone'[r] = TRUE /\ Call(r)' = Call(r)
    BY <1>1 DEF TypeOK, Call
  <2>2. RepliedAtEnd(r)' /\ InChain(r)' /\ Untried(r)' /\ Written(r)'
    BY <1>1, <1>3, <2>1 DEF RequestInv, RepliedAtEnd, InChain, Untried, Written
  <2>3. Wanted(r)'
    BY <1>1, <1>3, <2>1 DEF RequestInv, Wanted, Call, Calls
  <2>4. QED
    BY <2>2, <2>3 DEF RequestInv
<1>7. QED
  BY <1>4, <1>5, <1>6

\* A policy call goes on by itself.
LEMMA PolicyStepInv ==
  ASSUME GInv, PP!IInv', NEW r \in Requests, PolicyStep(r)
  PROVE  GInv'
<1> USE DEF GInv
<1>1. PICK i \in Positions :
         \/ P!UpstreamSuccess(<<r, i>>) \/ P!UpstreamFailure(<<r, i>>)
         \/ P!UpstreamEventThenReturn(<<r, i>>) \/ P!LateSettle(<<r, i>>)
         \/ P!Timers(<<r, i>>)
  BY DEF PolicyStep
<1>2. <<r, i>> \in Calls /\ UNCHANGED gatewayVars
  BY DEF PolicyStep, Calls
<1>3. \A d \in Calls :
        /\ pc[d] = P!Ended =>
              pc'[d] = P!Ended /\ attempt'[d] = attempt[d] /\ outcome'[d] = outcome[d]
        /\ callerAborted'[d] = callerAborted[d]
        /\ delivered[d] \subseteq delivered'[d]
        /\ attempt[d] \in delivered[d] => attempt'[d] = attempt[d]
  BY <1>1, <1>2, SameSteps, PP!CallsAdvance, PolicySettings DEF Calls, P!Ended, PP!Ended
<1>4. TypeOK'
  BY <1>2, PolicyTypes DEF gatewayVars, replyVars, TypeOK
<1>5. ASSUME NEW q \in Requests
      PROVE  RequestInv(q)'
  <2>1. \A j \in Positions : <<q, j>> \in Calls
    BY DEF Calls
  <2>2. Advanced(q)
    BY <1>2, <1>3, <2>1 DEF gatewayVars, replyVars, Advanced
  <2>3. QED
    BY <2>2, AdvancedInv
<1>6. QED
  BY <1>4, <1>5

\* Time passes, other requests use the breakers, or nothing happens.
LEMMA BackgroundInv ==
  ASSUME GInv, PP!IInv', Tick \/ Others \/ UNCHANGED vars
  PROVE  GInv'
<1> USE DEF GInv
<1>1. /\ UNCHANGED <<pc, attempt, outcome, callerAborted, delivered>>
      /\ UNCHANGED <<mode, chain, pos, gpc, yieldedAny, event, clientGone, sources,
                     errors, ends, events>>
  BY DEF Tick, Others, vars, policyVars, gatewayVars, replyVars, P!Tick
<1>2. idle' \in [Requests -> 0..IdleMs]
  <2>1. CASE Tick
    <3>1. \A r \in Requests : (IF idle[r] > 0 THEN idle[r] - 1 ELSE 0) \in 0..IdleMs
      BY GatewayAssumption DEF TypeOK
    <3>2. QED
      BY <2>1, <3>1 DEF Tick
  <2>2. CASE Others \/ UNCHANGED vars
    BY <2>2 DEF Others, vars, gatewayVars, TypeOK
  <2>3. QED
    BY <2>1, <2>2
<1>3. TypeOK'
  BY <1>1, <1>2, PolicyTypes DEF TypeOK
<1>4. ASSUME NEW q \in Requests
      PROVE  RequestInv(q)'
  <2>1. Advanced(q)
    BY <1>1 DEF Advanced
  <2>2. QED
    BY <2>1, AdvancedInv
<1>5. QED
  BY <1>3, <1>4

\* Whatever happens, every policy call obeys the policy.
LEMMA NextPolicyInv ==
  ASSUME GInv, [Next]_vars
  PROVE  PP!IInv'
<1> USE DEF GInv
<1>1. CASE Tick \/ Others \/ UNCHANGED vars
  BY <1>1, TickedIInv, OthersIInv, StutteredIInv DEF Tick, vars
<1>2. ASSUME NEW r \in Requests, TryProvider(r)
      PROVE  PP!IInv'
  <2>1. /\ Call(r) \in Calls /\ chain[r][pos[r]] \in Providers
        /\ CallKind(mode[r]) \in {"once", "stream"}
    BY <1>2, ChainTypes DEF TryProvider, CallKind
  <2>2. QED
    BY <1>2, <2>1, CallIInv DEF TryProvider
<1>3. ASSUME NEW r \in Requests,
             \/ IdleTimeout(r) \/ StreamEvent(r) \/ WriteChunk(r) \/ BreakOff(r)
             \/ ClientClose(r)
      PROVE  PP!IInv'
  <2>1. CASE gpc[r] = "trying" \/ pc[Call(r)] = P!Ended
    <3>1. UNCHANGED policyVars \/ (Call(r) \in Calls /\ PP!IInv')
      <4>1. CASE ClientClose(r)
        BY <2>1, <4>1 DEF ClientClose
      <4>2. CASE IdleTimeout(r) \/ StreamEvent(r) \/ WriteChunk(r) \/ BreakOff(r)
        <5>1. gpc[r] \in {"waiting", "holding"}
          BY <4>2 DEF IdleTimeout, StreamEvent, WriteChunk, BreakOff
        <5>2. Call(r) \in Calls
          BY <5>1, ChainTypes DEF RequestInv, InChain
        <5>3. QED
          BY <4>2, <5>2, CallIInv DEF IdleTimeout, StreamEvent, WriteChunk, BreakOff
      <4>3. QED
        BY <1>3, <4>1, <4>2
    <3>2. QED
      BY <3>1, StutteredIInv
  <2>2. CASE gpc[r] # "trying" /\ pc[Call(r)] # P!Ended
    <3>1. gpc[r] \in {"waiting", "holding"}
      BY <1>3, <2>2 DEF IdleTimeout, StreamEvent, WriteChunk, BreakOff, ClientClose
    <3>2. Call(r) \in Calls
      BY <3>1, ChainTypes DEF RequestInv, InChain
    <3>3. QED
      BY <1>3, <2>2, <3>2, CallIInv
      DEF IdleTimeout, StreamEvent, WriteChunk, BreakOff, ClientClose
  <2>3. QED
    BY <2>1, <2>2
<1>4. ASSUME NEW r \in Requests, PolicyStep(r)
      PROVE  PP!IInv'
  <2>1. \A i \in Positions : <<r, i>> \in Calls
    BY DEF Calls
  <2>2. QED
    BY <1>4, <2>1, CallIInv DEF PolicyStep
<1>5. ASSUME NEW r \in Requests,
             \/ \E m \in Modes, ch \in Chains : Arrive(r, m, ch)
             \/ ChainExhausted(r) \/ PositionSucceeded(r) \/ PolicyCallFailed(r)
      PROVE  PP!IInv'
  BY <1>5, StutteredIInv DEF Arrive, ChainExhausted, PositionSucceeded, PolicyCallFailed
<1>6. QED
  BY <1>1, <1>2, <1>3, <1>4, <1>5 DEF Next, Gateway

\* A gateway that has received nothing satisfies the invariant.
LEMMA InitGInv == Init => GInv
<1> SUFFICES ASSUME Init PROVE GInv
  OBVIOUS
<1>1. PP!IInv
  <2>1. PP!Init
    BY DEF Init, P!Init, PP!Init, P!ClosedCircuit, PP!ClosedCircuit, P!Ended, PP!Ended
  <2>2. QED
    BY <2>1, PP!InitIInv, PolicySettings
<1>2. TypeOK
  BY <1>1, PolicyTypes, GatewayAssumption DEF Init, TypeOK, Modes
<1>3. \A r \in Requests : RequestInv(r)
  BY DEF Init, P!Init, RequestInv, RepliedAtEnd, InChain, Untried, Wanted, Written
<1>4. QED
  BY <1>1, <1>2, <1>3 DEF GInv

\* Every step of the gateway keeps the invariant.
LEMMA NextGInv == GInv /\ [Next]_vars => GInv'
<1> SUFFICES ASSUME GInv, [Next]_vars PROVE GInv'
  OBVIOUS
<1>1. PP!IInv'
  BY NextPolicyInv
<1>2. CASE Tick \/ Others \/ UNCHANGED vars
  BY <1>1, <1>2, BackgroundInv
<1>3. ASSUME NEW r \in Requests,
             \/ \E m \in Modes, ch \in Chains : Arrive(r, m, ch)
             \/ Gateway(r)
      PROVE  GInv'
  BY <1>1, <1>3, ArriveInv, TryProviderInv, ChainExhaustedInv, PositionSucceededInv,
     PositionFailedInv, WriteChunkInv, BreakOffInv DEF Gateway
<1>4. ASSUME NEW r \in Requests,
             IdleTimeout(r) \/ StreamEvent(r) \/ ClientClose(r) \/ PolicyStep(r)
      PROVE  GInv'
  BY <1>1, <1>4, PositionFailedInv, StreamEventInv, ClientCloseInv, PolicyStepInv
<1>5. QED
  BY <1>2, <1>3, <1>4 DEF Next

-----------------------------------------------------------------------------
\* The invariant holds in every state.
LEMMA GatewayInvariant == Spec => []GInv
  BY InitGInv, NextGInv, PTL DEF Spec

\* Every variable of the gateway and of its policy calls keeps its type: in
\* particular no position beyond the end of a chain is called, and a response
\* is completed at most once with at most one error.
THEOREM TypeCorrect == Spec => []TypeOK
<1>1. GInv => TypeOK
  BY DEF GInv
<1>2. QED
  BY <1>1, GatewayInvariant, PTL

\* The calls that the gateway makes keep what PolicyProofs shows of calls made
\* in any order, with other requests using the same breakers.
THEOREM PolicyKept == Spec => [](P!BreakerConsistent /\ P!OneLiveAttempt /\ P!NoReplay)
<1>1. GInv => P!BreakerConsistent /\ P!OneLiveAttempt /\ P!NoReplay
  BY DEF GInv, PP!IInv, PP!BreakerConsistent, P!BreakerConsistent, PP!OneLiveAttempt,
         P!OneLiveAttempt, PP!NoReplay, P!NoReplay
<1>2. QED
  BY <1>1, GatewayInvariant, PTL

\* A client reads the output of one attempt at one provider.
THEOREM NothingIsSpliced == Spec => []NoSplice
<1>1. GInv => NoSplice
  <2> SUFFICES ASSUME GInv, NEW r \in Requests
               PROVE  Cardinality(sources[r]) <= 1
    BY DEF NoSplice
  <2>1. sources[r] \subseteq {<<pos[r], attempt[Call(r)]>>}
    BY DEF GInv, RequestInv, Written
  <2>2. sources[r] = {} \/ sources[r] = {<<pos[r], attempt[Call(r)]>>}
    BY <2>1
  <2>3. QED
    BY <2>2, FS_EmptySet, FS_Singleton
<1>2. QED
  BY <1>1, GatewayInvariant, PTL

\* Nothing runs upstream for a request unless a client is waiting for it.
THEOREM UpstreamIsWanted == Spec => []LiveUpstreamIsWanted
<1>1. GInv => LiveUpstreamIsWanted
  <2> SUFFICES ASSUME GInv, NEW r \in Requests, Live(r) # {}
               PROVE  /\ ~clientGone[r]
                      /\ gpc[r] \in {"waiting", "holding"}
                      /\ Live(r) = {<<pos[r], attempt[Call(r)]>>}
    BY DEF LiveUpstreamIsWanted
  <2>1. ASSUME NEW s \in Live(r)
        PROVE  /\ ~clientGone[r]
               /\ gpc[r] \in {"waiting", "holding"}
               /\ s = <<pos[r], attempt[Call(r)]>>
    <3>1. /\ s \in Positions \X (0..MaxRetries)
          /\ s[2] \in inflight[<<r, s[1]>>] \ aborted[<<r, s[1]>>]
          /\ ~callerAborted[<<r, s[1]>>]
      BY DEF Live, P!SignalAborted
    <3>2. s[1] \in Positions /\ <<r, s[1]>> \in Calls /\ s = <<s[1], s[2]>>
      BY <3>1 DEF Calls
    <3>3. s[2] = attempt[<<r, s[1]>>] /\ pc[<<r, s[1]>>] # P!Ended
      BY <3>1, <3>2 DEF GInv, PP!IInv, PP!OneLiveAttempt, Calls, P!Ended
    <3>4. s[1] = pos[r] /\ gpc[r] \in {"waiting", "holding"} /\ ~clientGone[r]
      BY <3>1, <3>2, <3>3 DEF GInv, RequestInv, Wanted
    <3>5. QED
      BY <3>2, <3>3, <3>4 DEF Call
  <2>2. QED
    BY <2>1
<1>2. QED
  BY <1>1, GatewayInvariant, PTL

-----------------------------------------------------------------------------
(* Completion.                                                              *)

\* A response that is complete or whose client has gone is left alone, unless a
\* whole answer is sent to a client that has gone.
LEMMA ClosedIsLeftAlone ==
  ASSUME GInv, [Next]_vars, NEW q \in Requests, ends[q] = 1 \/ clientGone[q]
  PROVE  LeftAlone(q) \/ (ends[q] # 1 /\ SentWhole(q))
<1> USE DEF GInv
<1>1. gpc[q] = "done" \/ clientGone[q]
  BY DEF RequestInv, RepliedAtEnd
<1>2. CASE Tick \/ Others \/ UNCHANGED vars
  BY <1>2 DEF Tick, Others, vars, gatewayVars, replyVars, LeftAlone
<1>3. ASSUME NEW r \in Requests,
             \/ \E m \in Modes, ch \in Chains : Arrive(r, m, ch)
             \/ TryProvider(r) \/ StreamEvent(r) \/ ClientClose(r) \/ PolicyStep(r)
      PROVE  UNCHANGED replyVars
  BY <1>3 DEF Arrive, TryProvider, StreamEvent, ClientClose, PolicyStep, gatewayVars
<1>4. ASSUME NEW r \in Requests, NEW n \in 0..1, gpc[r] # "done", Reply(r, n)
      PROVE  errors'[q] = errors[q] /\ ends'[q] = ends[q]
  BY <1>1, <1>4, ReplyTypes
<1>5. ASSUME NEW r \in Requests, ChainExhausted(r) \/ BreakOff(r)
      PROVE  LeftAlone(q)
  BY <1>4, <1>5 DEF ChainExhausted, BreakOff, LeftAlone
<1>6. ASSUME NEW r \in Requests, PositionSucceeded(r)
      PROVE  LeftAlone(q) \/ (ends[q] # 1 /\ SentWhole(q))
  <2>1. /\ gpc[r] = "waiting" /\ outcome[Call(r)] = "ok"
        /\ StreamOver(r) \/ AnswerSent(r)
    BY <1>6 DEF PositionSucceeded
  <2>2. CASE StreamOver(r)
    BY <1>4, <2>1, <2>2 DEF StreamOver, LeftAlone
  <2>3. CASE AnswerSent(r) /\ q # r
    <3>1. sources'[q] = sources[q]
      BY <2>3 DEF AnswerSent, TypeOK
    <3>2. QED
      BY <1>6, <2>3, <3>1, SucceededTypes DEF LeftAlone
  <2>4. CASE AnswerSent(r) /\ q = r
    <3>1. /\ mode[r] # "stream"
          /\ sources' = [sources EXCEPT ![r] = @ \cup {<<pos[r], attempt[Call(r)]>>}]
      BY <2>4 DEF AnswerSent
    <3>2. sources[r] = {} /\ ends[r] = 0
      BY <2>1, <3>1 DEF RequestInv, Written, RepliedAtEnd
    <3>3. sources'[r] = {<<pos[r], attempt[Call(r)]>>}
      BY <3>1, <3>2 DEF TypeOK
    <3>4. errors'[r] = 0 /\ ends'[r] = 1
      BY <1>6, <3>1, SucceededTypes
    <3>5. QED
      BY <2>1, <2>4, <3>1, <3>2, <3>3, <3>4 DEF SentWhole
  <2>5. QED
    BY <2>1, <2>2, <2>3, <2>4
<1>7. ASSUME NEW r \in Requests, PolicyCallFailed(r) \/ IdleTimeout(r)
      PROVE  LeftAlone(q)
  <2>1. gpc[r] = "waiting" /\ PositionFailed(r)
    BY <1>7 DEF PolicyCallFailed, IdleTimeout
  <2>2. \/ \E n \in 0..1 : Reply(r, n)
        \/ UNCHANGED <<errors, ends>>
    BY <2>1 DEF PositionFailed, ClientHasLeft, OutputHasBegun, FallBack
  <2>3. QED
    BY <1>4, <2>1, <2>2 DEF PositionFailed, LeftAlone
<1>8. ASSUME NEW r \in Requests, WriteChunk(r)
      PROVE  LeftAlone(q)
  BY <1>1, <1>8 DEF WriteChunk, TypeOK, LeftAlone
<1>9. QED
  BY <1>2, <1>3, <1>5, <1>6, <1>7, <1>8 DEF Next, Gateway, replyVars, LeftAlone

\* A response is completed once and not written to afterwards, a client that
\* stays gets it completed, and one that has gone is sent nothing, unless the
\* whole answer of a request that is not streamed still comes for it.
THEOREM ResponsesCompletedOnce == Spec => CompletedOnce
<1>1. GInv /\ GInv' /\ [Next]_vars =>
        \A r \in Requests :
          /\ ends[r] = 1 => LeftAlone(r)
          /\ clientGone[r] => LeftAlone(r) \/ SentWhole(r)
          /\ gpc'[r] = "done" => ends'[r] = 1 \/ clientGone'[r]
  BY ClosedIsLeftAlone DEF GInv, RequestInv, RepliedAtEnd
<1>2. QED
  BY <1>1, GatewayInvariant, PTL DEF Spec, CompletedOnce

-----------------------------------------------------------------------------
(* The abstract exchange.                                                   *)

\* A step that adds nothing to what sources have served to the end.
ServedSame(q) ==
    \A i \in Positions :
        LET c == <<q, i>>
        IN  /\ outcome'[c] = "ok" <=> outcome[c] = "ok"
            /\ outcome[c] = "ok" => attempt'[c] = attempt[c]

\* Only a success serves: an ok call stays as it is, and an unfinished call
\* becomes one by its upstream alone.
LEMMA NextServed ==
  ASSUME GInv, [Next]_vars,
         \A c \in Calls : ~(P!UpstreamSuccess(c) /\ UNCHANGED gatewayVars)
  PROVE  \A q \in Requests : ServedSame(q)
<1> USE DEF GInv
<1>1. /\ P!TypeOK
      /\ \A c \in Calls : outcome[c] # "none" => pc[c] = P!Ended
  BY PolicyTypes DEF PP!IInv, PP!AttemptDiscipline, Calls, P!Ended, PP!Ended
<1>2. SUFFICES \A c \in Calls : /\ outcome'[c] = "ok" <=> outcome[c] = "ok"
                                /\ outcome[c] = "ok" => attempt'[c] = attempt[c]
  BY DEF ServedSame, Calls
<1>3. CASE UNCHANGED <<outcome, attempt>>
  BY <1>3
<1>4. ASSUME NEW r \in Requests, TryProvider(r)
      PROVE  \A c \in Calls : /\ outcome'[c] = "ok" <=> outcome[c] = "ok"
                              /\ outcome[c] = "ok" => attempt'[c] = attempt[c]
  <2> DEFINE p == chain[r][pos[r]]
             kd == CallKind(mode[r])
  <2>1. Call(r) \in Calls /\ outcome[Call(r)] = "none"
    BY <1>4, ChainTypes DEF TryProvider, RequestInv, Untried, Call
  <2>2. \/ P!Admit(Call(r), p, kd)
        \/ P!AdmitAborted(Call(r), p, kd) \/ P!Refuse(Call(r), p, kd)
    BY <1>4 DEF TryProvider
  <2>3. CASE P!Admit(Call(r), p, kd)
    BY <1>1, <2>1, <2>3 DEF P!Admit, P!StartAttempt, P!TypeOK, Calls
  <2>4. CASE P!AdmitAborted(Call(r), p, kd) \/ P!Refuse(Call(r), p, kd)
    <3>1. P!End(Call(r), "abort") \/ P!End(Call(r), "refused")
      BY <2>4 DEF P!AdmitAborted, P!Refuse
    <3>2. QED
      BY <1>1, <2>1, <3>1 DEF P!End, P!TypeOK, Calls
  <2>5. QED
    BY <2>2, <2>3, <2>4
<1>5. ASSUME NEW r \in Requests, PolicyStep(r)
      PROVE  \A c \in Calls : /\ outcome'[c] = "ok" <=> outcome[c] = "ok"
                              /\ outcome[c] = "ok" => attempt'[c] = attempt[c]
  <2>1. PICK i \in Positions :
           \/ P!UpstreamSuccess(<<r, i>>) \/ P!UpstreamFailure(<<r, i>>)
           \/ P!UpstreamEventThenReturn(<<r, i>>) \/ P!LateSettle(<<r, i>>)
           \/ P!Timers(<<r, i>>)
    BY <1>5 DEF PolicyStep
  <2>2. <<r, i>> \in Calls /\ UNCHANGED gatewayVars
    BY <1>5 DEF PolicyStep, Calls
  <2>3. ~P!UpstreamSuccess(<<r, i>>)
    BY <2>2
  <2>4. ~PP!UpstreamSuccess(<<r, i>>)
    BY <2>2, <2>3
    DEF P!UpstreamSuccess, PP!UpstreamSuccess, P!AfterSuccess, PP!AfterSuccess, P!Closed,
        PP!Closed, P!Settle, PP!Settle, P!AbortAttempt, PP!AbortAttempt, P!End, PP!End,
        P!Ended, PP!Ended, P!callVars, PP!callVars
  <2>5. \A c \in Calls :
          /\ pc[c] = P!Ended => attempt'[c] = attempt[c] /\ outcome'[c] = outcome[c]
          /\ outcome'[c] = "ok" => outcome[c] = "ok"
    BY <2>1, <2>2, <2>4, SameSteps, PP!CallsAdvance, PolicySettings
    DEF Calls, P!Ended, PP!Ended
  <2>6. QED
    BY <1>1, <2>5
<1>6. ASSUME NEW r \in Requests, BreakOff(r)
      PROVE  \A c \in Calls : /\ outcome'[c] = "ok" <=> outcome[c] = "ok"
                              /\ outcome[c] = "ok" => attempt'[c] = attempt[c]
  <2>1. P!ConsumerReturn(Call(r)) /\ Call(r) \in Calls
    BY <1>6, ChainTypes DEF BreakOff, RequestInv, InChain
  <2>2. outcome[Call(r)] = "none"
    BY <1>1, <2>1 DEF P!ConsumerReturn, P!Ended
  <2>3. QED
    BY <1>1, <2>1, <2>2 DEF P!ConsumerReturn, P!End, P!TypeOK, Calls
<1>7. ASSUME NEW r \in Requests,
             \/ \E m \in Modes, ch \in Chains : Arrive(r, m, ch)
             \/ ChainExhausted(r) \/ PositionSucceeded(r) \/ PolicyCallFailed(r)
             \/ IdleTimeout(r) \/ StreamEvent(r) \/ WriteChunk(r) \/ ClientClose(r)
      PROVE  UNCHANGED <<outcome, attempt>>
  BY <1>7 DEF Arrive, ChainExhausted, PositionSucceeded, PolicyCallFailed, IdleTimeout,
     StreamEvent, WriteChunk, ClientClose, policyVars, P!Cancel, P!UpstreamEvent,
     P!ConsumerNext, P!CallerAbort
<1>8. CASE Tick \/ Others \/ UNCHANGED vars
  BY <1>3, <1>8 DEF Tick, P!Tick, Others, vars, policyVars
<1>9. QED
  BY <1>3, <1>4, <1>5, <1>6, <1>7, <1>8 DEF Next, Gateway

\* What serves a request is told by the variables of ServedSame.
LEMMA ServedUnchanged ==
  ASSUME NEW q \in Requests, ServedSame(q)
  PROVE  absServed'[q] = absServed[q]
  BY DEF absServed, ServedSame

\* A source is told by what has been read.
LEMMA SourceUnchanged ==
  ASSUME NEW q \in Requests, absRead(q)' = absRead(q)
  PROVE  absSource'[q] = absSource[q]
<1> DEFINE f(S) == IF S = {} THEN NoSource ELSE CHOOSE s \in S : TRUE
<1>1. absSource[q] = f(absRead(q)) /\ absSource'[q] = f(absRead(q)')
  BY DEF absSource
<1> HIDE DEF f
<1>2. QED
  BY <1>1

\* What the abstract exchange sees of a request depends on these alone.
LEMMA SeenSame ==
  ASSUME NEW q \in Requests,
         gpc'[q] = gpc[q] \/ {gpc[q], gpc'[q]} \subseteq {"trying", "waiting", "holding"},
         sources'[q] = sources[q], errors'[q] = errors[q], ends'[q] = ends[q],
         mode'[q] = mode[q], clientGone'[q] = clientGone[q], ServedSame(q)
  PROVE  /\ absStage'[q] = absStage[q]
         /\ absSource'[q] = absSource[q]
         /\ absServed'[q] = absServed[q]
         /\ absTold'[q] = absTold[q]
<1>1. absStage'[q] = absStage[q]
  BY DEF absStage
<1>2. absSource'[q] = absSource[q]
  BY SourceUnchanged DEF absRead
<1>3. absServed'[q] = absServed[q]
  BY ServedUnchanged
<1>4. absTold'[q] = absTold[q]
  BY DEF absTold
<1>5. QED
  BY <1>1, <1>2, <1>3, <1>4

\* The abstract state consists of functions of the requests.
LEMMA AbsFunctions ==
  /\ absStage = [q \in Requests |-> absStage[q]]
  /\ absSource = [q \in Requests |-> absSource[q]]
  /\ absServed = [q \in Requests |-> absServed[q]]
  /\ absTold = [q \in Requests |-> absTold[q]]
  /\ absStage' = [q \in Requests |-> absStage'[q]]
  /\ absSource' = [q \in Requests |-> absSource'[q]]
  /\ absServed' = [q \in Requests |-> absServed'[q]]
  /\ absTold' = [q \in Requests |-> absTold'[q]]
  BY DEF absStage, absSource, absServed, absTold

\* The source of what has been read is where the gateway stands.
LEMMA AbsSource ==
  ASSUME GInv, NEW r \in Requests
  PROVE  /\ absRead(r) = {} => absSource[r] = NoSource
         /\ absRead(r) # {} => absSource[r] = <<pos[r], attempt[Call(r)]>>
<1>1. \A s \in absRead(r) : s = <<pos[r], attempt[Call(r)]>>
  BY DEF GInv, RequestInv, Written, absRead
<1>2. absRead(r) # {} => (CHOOSE s \in absRead(r) : TRUE) \in absRead(r)
  OBVIOUS
<1>3. QED
  BY <1>1, <1>2 DEF absSource

\* A step in which a request's exchange does not move.
LEMMA Unseen ==
  ASSUME \A q \in Requests :
           /\ gpc'[q] = gpc[q] \/ {gpc[q], gpc'[q]} \subseteq {"trying", "waiting", "holding"}
           /\ ServedSame(q),
         UNCHANGED <<mode, sources, errors, ends, clientGone>>
  PROVE  UNCHANGED AbstractExchange!evars
<1>1. \A q \in Requests : /\ absStage'[q] = absStage[q]
                          /\ absSource'[q] = absSource[q]
                          /\ absServed'[q] = absServed[q]
                          /\ absTold'[q] = absTold[q]
  BY SeenSame
<1>2. /\ absStage' = absStage
      /\ absSource' = absSource
      /\ absServed' = absServed
      /\ absTold' = absTold
  BY <1>1, AbsFunctions
<1>3. QED
  BY <1>2 DEF AbstractExchange!evars

\* The end of a request whose client has gone is seen by nobody, also where an
\* answer is sent.
LEMMA AbandonRefines ==
  ASSUME GInv, NEW r \in Requests, gpc[r] \in {"trying", "waiting", "holding"},
         clientGone[r], gpc' = [gpc EXCEPT ![r] = "done"], UNCHANGED <<mode, clientGone>>,
         \A q \in Requests \ {r} :
           sources'[q] = sources[q] /\ errors'[q] = errors[q] /\ ends'[q] = ends[q],
         absRead(r)' = absRead(r),
         \A q \in Requests : ServedSame(q)
  PROVE  AbstractExchange!Next
<1>1. TypeOK
  BY DEF GInv
<1>2. \A q \in Requests \ {r} : /\ absStage'[q] = absStage[q]
                                /\ absSource'[q] = absSource[q]
                                /\ absServed'[q] = absServed[q]
                                /\ absTold'[q] = absTold[q]
  BY <1>1, SeenSame DEF TypeOK
<1>3. absServed'[r] = absServed[r]
  BY ServedUnchanged
<1>4. absSource'[r] = absSource[r]
  BY SourceUnchanged
<1>5. absStage[r] = "open" /\ absStage'[r] = "closed"
  BY <1>1 DEF absStage, TypeOK
<1>6. absTold'[r] = "nothing"
  BY DEF absTold
<1>7. /\ absStage' = [absStage EXCEPT ![r] = "closed"]
      /\ absTold' = [absTold EXCEPT ![r] = "nothing"]
      /\ UNCHANGED <<absSource, absServed, clientGone>>
  BY <1>2, <1>3, <1>4, <1>5, <1>6, AbsFunctions
<1>8. AbstractExchange!Abandon(r)
  BY <1>5, <1>7 DEF AbstractExchange!Abandon, AbstractExchange!Close
<1>9. QED
  BY <1>8 DEF AbstractExchange!Next

\* The end of a request that is not a success.
LEMMA ReplyRefines ==
  ASSUME GInv, NEW r \in Requests, gpc[r] \in {"trying", "waiting", "holding"},
         NEW n \in 0..1, n = 1 \/ clientGone[r], Reply(r, n),
         UNCHANGED <<mode, sources, clientGone>>,
         \A q \in Requests : ServedSame(q)
  PROVE  AbstractExchange!Next
<1>1. TypeOK /\ RequestInv(r)
  BY DEF GInv
<1>2. /\ gpc' = [gpc EXCEPT ![r] = "done"]
      /\ \A q \in Requests \ {r} : errors'[q] = errors[q] /\ ends'[q] = ends[q]
      /\ ~clientGone[r] => errors'[r] = n /\ ends'[r] = 1
  BY <1>1, ReplyTypes
<1>3. absRead(r)' = absRead(r)
  BY DEF absRead
<1>4. CASE clientGone[r]
  BY <1>2, <1>3, <1>4, AbandonRefines
<1>5. CASE ~clientGone[r]
  <2>1. \A q \in Requests \ {r} : /\ absStage'[q] = absStage[q]
                                  /\ absSource'[q] = absSource[q]
                                  /\ absServed'[q] = absServed[q]
                                  /\ absTold'[q] = absTold[q]
    BY <1>1, <1>2, SeenSame DEF TypeOK
  <2>2. absSource'[r] = absSource[r] /\ absServed'[r] = absServed[r]
    BY ServedUnchanged DEF absSource, absRead
  <2>3. absStage[r] = "open" /\ absStage'[r] = "closed"
    BY <1>1, <1>2 DEF absStage, TypeOK
  <2>4. absTold'[r] = "failure"
    BY <1>2, <1>5 DEF absTold
  <2>5. /\ absStage' = [absStage EXCEPT ![r] = "closed"]
        /\ absTold' = [absTold EXCEPT ![r] = "failure"]
        /\ UNCHANGED <<absSource, absServed, clientGone>>
    BY <2>1, <2>2, <2>3, <2>4, AbsFunctions
  <2>6. AbstractExchange!Fail(r)
    BY <1>5, <2>3, <2>5 DEF AbstractExchange!Fail, AbstractExchange!Close
  <2>7. QED
    BY <2>6 DEF AbstractExchange!Next
<1>6. QED
  BY <1>4, <1>5

\* A success ends the exchange with the answer whole: the source that served it
\* is the one that anything written before came from.  A client that has gone
\* takes no notice.
LEMMA SucceededRefines ==
  ASSUME GInv, GInv', NEW r \in Requests, PositionSucceeded(r),
         \A q \in Requests : ServedSame(q)
  PROVE  AbstractExchange!Next
<1> DEFINE s == <<pos[r], attempt[Call(r)]>>
<1>1. /\ gpc[r] = "waiting" /\ outcome[Call(r)] = "ok"
      /\ UNCHANGED <<mode, clientGone, pos, attempt>>
      /\ mode[r] = "stream" => UNCHANGED sources
      /\ \/ UNCHANGED sources
         \/ sources' = [sources EXCEPT ![r] = @ \cup {s}]
  BY DEF PositionSucceeded, StreamOver, AnswerSent, policyVars
<1>2. TypeOK /\ RequestInv(r)
  BY DEF GInv
<1>3. /\ gpc' = [gpc EXCEPT ![r] = "done"]
      /\ \A q \in Requests \ {r} : errors'[q] = errors[q] /\ ends'[q] = ends[q]
      /\ ~clientGone[r] => errors'[r] = 0 /\ ends'[r] = 1
  BY <1>2, SucceededTypes
<1>4. \A q \in Requests \ {r} : sources'[q] = sources[q]
  BY <1>1, <1>2 DEF TypeOK
<1>5. CASE clientGone[r]
  <2>1. absRead(r)' = absRead(r)
    BY <1>1, <1>5 DEF absRead
  <2>2. QED
    BY <1>1, <1>3, <1>4, <1>5, <2>1, AbandonRefines
<1>6. CASE ~clientGone[r]
  <2>1. \A q \in Requests \ {r} : /\ absStage'[q] = absStage[q]
                                  /\ absSource'[q] = absSource[q]
                                  /\ absServed'[q] = absServed[q]
                                  /\ absTold'[q] = absTold[q]
    BY <1>1, <1>2, <1>3, <1>4, SeenSame DEF TypeOK
  <2>2. absServed'[r] = absServed[r]
    BY ServedUnchanged
  <2>3. absStage[r] = "open" /\ absStage'[r] = "closed" /\ absTold'[r] = "whole"
    BY <1>1, <1>2, <1>3, <1>6 DEF absStage, absTold, TypeOK
  <2>4. /\ pos[r] \in Positions /\ Call(r) = <<r, pos[r]>> /\ Call(r) \in Calls
        /\ s \in Positions \X (0..MaxRetries)
    BY <1>1, <1>2, ChainTypes, PolicyTypes
    DEF GInv, RequestInv, InChain, P!TypeOK, P!Attempts, Calls, Call
  <2>5. s \in absServed[r]
    BY <1>1, <2>4 DEF absServed
  <2>6. absRead(r) = sources[r] /\ absRead(r)' = sources'[r]
    BY <1>1, <1>6 DEF absRead
  <2>7. absSource[r] \in {NoSource, s}
    BY AbsSource
  <2>8. absSource'[r] \in {absSource[r], s}
    <3>1. CASE UNCHANGED sources
      BY <2>6, <3>1 DEF absSource
    <3>2. CASE sources' = [sources EXCEPT ![r] = @ \cup {s}]
      <4>1. sources'[r] = {s}
        <5>1. sources[r] \subseteq {s}
          BY <1>2 DEF RequestInv, Written
        <5>2. QED
          BY <1>2, <3>2, <5>1 DEF TypeOK
      <4>2. (CHOOSE x \in sources'[r] : TRUE) \in sources'[r]
        BY <4>1
      <4>3. QED
        BY <2>6, <4>1, <4>2 DEF absSource
    <3>3. QED
      BY <1>1, <3>1, <3>2
  <2>9. /\ absStage' = [absStage EXCEPT ![r] = "closed"]
        /\ absTold' = [absTold EXCEPT ![r] = "whole"]
        /\ UNCHANGED <<absServed, clientGone>>
    BY <1>1, <2>1, <2>2, <2>3, AbsFunctions
  <2>10. absSource' \in {absSource, [absSource EXCEPT ![r] = s]}
    BY <2>1, <2>8, AbsFunctions
  <2>11. AbstractExchange!Finish(r, s)
    BY <1>6, <2>3, <2>5, <2>7, <2>9, <2>10
    DEF AbstractExchange!Finish, AbstractExchange!Close
  <2>12. QED
    BY <2>4, <2>11 DEF AbstractExchange!Next
<1>7. QED
  BY <1>5, <1>6

\* A frame that is written comes from the source of those before it.
LEMMA ChunkRefines ==
  ASSUME GInv, GInv', NEW r \in Requests, WriteChunk(r),
         \A q \in Requests : ServedSame(q)
  PROVE  AbstractExchange!Next
<1> DEFINE s == <<pos[r], attempt[Call(r)]>>
<1>1. /\ gpc[r] = "holding" /\ ~clientGone[r]
      /\ gpc' = [gpc EXCEPT ![r] = "waiting"]
      /\ sources' = [sources EXCEPT ![r] = @ \cup {s}]
      /\ UNCHANGED <<mode, clientGone, errors, ends>>
  BY DEF WriteChunk
<1>2. TypeOK /\ RequestInv(r) /\ P!TypeOK
  BY PolicyTypes DEF GInv
<1>3. s \in Positions \X (0..MaxRetries)
  BY <1>1, <1>2, ChainTypes DEF RequestInv, InChain, P!TypeOK, P!Attempts, Calls
<1>4. \A q \in Requests \ {r} : /\ absStage'[q] = absStage[q]
                                /\ absSource'[q] = absSource[q]
                                /\ absServed'[q] = absServed[q]
                                /\ absTold'[q] = absTold[q]
  BY <1>1, <1>2, SeenSame DEF TypeOK
<1>5. /\ absStage[r] = "open" /\ absStage'[r] = "open"
      /\ absTold'[r] = absTold[r] /\ absServed'[r] = absServed[r]
  BY <1>1, <1>2, ServedUnchanged DEF absStage, absTold, TypeOK
<1>6. absSource[r] \in {NoSource, s}
  BY AbsSource
<1>7. absSource'[r] = s
  <2>1. sources'[r] = {s}
    <3>1. sources[r] \subseteq {s}
      BY <1>2 DEF RequestInv, Written
    <3>2. QED
      BY <1>1, <1>2, <3>1 DEF TypeOK
  <2>2. absRead(r)' = sources'[r]
    BY <1>1 DEF absRead
  <2>3. (CHOOSE x \in sources'[r] : TRUE) \in sources'[r]
    BY <2>1
  <2>4. QED
    BY <2>1, <2>2, <2>3 DEF absSource
<1>8. /\ absSource' = [absSource EXCEPT ![r] = s]
      /\ UNCHANGED <<absStage, absServed, clientGone, absTold>>
  <2>1. absSource' = [absSource EXCEPT ![r] = s]
    BY <1>4, <1>7, AbsFunctions
  <2>2. absStage' = absStage /\ absServed' = absServed /\ absTold' = absTold
    <3>1. \A q \in Requests : /\ absStage'[q] = absStage[q]
                              /\ absServed'[q] = absServed[q]
                              /\ absTold'[q] = absTold[q]
      BY <1>4, <1>5
    <3>2. QED
      BY <3>1, AbsFunctions
  <2>3. QED
    BY <1>1, <2>1, <2>2
<1>9. AbstractExchange!Read(r, s)
  BY <1>1, <1>5, <1>6, <1>8 DEF AbstractExchange!Read, AbstractExchange!From
<1>10. QED
  BY <1>3, <1>9 DEF AbstractExchange!Next

\* An upstream serves its answer to the end, whoever still listens.
LEMMA ServeRefines ==
  ASSUME GInv, NEW r \in Requests, NEW i \in Positions,
         P!UpstreamSuccess(<<r, i>>), UNCHANGED gatewayVars
  PROVE  AbstractExchange!Next
<1> DEFINE c == <<r, i>>
           s == <<i, attempt[c]>>
<1>1. P!TypeOK /\ c \in Calls
  BY PolicyTypes DEF GInv, Calls
<1>2. /\ outcome' = [outcome EXCEPT ![c] = "ok"]
      /\ UNCHANGED attempt
  BY DEF P!UpstreamSuccess, P!End
<1>3. UNCHANGED <<mode, gpc, sources, errors, ends, clientGone>>
  BY DEF gatewayVars, replyVars
<1>4. \A q \in Requests \ {r} : absServed'[q] = absServed[q]
  <2>1. \A q \in Requests \ {r}, j \in Positions :
          <<q, j>> \in Calls /\ outcome'[<<q, j>>] = outcome[<<q, j>>]
    BY <1>1, <1>2 DEF P!TypeOK, Calls
  <2>2. QED
    BY <1>2, <2>1 DEF absServed
<1>5. absServed'[r] = absServed[r] \cup {s}
  <2>1. \A j \in Positions : outcome'[<<r, j>>] = "ok" <=> j = i \/ outcome[<<r, j>>] = "ok"
    BY <1>1, <1>2 DEF P!TypeOK, Calls
  <2>2. QED
    BY <1>2, <2>1 DEF absServed
<1>6. UNCHANGED <<absStage, absSource, absTold, clientGone>>
  BY <1>3 DEF absStage, absSource, absRead, absTold
<1>7. absServed' = [absServed EXCEPT ![r] = @ \cup {s}]
  BY <1>4, <1>5, AbsFunctions
<1>8. s \in Positions \X (0..MaxRetries)
  BY <1>1 DEF P!TypeOK, P!Attempts, Calls
<1>9. AbstractExchange!Serve(r, s)
  BY <1>6, <1>7 DEF AbstractExchange!Serve
<1>10. QED
  BY <1>8, <1>9 DEF AbstractExchange!Next

\* The arrival of a request begins an exchange.
LEMMA ArriveRefines ==
  ASSUME GInv, NEW r \in Requests, NEW m \in Modes, NEW ch \in Chains, Arrive(r, m, ch),
         \A q \in Requests : ServedSame(q)
  PROVE  AbstractExchange!Next
<1>1. /\ gpc[r] = "idle" /\ gpc' = [gpc EXCEPT ![r] = "trying"]
      /\ mode' = [mode EXCEPT ![r] = m]
      /\ UNCHANGED <<sources, errors, ends, clientGone>>
  BY DEF Arrive, replyVars
<1>2. TypeOK /\ sources[r] = {}
  BY <1>1 DEF GInv, RequestInv, Written
<1>3. \A q \in Requests : absServed'[q] = absServed[q]
  BY ServedUnchanged
<1>4. UNCHANGED <<absSource, absServed, absTold, clientGone>>
  <2>1. UNCHANGED absServed
    BY <1>3, AbsFunctions
  <2>2. \A q \in Requests : absRead(q)' = absRead(q)
    BY <1>1, <1>2 DEF absRead, TypeOK
  <2>3. UNCHANGED absSource
    <3>1. \A q \in Requests : absSource'[q] = absSource[q]
      BY <2>2, SourceUnchanged
    <3>2. QED
      BY <3>1, AbsFunctions
  <2>4. QED
    BY <1>1, <2>1, <2>3 DEF absTold
<1>5. absStage[r] = "idle" /\ absStage' = [absStage EXCEPT ![r] = "open"]
  BY <1>1, <1>2 DEF absStage, TypeOK
<1>6. QED
  BY <1>4, <1>5 DEF AbstractExchange!Ask, AbstractExchange!Next

\* A client that closes leaves its exchange.
LEMMA CloseRefines ==
  ASSUME GInv, NEW r \in Requests, ClientClose(r),
         \A q \in Requests : ServedSame(q)
  PROVE  AbstractExchange!Next
<1>1. /\ gpc[r] \in {"trying", "waiting", "holding"} /\ ~clientGone[r]
      /\ clientGone' = [clientGone EXCEPT ![r] = TRUE]
      /\ UNCHANGED <<mode, gpc, sources, errors, ends>>
  BY DEF ClientClose, replyVars
<1>2. \A q \in Requests : absServed'[q] = absServed[q]
  BY ServedUnchanged
<1>3. UNCHANGED <<absStage, absSource, absServed, absTold>>
  <2>1. UNCHANGED absServed
    BY <1>2, AbsFunctions
  <2>2. /\ mode[r] # "stream" => sources[r] = {}
        /\ ends[r] = 0
    BY <1>1 DEF GInv, RequestInv, Written, RepliedAtEnd
  <2>3. \A q \in Requests : q # r => clientGone'[q] = clientGone[q]
    BY <1>1 DEF GInv, TypeOK
  <2>4. \A q \in Requests : absRead(q)' = absRead(q)
    BY <1>1, <2>2, <2>3 DEF absRead
  <2>5. UNCHANGED absSource
    <3>1. \A q \in Requests : absSource'[q] = absSource[q]
      BY <2>4, SourceUnchanged
    <3>2. QED
      BY <3>1, AbsFunctions
  <2>6. UNCHANGED absTold
    <3>1. \A q \in Requests : absTold'[q] = absTold[q]
      BY <1>1, <2>2, <2>3 DEF absTold
    <3>2. QED
      BY <3>1, AbsFunctions
  <2>7. QED
    BY <1>1, <2>1, <2>5, <2>6 DEF absStage
<1>4. absStage[r] = "open"
  BY <1>1 DEF absStage
<1>5. QED
  BY <1>1, <1>3, <1>4 DEF AbstractExchange!Leave, AbstractExchange!Next

\* A position that failed for good is an answer, or nothing anyone sees.
LEMMA FailedRefines ==
  ASSUME GInv, NEW r \in Requests, gpc[r] = "waiting", PositionFailed(r),
         \A q \in Requests : ServedSame(q)
  PROVE  AbstractExchange!Next \/ UNCHANGED AbstractExchange!evars
<1>1. UNCHANGED <<mode, sources, clientGone>> /\ TypeOK
  BY DEF PositionFailed, GInv
<1>2. CASE ClientHasLeft(r)
  BY <1>1, <1>2, ReplyRefines DEF ClientHasLeft
<1>3. CASE OutputHasBegun(r)
  BY <1>1, <1>3, ReplyRefines DEF OutputHasBegun
<1>4. CASE FallBack(r)
  <2>1. /\ gpc' = [gpc EXCEPT ![r] = "trying"]
        /\ UNCHANGED <<mode, sources, errors, ends, clientGone>>
    BY <1>1, <1>4 DEF FallBack
  <2>2. \A q \in Requests : \/ gpc'[q] = gpc[q]
                            \/ {gpc[q], gpc'[q]} \subseteq {"trying", "waiting", "holding"}
    BY <1>1, <2>1 DEF TypeOK
  <2>3. QED
    BY <2>1, <2>2, Unseen
<1>5. QED
  BY <1>2, <1>3, <1>4 DEF PositionFailed

\* Every step of the gateway is one of the exchange or is not seen.
LEMMA NextExchange ==
  GInv /\ GInv' /\ [Next]_vars => [AbstractExchange!Next]_(AbstractExchange!evars)
<1> SUFFICES ASSUME GInv, GInv', [Next]_vars
             PROVE  AbstractExchange!Next \/ UNCHANGED AbstractExchange!evars
  OBVIOUS
<1>1. TypeOK
  BY DEF GInv
<1>2. CASE \E c \in Calls : P!UpstreamSuccess(c) /\ UNCHANGED gatewayVars
  <2>1. PICK r \in Requests, i \in Positions :
           P!UpstreamSuccess(<<r, i>>) /\ UNCHANGED gatewayVars
    BY <1>2 DEF Calls
  <2>2. QED
    BY <2>1, ServeRefines
<1>3. CASE \A c \in Calls : ~(P!UpstreamSuccess(c) /\ UNCHANGED gatewayVars)
  <2>1. \A q \in Requests : ServedSame(q)
    BY <1>3, NextServed
  <2>2. CASE Tick \/ Others \/ UNCHANGED vars
    BY <2>1, <2>2, Unseen DEF Tick, Others, vars, gatewayVars, replyVars
  <2>3. ASSUME NEW r \in Requests, PolicyStep(r)
        PROVE  UNCHANGED AbstractExchange!evars
    BY <2>1, <2>3, Unseen DEF PolicyStep, gatewayVars, replyVars
  <2>4. ASSUME NEW r \in Requests, TryProvider(r) \/ StreamEvent(r)
        PROVE  UNCHANGED AbstractExchange!evars
    <3>1. /\ gpc[r] \in {"trying", "waiting"}
          /\ \/ gpc' = [gpc EXCEPT ![r] = "waiting"]
             \/ gpc' = [gpc EXCEPT ![r] = "holding"]
          /\ UNCHANGED <<mode, sources, errors, ends, clientGone>>
      BY <2>4 DEF TryProvider, StreamEvent, replyVars
    <3>2. \A q \in Requests : \/ gpc'[q] = gpc[q]
                              \/ {gpc[q], gpc'[q]} \subseteq {"trying", "waiting", "holding"}
      BY <1>1, <3>1 DEF TypeOK
    <3>3. QED
      BY <2>1, <3>1, <3>2, Unseen
  <2>5. ASSUME NEW r \in Requests, ChainExhausted(r)
        PROVE  AbstractExchange!Next
    BY <2>1, <2>5, ReplyRefines DEF ChainExhausted
  <2>6. ASSUME NEW r \in Requests, BreakOff(r)
        PROVE  AbstractExchange!Next
    BY <2>1, <2>6, ReplyRefines DEF BreakOff
  <2>7. ASSUME NEW r \in Requests, PolicyCallFailed(r) \/ IdleTimeout(r)
        PROVE  AbstractExchange!Next \/ UNCHANGED AbstractExchange!evars
    BY <2>1, <2>7, FailedRefines DEF PolicyCallFailed, IdleTimeout
  <2>8. QED
    BY <2>1, <2>2, <2>3, <2>4, <2>5, <2>6, <2>7, SucceededRefines, ChunkRefines,
       ArriveRefines, CloseRefines DEF Next, Gateway
<1>4. QED
  BY <1>2, <1>3

\* A gateway that has received nothing has no exchange.
LEMMA InitExchange == Init => AbstractExchange!Init
<1> SUFFICES ASSUME Init PROVE AbstractExchange!Init
  OBVIOUS
<1>1. /\ absStage = [q \in Requests |-> "idle"]
      /\ absSource = [q \in Requests |-> NoSource]
      /\ absTold = [q \in Requests |-> "nothing"]
  BY DEF Init, absStage, absSource, absRead, absTold
<1>2. \A q \in Requests, i \in Positions : outcome[<<q, i>>] # "ok"
  BY DEF Init, P!Init
<1>3. \A q \in Requests : absServed[q] = {}
  BY <1>2 DEF absServed
<1>4. absServed = [q \in Requests |-> {}]
  BY <1>3, AbsFunctions
<1>5. QED
  BY <1>1, <1>4 DEF Init, AbstractExchange!Init

\* Whatever attempts, fallbacks, timers and disconnects do, a client's exchange
\* with the gateway is one that Exchange allows.
THEOREM GatewayImplementsExchange == Spec => ImplementsExchange
  BY GatewayInvariant, InitExchange, NextExchange, PTL
  DEF Spec, ImplementsExchange, AbstractExchange!Spec
==============================================================================
