# The Sirius gateway in TLA+

Sirius is a TypeScript (NestJS, Bun) gateway that speaks the OpenAI API to its
clients and routes each request to one of several model providers, with
retries, circuit breakers, fallbacks and streaming. This directory models the
part of it that is hard to test - what happens between two awaits - and says
what has been checked and what has been proved about it. Paths below are
relative to the repository.

    tlc -config MCPolicyCalls.cfg MCPolicy.tla      # a run of the table below
    tlapm PolicyProofs.tla                          # the proofs of a module

## 1. Inventory

Everything in the gateway process runs on one JavaScript thread. Two pieces of
code interleave only where one of them awaits; that is where a step of the
models ends.

| component | state | operations | correct when |
|---|---|---|---|
| policy (`libs/sirius-policy`) | a circuit breaker per provider; per call: attempt, timers, abort controllers | `executeWithPolicy`, `executeStreamWithPolicy` | one live attempt per call, no replayed output, failures charged once and only to the provider that failed, breaker passable again |
| gateway service (`apps/sirius-api/src/gateway.service.ts`) | per request: chain position, idle timer, `yieldedAny` | `createResponse`, `streamResponse`, `createEmbeddings` | a client reads one attempt's output, nothing runs upstream for a request that is over |
| controllers (`apps/sirius-api/src/controllers`) | per request: `aborted`, `firstChunkEmitted` | chat, responses, embeddings, models, health, reload | a response is completed exactly once; no frame and no error is written after the client left |
| provider registry (`libs/sirius-core`) | Map of adapters | `register`, `unregister`, `get`, `getAll` | holds what was read last |
| from-file providers (`libs/provider-fromfile`) | the names it owns | boot, `reload()` | follows the file, leaves other providers alone |
| model discovery (`libs/sirius-model-registry`) | passes that wait for `listModels()` | boot pass with one retry, pass of a reload | every pass ends |
| model registry and default catalog | Map of models, alias lists | `addModel`, `resolveModel` | names keep their meaning |
| routing and strategies (`libs/sirius-routing`) | none: a function of the catalog, the registry and the latencies | `route` | what is offered can be reached, strategies do what they are called |
| latency tracker (`libs/sirius-observability`) | a window per provider | `record`, `getAverageLatency` | the window is bounded |
| openai, anthropic, ollama providers | per stream: buffer, tool ordinals, usage | `streamResponse` and its parser; `createResponse`, `listModels` | events do not depend on the chunking of the body |
| llamactl provider | usage observations of open calls | translation of nova streams and responses | a truncated stream is an error, an answer carries its own observation |
| usage recorder (`libs/sirius-observability`) | none; appends a line per answered request | `record` | the line has the counts of the attempt that answered |
| OpenAI compatibility (`libs/sirius-compat-openai`) and the providers' mappers | none; the client keeps the conversation and sends all of it | validation, formats | frames a client can read, a request that is the conversation |
| MCP server (`apps/sirius-mcp`) | none; rewrites the providers file | `sirius.providers.deregister` and read-only tools | the gateway follows the file |
| auth guard, exception filter, interceptor, logging | none that others read | | |

How they interact. A controller hands the gateway an abort signal that fires
when the socket closes. The gateway asks the router for a decision, turns it
into a chain of adapters and makes one policy call per position of the chain;
for a stream it pulls the policy's generator under an idle timer. The policy
calls the adapter with a signal of its own per attempt. Requests share the
breakers, the registry, the catalog and the latencies. `POST
/providers/reload` reconciles the registry in one turn and then waits for a
discovery pass. llamactl and the MCP server are other processes; they share
the providers file with the gateway.

What is hard: a caller that aborts during a backoff; answers that come after
their timeout; breakers that change while a call sleeps; `return()` queued
behind a pending `next()`; failures after output was written; reloads,
discovery passes and edits that overlap; reads that end within a line; bodies
that are cut. `PROJECT.json` lists each of these at its line with the
properties that watch it, or the reason why none does.

## 2. Modules

| module | models | composes |
|---|---|---|
| `Breaker` | what the policy promises about a breaker, without attempts and timers | |
| `Policy` | `policy.service.ts` whole | implements `Breaker` |
| `PolicyProofs` | theorems about `Policy` | |
| `Exchange` | what a client may rely on for a request, without chains, calls and timers | |
| `Gateway` | `gateway.service.ts` and the controllers' reply paths | one instance of `Policy` for all positions of all requests; implements `Exchange` |
| `GatewayProofs` | theorems about `Gateway` | an instance of `PolicyProofs` for the calls `<<r, i>>` |
| `Usage` | the observations of the llamactl adapter and the usage recorder | extends `Gateway` |
| `UsageProofs` | theorems about `Usage` | extends `GatewayProofs` |
| `Fleet` | registry, from-file boot and reload, discovery passes, the MCP server's deregistration | |
| `FleetProofs` | theorems about `Fleet` | |
| `Routing` | catalog, aliases, latencies, `route()` and its six strategies | |
| `RoutingProofs` | theorems about `Routing` | extends `Induction` |
| `Streams` | one streamed completion, from the upstream's bytes to the client's frames | |
| `StreamsProofs` | theorems about `Streams` | extends `Induction` |
| `Induction` | lemmas: least and greatest elements, induction, and what folds over sets and sequences compute | |
| `Conversation` | the formats of whole chat and responses requests and the providers' mappers, over the turns of a conversation with tools | |
| `ConversationProofs` | theorems about `Conversation` | extends `Induction` |
| `MC*` | the instances TLC checks, with their `.cfg` files | |

Definitions bear the names of the code where they can. A definition marked
"Fault:" is what its successor would be after a plausible slip (a dropped
guard, a forgotten reset). No specification uses one; for every property of a
passing run there is one that makes the property fail, which is how we know
that the property says something about the code.

### Policy
A call is a slot with the locals of one execution. Actions are the pieces of
code between two awaits: entering (`Admit`, `AdmitAborted`, `Refuse`), the
upstream's answer (`UpstreamSuccess`, `UpstreamEvent`, `UpstreamFailure`),
`AttemptTimeout`, `WakeUp` after a backoff, and the consumer (`ConsumerNext`,
`ConsumerReturn`, `CallerAbort`, `Cancel`). The upstream is the environment:
it answers, fails, stays silent or answers an attempt that was abandoned
(`LateSettle`), and it need not heed a signal. `lastFailure` and the clock
appear as the time elapsed since, saturated at the reset time, which is all
that the code compares.

### Gateway
Position i of request r is the policy call `<<r, i>>`; `P == INSTANCE Policy`
supplies its steps, and each action here joins one of them with what the
gateway and the controller do in the same turn. `UpstreamSuccess` and
`PositionSucceeded` are separate steps where the code has only microtasks
between them, so the model allows a few interleavings (a disconnect in
between) that the runtime would order; it never forbids one. The controllers look at the socket where a stream ends and
where an error is caught (`Reply`), and not where an answer that came whole is
sent: `AnswerSent` gives it to a closed response too, when the upstream did not
heed the abort, and `Recorded` writes its usage line. An upstream event
may be an `error` event: it is output, so no fallback follows it. Chains have
up to two positions because a decision may list fallbacks (the contract of
`RoutingDecision`); the strategy the shipped gateway uses, `pinned`, lists
none, so its chains have one position at most.

Requests meet in the breakers and nowhere else. `Others` is what calls of
requests that are not modelled do to a breaker: pass its check
(`OthersAdmitted`), reset it, count a failure. One modelled request among
`Others` therefore stands for any one of arbitrarily many, where two modelled
requests would stand for two.

`Exchange` is the gateway as its client sees it: what it reads has one source,
it is told that its answer is whole only if that source has served to the end,
it is told once and nothing after it has left. `ImplementsExchange` maps a
source to a position and an attempt. What is sent to the closed response of a
client that has gone is neither read nor told in `Exchange`; that it is one
whole answer and nothing else is what `CompletedOnce` says.

### Usage
`Usage` adds to each step of `Gateway` what the llamactl adapter and the
recorder do in the same turn. nova reports the usage of a call from within it,
under the attempt's id; `AdapterReturns` is the adapter's call as it returns or
throws, which may be long after a timeout has abandoned it. The counts of a
line are not numbers: a line says which attempt it is about and whether its
counts are those of the response or the observed ones. Streams have no attempt
id and no line. The schema may refuse any line, so a line is always optional.

### Fleet
An entry of the file is its content, an adapter is the entry it was built
from. `Reload` is the synchronous part of the reload endpoint, after which the
pass q waits in `probe[q]` for one `listModels()` per provider. `EditFile` and
`BreakFile` are llamactl and an editor, `Deregister*` the three steps of the
MCP tool. Which of an environment's provider and an entry of the same name is
registered last at boot depends on the order of Nest's factories and is left
open. `StopGateway` loses everything in memory.

### Routing
The orders that JavaScript guarantees (a Map's insertion order, a stable sort)
are kept as positions; a sorted list is the set of its elements with the
relation `Before`. `Decision` is `route()`. Costs and averages are exact where
the code has floating point: a rounding difference could only swap providers
whose scores are equal up to it. A provider's canonical names and its prefixed
names (`normalizeModelId`) are model values.

### Streams
A body is a sequence of lines (or nova events) settled before the first read;
a line arrives as head, tail and newline, a read returns any number of these
pieces, and a body may be cut within its last line or broken by the
connection. `Lines` says what upstreams send. They are not in the repository:
these definitions are taken from what the parsers and their tests expect, and
`PROJECT.json` marks them external. The nova providers that have no
`streamResponse` are left out (`createOpenAICompatProvider` always has one).

### Conversation
The gateway keeps nothing of a conversation. `history` is what the client
holds, in the format of its endpoint, and `story` (a history variable) what was
really said. `ClientSays` and `ClientRunsTool` append to both; `Send` is the
whole way in, from the parse functions to a provider's request, or the mapper
that throws on the way; `Answer` is the way back, from the upstream's response
to what the client appends. Each `Send` may go to another provider. A text
is a number, a content the sequence of its texts and images, and arguments are
known by what `JSON.parse` makes of them. The answers of the
upstreams are external, as in `Streams`; those of a nova provider have text
only, as it is offered no tools.

The properties compare the two variables. `Lost` names all that the formats are
known to lose. A client of `/v1/responses` is assumed to send its whole history:
`previous_response_id` is in the types and read by nobody.

## 3. Runs

| run | instance | shows |
|---|---|---|
| PolicyCalls | 2 calls, 1 provider, 1 retry, threshold 2 | the safety of calls and breakers, the refinement of `Breaker`, and liveness |
| UsageRequest | 1 request among others, chains up to 2, 1 retry, 2 events, threshold 1, one of the two providers observed | the refinement of `Exchange`, no upstream work and no observation left behind, usage lines of the attempt that answered, every request ends |
| FleetReloads | 2 names (one also of the environment), 2 contents, 1 reload beside the boot pass | the registry follows the file in every order of edits, reloads, answers and restarts |
| Routing | 2 providers, 3 models, 2 latencies, window 2 | resolution, privacy-first and balanced in every reachable catalog |
| Streams | 4 dialects, 2 endpoints, bodies up to 4 lines, 2 tool calls | events, tool calls, usage and finish intact in every chunking and truncation |
| Conversation | 4 providers, 2 endpoints, 5 turns, answers of up to 3 blocks | requests that are the conversation, results behind their calls, replies that say how they ended |
| PolicyAbortInBackoff | as PolicyCalls | violated: a retry is sent for a caller that has gone |
| GatewayIdleAbort | as UsageRequest, threshold 2, without the observations | violated: an idle timeout looks like a client abort |
| FleetOrphan | as FleetReloads, 1 content | violated: a deleted entry stays registered |
| FleetUnauthorized | as FleetOrphan | violated: the reload after a deregistration is refused |
| RoutingUnmeasured | as Routing | violated: an unmeasured provider is the fastest |
| StreamsFromFile | the from-file dialect | violated: a truncated stream is a success |

Why the bounds are enough to be worth checking. Calls share only a breaker, so
two calls at one provider show every pairwise race on it; one retry gives
an attempt that is retried, a backoff and an attempt that is the last, and the
four attempts of two calls can pass a threshold of 2 by two. Timers of one tick
can fire before, with and after each other because `Tick` may come at any
point. In `Gateway` two positions show a fallback and its absence, two events
a failure before, between and after output. The failures `Others` count end at
`MaxFailures`, the threshold: above it a breaker is open whatever its count.
With a threshold of 1 a breaker can open, and close again, between any two
steps of the request. `Fleet` has two names because the
code treats names separately except for what the environment configures, two
contents because an entry can be replaced, and one reload slot because passes
do not write the registry; the theorems of section 5 hold for any number.
Four lines are a start, two blocks or calls, and an end; a line that is not
JSON can take the place of any. Two calls with all reads between 1 and all
pieces include every way to split a line. Five turns are a question, two calls,
their results in either order and the answer to them; or two exchanges with
different providers and what the second one leaves for a third. Three blocks
are a text and two calls in every order. `MaxLines`, `MaxCalls`, `Tokens`,
`MaxEvents`, `MaxChain`, `MaxFailures`, `MaxTurns`, `MaxBlocks`, `Offers` and
`Latencies` are the only bounds; they limit the environment.

Deadlock is checked except in `Gateway`, `Usage`, `Streams` and `Conversation`,
where a served request, a finished stream or a conversation whose turns are
spent is an end.

## 4. Fairness

`Policy`: `WF(Tick)` and weak fairness of each call's due timers: the runtime runs due
timers, and nothing else is assumed. The upstream may be silent for ever, so
`OnceTerminates` rests on the timeouts alone. A stream call has no such
property: without its consumer's idle timer it may wait for ever.
`Gateway`: in addition the turns of each request (code that is ready runs) and
its idle timer. `MaxEvents` bounds the events of an upstream: one that sends
for ever is not stopped by the gateway, and `RequestEnds` does not claim it.
`Usage`: the same, where the turn that answers a request also records it; the
adapter's own turns are the upstream's and have no fairness. `Others` have none
either: a breaker may stay as it is for ever.
`Fleet`: each pass makes progress. This includes that `listModels()` settles,
an assumption about the HTTP runtime: the code has no timeout there, and a
boot would wait as long as an upstream does. So `PassesEnd` does not show that
an upstream which never answers delays nobody; it shows that a pass ends once
its upstreams have answered or failed, as an empty answer is asked again once.

## 5. Proofs

`PolicyProofs`, for every set of providers and calls and any settings that
satisfy `PolicyAssumption` (threshold positive, the rest natural numbers):

* `TypeCorrect`, `BreakerIsConsistent`, `AtMostOneLiveAttempt`,
  `NothingIsReplayed`. `IInv` is the conjunction of the four invariants with
  `AttemptDiscipline`. That part is needed because `WakeUp` moves a call to
  its next attempt: to keep `OneLiveAttempt` and `NoReplay` one must know that
  a sleeping call has aborted the attempt it leaves, has delivered nothing
  from it, and has one left; and `TypeOK` needs the last of these. There is
  one lemma per group of actions, and `CaughtIInv` for the catch block that
  failures and timeouts share.
* `FailuresCharged`: every step charges at most one failure, for an attempt
  that ends in it and whose caller has not aborted. It follows from `IInv`
  and one lemma per way to leave an attempt.
* `FailureCountIsBounded`: a provider's failures exceed the threshold by no
  more than the attempts its calls may still make. Each step that counts a
  failure uses one of these attempts up (`Bounded`); no invariant beyond
  `IInv` is needed.
* `PolicyImplementsBreaker`: `Policy` refines `Breaker` under the mapping of
  `AbstractBreaker`. `AbstractUpdates` says what each update of a breaker is
  in the abstract state, where the streak is capped at the threshold; the step
  simulation then goes action by action.

`GatewayProofs`, for any finite number of requests, any chains and settings
(`GatewayAssumption`). The policy is not proved again: `PP == INSTANCE
PolicyProofs` for the calls `<<r, i>>`, whose assumptions `PolicySettings`
derives from the gateway's, brings the lemmas about each step of a call;
`Others` are covered by the lemma about a breaker's updates. `GInv` adds five
parts per request. `Wanted` (a call that still runs is the awaited one of a
client that is there, or is cancelled) is what `LiveUpstreamIsWanted` needs to
be inductive; `Untried` (positions not reached are untouched) lets a fallback
start clean; `Written` (what was written is of the attempt that the current
position stands at, which has delivered and can not be retried) gives
`NoSplice`; `RepliedAtEnd`, `InChain` and, for the one thing a client that has
gone may still be sent, that nothing was written before the answer of a request
that is not streamed (`Written` again) give `CompletedOnce`.
`GatewayImplementsExchange` shows that each step is one of `Exchange` or a
stutter, with `GInv` for the states in which it happens.

`UsageProofs`: every step of `Usage` is one of `Gateway` (`UsageSteps`), so
`GInv` holds of it and `GatewayKeptByUsage` restates the gateway's theorems
for the specification that the run checks. `UInv` ties the three places where
an observation can be: the map holds exactly the reports of attempts still
awaited in an adapter (`EntriesInv`, `ReportsInv`), an answer carries what was
reported of its own attempt (`CarriedInv`), a line says it (`RecordsInv`).
None of these is inductive alone: an answer takes its entry out of the map in
the turn in which it begins to carry it.

`RoutingProofs`, for any finite sets of providers and models, any catalog and
any latencies. `RInv` is the type of the variables and that the places of the
models and of each alias list are compact: no two keys share one, none
exceeds their number. The theorems of the strategies follow from a state of
that kind alone: each comparator ranks candidates by a number, and the place
breaks ties, so that exactly one candidate is first (`LeastByBoth`).
`NamesKeepTheirMeaning` goes over the steps. Two assumptions are about
identifiers: no model id has the form of a key "provider/model", and the
default catalog lists no key twice.

`StreamsProofs`, for any number of lines, calls and counts, both endpoints and
all five kinds of provider. `SInv` says that reading is parsing in one go: the
buffer is what came after the last newline (`Run`), memory and events are the
fold of `Processed` over the lines taken so far (`Sofar`), and the client's
frames are what `Told` makes of the events. `ReadsMakeNoDifference` is its
corollary. It also keeps that the body is one that the upstream may send
(`Sent`), so that what is known of bodies can be used: `AllBodies` is
induction over these. Each of the other theorems has its own property of a body and
what the parser makes of it, proved for no line and for one more
(`LineParts` lists what a line can yield), and then of what the frames tell:

* `RoleComesFirst`: `Led`, kept by each frame that is written.
* `FinishesMatchCalls`, `TruncationNeverTold`, `CompletionsAreTold`: `Fits`
  (done once the body is, with a reason that fits its calls) and `Faithful`
  (the frames tell as many successes as the events, and no other reasons).
  Nova streams have `NovaInv` instead. `TruncationNeverTold` leaves out
  from-file providers, for which it is false: that is the run StreamsFromFile.
* `UsageComesLast`: `UsageFits`, that the last count yielded is the greatest
  sent so far, as counts are cumulative.
* `ToolCallsAreIntact`: `Numbered`, that the frames list calls in the order in
  which the upstream began them, which for anthropic is the parser's memory
  (`BlockTold`) and otherwise 0, 1, 2, ... (`ChunkTold`).

`Induction` replaces the library's induction theorems, which take an operator
and can not be instantiated by the provers at hand. That the natural numbers
are well founded needs none, and from it follow least and greatest elements,
induction over a set of numbers, over sequences and over finite sets, and that
`FoldLeft` has the values one expects (`LeftFoldExists`, `LeftFoldOfAppend`).

`FleetProofs`, for every set of names, contents and reload slots, assuming
only that the markers of `FleetAssumption` are distinct: `TypeCorrect`,
`OwnedProvidersAreCurrent`, `LingeringWasSkipped` and
`EnvironmentUndisturbed`. `IInv` is the conjunction of the first three
properties: it is inductive because a reload computes the registry from the
file and from what was owned or skipped before, never from the passes that
are still waiting (`RegistryUntouched` disposes of all of these at once).

`ConversationProofs`, for any number of turns and of blocks in an answer, and any
of the four providers. `Joint(part, s)` joins what a function makes of each
element of `s`; the laws of joints (of an appended element, of a concatenation,
of a joint of joints, of two functions that agree on what occurs) are proved by
induction once, in `JointAppend` to `JointMapped`. The histories of both
endpoints, the unified messages, the requests and what is read of them are then
joints of the story, and a property of a conversation is one of a single entry.
The only function that looks back is `AppendResponsesFunctionCall`, and what it
joins are the items of one answer (`AnswerParsed`). `CInv` keeps of the story
that each entry is well formed for the one who said it, that tokens are
numbered upwards, so that ids of calls are distinct (`CallsApart`), and of the
history that it parses to the messages (`UnitOf`) of the story's entries.

* `ConversationTypeCorrect` and `OnlyCutFails`: from `CInv`; the second also
  needs that a call of the unified messages is one that was made
  (`CallsUnified`).
* `ConversationReachesUpstream`: what an upstream reads of one entry is what
  was uttered (`EntryIsRead`, by speaker and provider), then for all of them
  (`RequestIsRead`), the system prompt of Anthropic apart.
* `RepliesSayHowTheyEnded`: a fact about one answer (`AnswerSaysHowItEnded`).
* `ResultsStandBehindCalls` relates places of a request to one another, so it
  needs an invariant of its own, `PInv`: for every provider, what the story
  would be sent as is `Chained` with the calls that are pending. Each result
  that is due either stands in its place or is to come after the last message;
  those to come are as many as the pending calls and, where a provider has
  ids, of just these. An answer opens such a gap only when none is open
  (an upstream is asked when nothing is pending), each result the client gives
  closes it by one (`ChainResult`), and any other message finds it closed
  (`ChainAnswered`).

Only model-checked: all liveness (`OnceTerminates`, `BreakerRecovers`,
`RequestEnds`, `PassesEnd`). Liveness under fairness and ENABLED are beyond the
provers here.

## 6. Where the code and its texts differ

The six violated runs, each with the sentence it contradicts, are the
"findings" of `PROJECT.json`. Others were seen on the way and have no run:

* `README.md:117-118` speaks of round-robin selection; no strategy does that.
* An adapter reports a refused stream as an error event, which ends the
  request although a fallback may be left (`README.md:33-34`).
* A client that has gone may still be sent the whole answer of a request that
  is not streamed (`chat-completions.controller.ts:112`), and the answer counts
  as usage: only streams and errors look at the socket first.
* A name that both the file and the environment configure: once it is removed
  from the file the reload unregisters it
  (`fromfile-provider.module.ts:418`), and the environment's provider is back
  only after a restart. `EnvProvidersStay` leaves such names out.
* A discovered model replaces the default catalog's entry of the same key,
  with its capabilities and price; `discovery.test.ts:90` says "does not
  clobber models already in DEFAULT_MODEL_CATALOG" and tests another provider.
* `server.ts:26-28` knows one writer of the providers file; the MCP server is
  a second, and overwrites an edit made since it loaded the file.
* A `provider/model` request is resolved to that provider and then routed to
  any provider of the model.
* ollama tool calls that come in several chunks share an index
  (`ollama.stream-parser.ts:80`); llamactl drops tool calls but passes on the
  reason "tool_calls" (`llamactl.adapter.ts:331`).
* Boot waits for one `listModels()` of every provider
  (`model-discovery.service.ts:52`), which has no timeout in `src/`.
* A fallback "provider/model" is split at every slash and keeps two parts
  (`gateway.service.ts:293`): a model id with a slash is cut. The shipped
  strategy lists no fallbacks.
* `fromfile-provider.module.ts:231` "mirrors LlamactlAdapter's
  siriusRequestToNova", which passes on `stop` and `user`; it does not.
* A stream of `/v1/responses` never delivers tool calls and reports
  "completed" whatever the finish reason (`responses.controller.ts:64`); its
  function_call items are "completed" even where their arguments were cut off.
* A chat message with the role `developer` becomes an empty user message
  (`openai-compat.service.ts:683`); at Anthropic the result of a tool in parts
  becomes empty (`anthropic.mapper.ts:28`), and images become text.
* Ollama's messages have no call ids, so results in another order than the
  calls are read as results of the wrong calls.
* Malformed arguments throw in Anthropic's mapper, within the retry loop
  (`anthropic.mapper.ts:46`), and are charged to the provider. Ollama's mapper
  guards against that: "so a bad client value cannot throw inside the retry
  loop" (`ollama.mapper.ts:28`).

## 7. Not modelled, and the plan

Not modelled: log lines, the interceptor and the exception filter (they write
logs or translate values), the models and health endpoints and the read-only
MCP tools (they read), the refusal of malformed request bodies, sampling
parameters and tool declarations (copied field by field), embeddings beyond
their reply path, authentication beyond the refusal of a missing key, and the
HTTP servers of providers.

Modelled so far, in order of importance: `Policy` with `Breaker`, `Gateway`
with `Exchange`, `Usage`, `Fleet`, `Routing`, `Streams`, `Conversation`. Every
safety property and every refinement that a run checks is proved. What could
still be modelled: how fallbacks are split and what becomes of a provider that
is unregistered between decision and chain; `Streams` under disconnects; the
reload endpoint under a failing write of the file.
