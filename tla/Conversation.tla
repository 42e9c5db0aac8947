---------------------------- MODULE Conversation ----------------------------
(***************************************************************************)
(* A conversation with tools, whole responses at a time: the formats of    *)
(* sirius-compat-openai for /v1/chat/completions and /v1/responses, and    *)
(* the request and response mappers of the providers.                      *)
(*                                                                         *)
(* The gateway keeps nothing between two requests.  The client holds the   *)
(* history in the format of its endpoint, appends what it is answered and  *)
(* the results of the tools it was asked to run, and sends all of it again *)
(* each time, perhaps to a model of another provider.  What an upstream is *)
(* asked has thus been through the formats once for each turn.             *)
(*                                                                         *)
(* Texts, images, results and tool calls are numbers, each one new; a      *)
(* content is the sequence of its texts and images, whether in a string or *)
(* in parts.  Arguments are known by what JSON.parse makes of them.        *)
(* Sampling parameters and tool declarations, which are copied field by    *)
(* field, are left out, and so are the checks that refuse a request whose  *)
(* shape no client of the API sends.                                       *)
(*                                                                         *)
(* Definitions marked "Fault:" are as in Policy.                           *)
(***************************************************************************)
EXTENDS Integers, Sequences, SequencesExt

CONSTANTS
    Dialects,  \* the providers a request may be routed to
    MaxTurns,  \* bound: turns of a conversation
    MaxBlocks  \* bound: texts and calls in an answer

ASSUME ConversationAssumption ==
    /\ Dialects \subseteq {"openai", "anthropic", "ollama", "nova"}
    /\ MaxTurns \in Nat
    /\ MaxBlocks \in Nat

VARIABLES
    api,      \* the client's endpoint: "chat" or "responses"
    story,    \* history variable: what was said, by whom, in which order
    history,  \* what the client sends: messages, or input items
    state,    \* "open", "asked" (an upstream works), "answered" or "failed"
    dialect,  \* the provider asked last
    request,  \* what it is asked: the system prompt and the messages
    told      \* how the last reply says that it ended, and how it did

vars == <<api, story, history, state, dialect, request, told>>

-----------------------------------------------------------------------------
(* Content. *)

Block(kind, id, token, args) ==
    [kind |-> kind, id |-> id, token |-> token, args |-> args]
Text(n) == Block("text", 0, n, "none")
Image(n) == Block("image", 0, n, "none")
ToolResult(c, n) == Block("result", c, n, "none")  \* n = 0: an empty result

\* What Part makes of each element, one after the other (the provers know no
\* SelectSeq).
Joined(seq, Part(_)) ==
    LET joined[i \in 0 .. Len(seq)] ==
            IF i = 0 THEN <<>> ELSE joined[i - 1] \o Part(seq[i])
    IN  joined[Len(seq)]

OfKind(kind, content) ==
    Joined(content, LAMBDA b : IF b.kind = kind THEN <<b>> ELSE <<>>)
Texts(content) == OfKind("text", content)
Images(content) == OfKind("image", content)
Calls(content) == OfKind("call", content)

\* "object" and "{}" parse to objects; "" and "cut" do not parse.
Arguments == {"object", "{}", "", "cut"}

\* UnifiedMessage; the client's messages and input items have its fields too.
Message(role, shape, content, calls, id) ==
    [role |-> role, shape |-> shape, content |-> content,
     calls |-> calls, id |-> id]

\* A message as an upstream reads it.
Asked(role, id, blocks) == [role |-> role, id |-> id, blocks |-> blocks]

NoRequest == [system |-> <<>>, messages |-> <<>>]
NotTold == [ended |-> "none", reply |-> "none"]

-----------------------------------------------------------------------------
(* From the client's format to the unified one. *)

MapOpenAiMessage(m) ==
    IF m.role \in {"system", "user", "assistant", "tool"} THEN m
    ELSE Message("user", "string", <<>>, <<>>, 0)

MapResponsesInputItem(item) ==
    IF item.role = "function_call_output"
    THEN [item EXCEPT !.role = "tool"]
    ELSE Message(IF item.role = "developer" THEN "system" ELSE item.role,
                 "string", Texts(item.content), <<>>, 0)

\* Fault: a call never joins the message before it.
AppendedAlone(messages, item) ==
    Append(messages, Message("assistant", "string", <<>>, item.calls, 0))

AppendResponsesFunctionCall(messages, item) ==
    LET n == Len(messages)
    IN  IF n > 0 /\ messages[n].role = "assistant"
        THEN [messages EXCEPT ![n].calls = @ \o item.calls]
        ELSE Append(messages,
                    Message("assistant", "string", <<>>, item.calls, 0))

ParseResponsesRequest(input) ==
    FoldLeft(LAMBDA messages, item :
                 IF item.role = "function_call"
                 THEN AppendResponsesFunctionCall(messages, item)
                 ELSE Append(messages, MapResponsesInputItem(item)),
             <<>>, input)

ParseChatCompletionRequest(messages) ==
    [i \in DOMAIN messages |-> MapOpenAiMessage(messages[i])]

Unified ==
    IF api = "chat" THEN ParseChatCompletionRequest(history)
    ELSE ParseResponsesRequest(history)

-----------------------------------------------------------------------------
(* From the unified format to the provider's. *)

\* A message for each message.
ToOpenAiMessage(m) == Asked(m.role, m.id, m.content \o m.calls)

ParseToolArguments(args) == IF args = "object" THEN args ELSE "{}"

\* Fault: the calls of an assistant are left out.
ToOllamaWithoutCalls(m) ==
    Asked(m.role, 0, Texts(m.content) \o Images(m.content))

\* Images go beside the text, calls and results lose their ids.
ToOllamaMessage(m) ==
    Asked(m.role, 0,
          Texts(m.content) \o Images(m.content)
          \o [i \in DOMAIN m.calls |->
                 [m.calls[i] EXCEPT !.id = 0,
                                    !.args = ParseToolArguments(@)]])

\* Fault: empty arguments are parsed as they are.
ThrowsOnEmpty(args) == args \in {"cut", ""}

\* JSON.parse(arguments || '{}') throws.
ArgumentsThrow(args) == args = "cut"

ToAnthropicContent(m) ==
    IF m.role = "tool"
    THEN <<ToolResult(m.id, IF m.shape = "string" /\ m.content # <<>>
                            THEN m.content[1].token ELSE 0)>>
    ELSE IF m.role = "assistant" /\ m.calls # <<>>
    THEN (IF m.shape = "string" THEN m.content ELSE <<>>)
         \o [i \in DOMAIN m.calls |->
                [m.calls[i] EXCEPT !.args = IF @ = "" THEN "{}" ELSE @]]
    ELSE [i \in DOMAIN m.content |-> Text(m.content[i].token)]

ToAnthropicRequest(messages) ==
    LET Role(m) == IF m.role = "assistant" THEN "assistant" ELSE "user"
    IN  [system |-> Joined(messages, LAMBDA m :
             IF m.role = "system" THEN m.content ELSE <<>>),
         messages |-> Joined(messages, LAMBDA m :
             IF m.role = "system" THEN <<>>
             ELSE <<Asked(Role(m), 0, ToAnthropicContent(m))>>)]

ToOpenAiRequest(messages) ==
    [system |-> <<>>,
     messages |-> [i \in DOMAIN messages |-> ToOpenAiMessage(messages[i])]]

ToOllamaRequest(messages) ==
    [system |-> <<>>,
     messages |-> [i \in DOMAIN messages |-> ToOllamaMessage(messages[i])]]

\* siriusRequestToNova and toNovaRequest rename the fields of a message.
ToNovaRequest(messages) == ToOpenAiRequest(messages)

ToRequest(d, messages) ==
    CASE d = "openai" -> ToOpenAiRequest(messages)
      [] d = "anthropic" -> ToAnthropicRequest(messages)
      [] d = "ollama" -> ToOllamaRequest(messages)
      [] d = "nova" -> ToNovaRequest(messages)

\* toAnthropicRequest throws before a request is made.
MappingThrows(d, messages) ==
    /\ d = "anthropic"
    /\ \E i \in DOMAIN messages : \E j \in DOMAIN messages[i].calls :
           ArgumentsThrow(messages[i].calls[j].args)

-----------------------------------------------------------------------------
(* What an upstream answers, and the way back. *)

FirstToken == (MaxBlocks + 2) * Len(story)

\* The blocks of an answer: OpenAI and Ollama give their text before the
\* calls, Anthropic mixes them, a nova provider is offered no tools.  Only
\* OpenAI gives arguments as a string, empty for a tool without parameters
\* and cut off where the tokens ran out; Ollama gives no ids.
ArgumentsOf(d) ==
    CASE d = "openai" -> {"object", "", "cut"}
      [] d = "nova" -> {}
      [] OTHER -> {"object", "{}"}

Kinds(d) == {<<"text", "none">>} \cup ({"call"} \X ArgumentsOf(d))

Answers(d) ==
    {[i \in DOMAIN kinds |->
         IF kinds[i][1] = "text" THEN Text(FirstToken + i)
         ELSE Block("call", IF d = "ollama" THEN 0 ELSE FirstToken + i,
                    FirstToken + i, kinds[i][2])] :
        kinds \in {s \in UNION {[1 .. n -> Kinds(d)] : n \in 0 .. MaxBlocks} :
            /\ d # "anthropic" =>
                   \A i \in DOMAIN s : s[i][1] = "text" => i = 1
            /\ \A i \in DOMAIN s : s[i][2] = "cut" => i = Len(s)}}

\* How the provider says that the answer ended.  OpenAI says "stop" after a
\* call that tool_choice has forced.
Endings(d, blocks) ==
    LET called == Calls(blocks) # <<>>
        cut == \E i \in DOMAIN blocks : blocks[i].args = "cut"
    IN  CASE d = "anthropic" ->
                 {"max_tokens"} \cup (IF called THEN {"tool_use"}
                                      ELSE {"end_turn", "refusal"})
          [] d = "openai" ->
                 {"length"} \cup (IF cut THEN {}
                                  ELSE IF called THEN {"tool_calls", "stop"}
                                  ELSE {"stop", "content_filter"})
          [] OTHER -> {"length", "stop"}

MapStopReason(raw) ==
    CASE raw = "max_tokens" -> "length"
      [] raw = "tool_use" -> "tool_calls"
      [] OTHER -> "stop"

MapFinishReason(raw) ==
    IF raw \in {"stop", "length", "tool_calls", "content_filter"}
    THEN raw ELSE "stop"

\* Fault: the calls of an answer do not decide how it ended.
OllamaFinishByReason(hasToolCalls, doneReason) ==
    IF doneReason = "length" THEN "length" ELSE "stop"

MapOllamaFinishReason(hasToolCalls, doneReason) ==
    IF hasToolCalls THEN "tool_calls"
    ELSE IF doneReason = "length" THEN "length" ELSE "stop"

\* Fault: the calls of an answer get no ids.
FromOllamaWithoutIds(blocks) == blocks

\* An id is drawn for each call, other than every one before it.
FromOllamaContent(blocks) ==
    [i \in DOMAIN blocks |-> IF blocks[i].kind = "call"
                             THEN [blocks[i] EXCEPT !.id = blocks[i].token]
                             ELSE blocks[i]]

\* UnifiedAiResponse.
Response(content, finish) == [content |-> content, finish |-> finish]

FromAnthropicResponse(blocks, raw) == Response(blocks, MapStopReason(raw))
FromOpenAiResponse(blocks, raw) == Response(blocks, MapFinishReason(raw))
FromOllamaResponse(blocks, raw) ==
    Response(FromOllamaContent(blocks),
             MapOllamaFinishReason(Calls(blocks) # <<>>, raw))
FromNovaResponse(blocks, raw) == Response(Texts(blocks), raw)

FromResponse(d, blocks, raw) ==
    CASE d = "openai" -> FromOpenAiResponse(blocks, raw)
      [] d = "anthropic" -> FromAnthropicResponse(blocks, raw)
      [] d = "ollama" -> FromOllamaResponse(blocks, raw)
      [] d = "nova" -> FromNovaResponse(blocks, raw)

FormatChatCompletionResponse(response) ==
    <<Message("assistant", "string", Texts(response.content),
              Calls(response.content), 0)>>

\* One message with every text, then an item for each call; nothing of an
\* answer without either.
FormatResponsesResponse(response) ==
    LET texts == Texts(response.content)
        calls == Calls(response.content)
    IN  (IF texts = <<>> THEN <<>>
         ELSE <<Message("assistant", "parts", texts, <<>>, 0)>>)
        \o [i \in DOMAIN calls |->
               Message("function_call", "none", <<>>, <<calls[i]>>, calls[i].id)]

ResponsesStatus(finish) ==
    CASE finish = "error" -> "failed"
      [] finish = "length" -> "incomplete"
      [] OTHER -> "completed"

-----------------------------------------------------------------------------
(* The client and the gateway. *)

Made == {b \in UNION {ToSet(story[i].blocks) : i \in DOMAIN story} :
            b.kind = "call"}
Pending == {b.id : b \in Made} \ {story[i].id : i \in DOMAIN story}

Init ==
    /\ api \in {"chat", "responses"}
    /\ story = <<>>
    /\ history = <<>>
    /\ state = "open"
    /\ dialect = "none"
    /\ request = NoRequest
    /\ told = NotTold

\* Something is said: story and history grow.
Said(by, shape, blocks, id, items) ==
    /\ Len(story) < MaxTurns
    /\ story' = Append(story, [by |-> by, shape |-> shape, id |-> id,
                               blocks |-> blocks])
    /\ history' = history \o items
    /\ UNCHANGED api

ByClient ==
    /\ state # "asked"
    /\ state' = "open"
    /\ dialect' = "none"
    /\ told' = NotTold
    /\ UNCHANGED request

\* A text, or an image and a text in parts.
Sayings == {<<Text(FirstToken + 1)>>,
            <<Image(FirstToken + 1), Text(FirstToken + 2)>>}

ClientSays(role, content) ==
    /\ Pending = {}
    /\ role # "user" => Len(content) = 1
    /\ ByClient
    /\ LET shape == IF Len(content) = 1 THEN "string" ELSE "parts"
       IN  Said(role, shape, content, 0,
                <<Message(role, shape, content, <<>>, 0)>>)

\* The client runs the tools it was asked to run, all of them before it goes
\* on, in an order of its own.  It gives a result as a string or, in chat, in
\* text parts.
ClientRunsTool(c, shape) ==
    /\ c \in Pending
    /\ shape = "parts" => api = "chat"
    /\ ByClient
    /\ LET result == <<Text(FirstToken + 1)>>
           role == IF api = "chat" THEN "tool" ELSE "function_call_output"
       IN  Said("tool", shape, result, c,
                <<Message(role, shape, result, <<>>, c)>>)

\* The history is sent to a model of the provider d: for the first time, or
\* again after it failed.
Send(d) ==
    /\ state \in {"open", "failed"}
    /\ story # <<>>
    /\ Pending = {}
    /\ dialect' = d
    /\ IF MappingThrows(d, Unified)
       THEN state' = "failed" /\ request' = NoRequest
       ELSE state' = "asked" /\ request' = ToRequest(d, Unified)
    /\ UNCHANGED <<api, story, history, told>>

\* The upstream answers, and the client appends the reply to its history.
Answer(blocks, raw) ==
    /\ state = "asked"
    /\ LET response == FromResponse(dialect, blocks, raw)
       IN  /\ Said("assistant", "string", FromOllamaContent(blocks), 0,
                   IF api = "chat" THEN FormatChatCompletionResponse(response)
                   ELSE FormatResponsesResponse(response))
           /\ told' = [ended |-> raw,
                       reply |-> IF api = "chat" THEN response.finish
                                 ELSE ResponsesStatus(response.finish)]
    /\ state' = "answered"
    /\ request' = NoRequest
    /\ UNCHANGED dialect

Next ==
    \/ \E role \in {"system", "developer", "user"}, content \in Sayings :
           ClientSays(role, content)
    \/ \E c \in Pending, shape \in {"string", "parts"} :
           ClientRunsTool(c, shape)
    \/ \E d \in Dialects : Send(d)
    \/ /\ state = "asked"
       /\ \E blocks \in Answers(dialect) :
              \E raw \in Endings(dialect, blocks) : Answer(blocks, raw)

Spec == Init /\ [][Next]_vars

-----------------------------------------------------------------------------
(* Properties. *)

Blocks == [kind : {"text", "image", "call", "result"}, id : Nat, token : Nat,
           args : Arguments \cup {"none"}]

\* Type: the state is well formed, and every call the client is given has an
\* id of its own, without which it could not give the result.
TypeOK ==
    /\ api \in {"chat", "responses"}
    /\ state \in {"open", "asked", "answered", "failed"}
    /\ dialect \in Dialects \cup {"none"}
    /\ \A i \in DOMAIN history :
           /\ ToSet(history[i].content) \subseteq Blocks
           /\ ToSet(history[i].calls) \subseteq Blocks
    /\ \A b \in Made : b.id # 0 /\ \A c \in Made : b.id = c.id => b = c
    /\ ToSet(request.system) \subseteq Blocks
    /\ \A i \in DOMAIN request.messages :
           ToSet(request.messages[i].blocks) \subseteq Blocks

\* What the formats are known to lose: a developer's message in chat, whose
\* role mapOpenAiMessage does not know; images in /v1/responses; the result
\* of a tool in parts at Anthropic.
Lost(d, e, b) ==
    \/ api = "chat" /\ e.by = "developer"
    \/ api = "responses" /\ b.kind = "image"
    \/ d = "anthropic" /\ e.by = "tool" /\ e.shape = "parts"

\* What becomes of a call's arguments.
ReadAs(d, args) ==
    CASE d = "ollama" /\ args # "none" -> ParseToolArguments(args)
      [] d = "anthropic" /\ args = "" -> "{}"
      [] OTHER -> args

Utterance(by, token, args) == [by |-> by, token |-> token, args |-> args]

Speaker(e) == IF e.by = "developer" THEN "system" ELSE e.by

\* What was said, as the provider d should read it: in the order it was said,
\* save that an assistant's calls come after its texts, that Anthropic has
\* the system's messages first, and Ollama a message's images last.
Uttered(d, e) ==
    LET Heard(kinds) ==
            Joined(e.blocks, LAMBDA b :
                IF b.kind \in kinds /\ ~Lost(d, e, b)
                THEN <<Utterance(Speaker(e), b.token, ReadAs(d, b.args))>>
                ELSE <<>>)
    IN  IF e.by = "assistant" THEN Heard({"text"}) \o Heard({"call"})
        ELSE IF d = "ollama" THEN Heard({"text"}) \o Heard({"image"})
        ELSE Heard({"text", "image"})

InPrompt(d, e) == d = "anthropic" /\ Speaker(e) = "system"

Meant(d) ==
    Joined(story, LAMBDA e : IF InPrompt(d, e) THEN Uttered(d, e) ELSE <<>>)
    \o Joined(story, LAMBDA e : IF InPrompt(d, e) THEN <<>> ELSE Uttered(d, e))

\* What is in the request.
ReadBack(r) ==
    LET By(m, b) == IF b.kind = "result" THEN "tool" ELSE m.role
        Read(m) ==
            Joined(m.blocks, LAMBDA b :
                IF b.token = 0 THEN <<>>
                ELSE <<Utterance(By(m, b), b.token, b.args)>>)
    IN  [i \in DOMAIN r.system |->
            Utterance("system", r.system[i].token, r.system[i].args)]
        \o Joined(r.messages, Read)

\* Whatever endpoint and whichever providers a conversation went through, the
\* upstream reads all of it: each text, image, call and result once, from
\* the one who said it, in order, save for what the formats are known to
\* lose (the parse and format functions and the providers' mappers together).
RequestIsTheConversation ==
    state = "asked" => ReadBack(request) = Meant(dialect)

HasResult(m) ==
    m.role = "tool" \/ \E i \in DOMAIN m.blocks : m.blocks[i].kind = "result"
ResultId(m) == IF m.role = "tool" THEN m.id ELSE m.blocks[1].id

\* The shape the upstreams expect: an assistant message with n calls is
\* followed by n results, of those calls (Ollama's carry no ids), and a
\* result comes nowhere else, however many input items or messages the
\* client's endpoint makes of one turn (appendResponsesFunctionCall).
ResultsFollowCalls ==
    LET messages == request.messages
        CallsOf(i) == Calls(messages[i].blocks)
        Due(i) == (i + 1) .. (i + Len(CallsOf(i)))
    IN  \A i \in DOMAIN messages :
            /\ Due(i) \subseteq {j \in DOMAIN messages : HasResult(messages[j])}
            /\ dialect # "ollama" =>
                   {ResultId(messages[j]) : j \in Due(i)} =
                       {b.id : b \in ToSet(CallsOf(i))}
            /\ HasResult(messages[i]) => \E j \in 1 .. (i - 1) : i \in Due(j)

\* A request fails in the gateway only where a model's arguments were cut off
\* and the history then goes to Anthropic, whose mapper parses them; there
\* it fails each time it is sent, retries included.
OnlyCutArgumentsFail ==
    LET cut == \E b \in Made : b.args = "cut"
    IN  /\ state = "failed" => dialect = "anthropic" /\ cut
        /\ state = "asked" => dialect # "anthropic" \/ ~cut

\* The client can trust the end of a reply: an answer cut off at the token
\* limit is never reported as whole, unless Ollama cut it off after a call,
\* and a chat reply says "tool_calls" with calls and "stop" without, unless
\* OpenAI itself said "stop" (the finish reasons of three mappers through the
\* two formats).
ReplySaysHowItEnded ==
    LET calls == Calls(story[Len(story)].blocks)
        given == UNION {{b.id : b \in ToSet(history[i].calls)} :
                        i \in DOMAIN history}
    IN  state = "answered" =>
            /\ told.ended \in {"length", "max_tokens"} =>
                   \/ told.reply \in {"length", "incomplete"}
                   \/ dialect = "ollama" /\ calls # <<>>
            /\ told.reply \in {"length", "incomplete"} =>
                   told.ended \in {"length", "max_tokens"}
            /\ told.reply = "tool_calls" =>
                   calls # <<>> /\ \A i \in DOMAIN calls : calls[i].id \in given
            /\ told.reply = "stop" =>
                   calls = <<>> \/ (dialect = "openai" /\ told.ended = "stop")

=============================================================================
