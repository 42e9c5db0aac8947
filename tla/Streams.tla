------------------------------ MODULE Streams ------------------------------
(***************************************************************************)
(* One streamed completion, from the body of the upstream to the frames of *)
(* the client: the stream parsers of the openai, anthropic and ollama      *)
(* providers, the translation of nova events by the llamactl and from-file *)
(* providers, the loops of the chat and responses controllers and the      *)
(* stream formatting of sirius-compat-openai.                              *)
(*                                                                         *)
(* A parsed body is lines.  Line i arrives as three pieces, its head, its  *)
(* tail and its newline; a read returns any number of pieces and may end   *)
(* within a line, and a body may be cut within its last one.  A translated *)
(* body is the events of a nova stream, read one at a time.  Only reads    *)
(* wait: what a read makes a parser yield reaches the client in that step. *)
(*                                                                         *)
(* The body is settled before the first read.  A parser sees of it only    *)
(* what it has read, so this orders nothing that it could observe.         *)
(* Retries, fallbacks, idle timeouts and disconnects are in Gateway; here  *)
(* a parser that throws ends in the error event that is Gateway's answer   *)
(* once output was sent or no provider is left.                            *)
(*                                                                         *)
(* Definitions marked "Fault:" are as in Policy.                           *)
(***************************************************************************)
EXTENDS Integers, Sequences, FiniteSets, SequencesExt

CONSTANTS
    Dialects,  \* the providers whose streams are considered
    MaxLines,  \* bound: lines or events of a body
    MaxCalls,  \* bound: tool calls of a body
    Tokens     \* bound: the input token counts an upstream reports

Parsed == {"openai", "anthropic", "ollama"}
Translated == {"llamactl", "fromfile"}

ASSUME StreamsAssumption ==
    /\ Dialects \subseteq Parsed \cup Translated
    /\ MaxLines \in Nat
    /\ MaxCalls \in Nat
    /\ Tokens \subseteq Nat

VARIABLES
    dialect,  \* the provider
    api,      \* the endpoint: "chat" or "responses"
    script,   \* the lines or events of the body
    ending,   \* how the body ends: "open" (undecided), "closed" or "broken"
    size,     \* the pieces of the body
    at,       \* the pieces read
    buffer,   \* the pieces of the incomplete line
    memory,   \* what the parser keeps of earlier lines
    out,      \* history: the events yielded to the controller
    client,   \* the frames written, and the controller's flags
    ended     \* the response is complete

bodyVars == <<dialect, api, script, ending, size>>
parserVars == <<at, buffer, memory>>
vars == <<bodyVars, parserVars, out, client, ended>>

-----------------------------------------------------------------------------
(* Events.  `call` is the upstream's tool call a fragment belongs to; the  *)
(* client sees only the index, and whether there is an id and a name.      *)

Content == [type |-> "content"]
Tool(call, index, named) ==
    [type |-> "tool", call |-> call, index |-> index, named |-> named]
Usage(input) == [type |-> "usage", input |-> input]
Done(reason) == [type |-> "done", reason |-> reason]
Error == [type |-> "error"]

When(condition, event) == IF condition THEN <<event>> ELSE <<>>
\* The places of the events, lines or frames of a type.
Places(events, type) == {i \in DOMAIN events : events[i].type = type}

\* A usage object may lack the input count, or be absent.
Uncounted == -1
NoUsage == -2
Count(n) == IF n < 0 THEN 0 ELSE n

NoMemory == [tools |-> <<>>, usage |-> Uncounted, seenToolCalls |-> FALSE]

-----------------------------------------------------------------------------
(* Lines of the upstreams, and the finish reasons in them.                 *)

Junk == [type |-> "junk"]    \* a comment, an event name, no JSON, [DONE]

\* A chunk of openai or ollama: text, fragments of tool calls, usage, finish.
Chunk(text, tools, usage, finish) ==
    [type |-> "chunk", text |-> text, tools |-> tools,
     usage |-> usage, finish |-> finish]
Wordless(tools, usage, finish) == Chunk(FALSE, tools, usage, finish)
Fragment(call, first) == [call |-> call, first |-> first]
FirstOf(call) == Fragment(call, TRUE)
MoreOf(call) == Fragment(call, FALSE)
Unfinished == "none"
TextChunk == Chunk(TRUE, <<>>, NoUsage, Unfinished)

MessageStart(usage) == [type |-> "message_start", usage |-> usage]
ToolBlock(block) == [type |-> "content_block_start", block |-> block, tool |-> TRUE]
TextBlock(block) == [type |-> "content_block_start", block |-> block, tool |-> FALSE]
JsonDelta(block) == [type |-> "content_block_delta", block |-> block, json |-> TRUE]
TextDelta(block) == [type |-> "content_block_delta", block |-> block, json |-> FALSE]
MessageDelta(usage, finish) ==
    [type |-> "message_delta", usage |-> usage, finish |-> finish]

\* What becomes of the upstream's reasons; one that is not known is a stop.
mapFinishReason(raw) ==
    IF raw \in {"length", "tool_calls", "content_filter"} THEN raw ELSE "stop"
mapStopReason(raw) ==
    CASE raw = "max_tokens" -> "length"
      [] raw = "tool_use" -> "tool_calls"
      [] OTHER -> "stop"
mapOllamaFinishReason(hasToolCalls, raw) ==
    CASE hasToolCalls -> "tool_calls"
      [] ~hasToolCalls /\ raw = "length" -> "length"
      [] OTHER -> "stop"

\* processLine of openai.
OpenAiEvents(m) ==
    IF m.type # "chunk" THEN <<>>
    ELSE When(m.text, Content)
         \o [i \in DOMAIN m.tools |->
                Tool(m.tools[i].call, m.tools[i].call, m.tools[i].first)]
         \o When(m.usage # NoUsage, Usage(Count(m.usage)))
         \o When(m.finish # Unfinished, Done(mapFinishReason(m.finish)))

\* Fault: the number of the block is taken for the tool call's.
OrdinalByBlock(block, tools) == block

\* toolOrdinals: the place of a tool block among those that have started.
Ordinal(block, tools) == SelectInSeq(tools, LAMBDA b : b = block) - 1

\* Fault: the count of message_start is not reused.
InputCountAlone(usage, mem) == Count(usage)

InputCount(usage, mem) == Count(IF usage = Uncounted THEN mem.usage ELSE usage)

\* processLine of anthropic.
AnthropicEvents(m, mem) ==
    CASE m.type = "message_start" ->
            When(m.usage # NoUsage, Usage(Count(m.usage)))
      [] m.type = "content_block_start" ->
            When(m.tool, Tool(m.block, Ordinal(m.block, Append(mem.tools, m.block)), TRUE))
      [] m.type = "content_block_delta" /\ m.json ->
            When(Contains(mem.tools, m.block),
                 Tool(m.block, Ordinal(m.block, mem.tools), FALSE))
      [] m.type = "content_block_delta" /\ ~m.json -> <<Content>>
      [] m.type = "message_delta" ->
            When(m.usage # NoUsage, Usage(InputCount(m.usage, mem)))
            \o When(m.finish # Unfinished, Done(mapStopReason(m.finish)))
      [] OTHER -> <<>>

\* Fault: only the calls of this chunk count.
HasToolCallsNow(m, mem) == m.tools # <<>>

HasToolCalls(m, mem) == mem.seenToolCalls \/ m.tools # <<>>

\* processLine of ollama: every call is whole and has an id; the index is
\* the place in the chunk.
OllamaEvents(m, mem) ==
    IF m.type # "chunk" THEN <<>>
    ELSE When(m.text, Content)
         \o [i \in DOMAIN m.tools |-> Tool(m.tools[i].call, i - 1, TRUE)]
         \o When(m.finish # Unfinished /\ m.usage # NoUsage, Usage(Count(m.usage)))
         \o When(m.finish # Unfinished,
                 Done(mapOllamaFinishReason(HasToolCalls(m, mem), m.finish)))

LineEvents(d, m, mem) ==
    CASE d = "openai" -> OpenAiEvents(m)
      [] d = "anthropic" -> AnthropicEvents(m, mem)
      [] d = "ollama" -> OllamaEvents(m, mem)

\* Fault: text blocks are counted too.
TakesOrdinalAlways(m) == m.type = "content_block_start"

TakesOrdinal(m) == m.type = "content_block_start" /\ m.tool

\* What a line leaves behind for the next.
Remembered(d, m, mem) ==
    CASE m.type = "message_start" /\ m.usage # NoUsage ->
            [mem EXCEPT !.usage = m.usage]
      [] TakesOrdinal(m) ->
            [mem EXCEPT !.tools = Append(@, m.block)]
      [] m.type = "chunk" /\ d = "ollama" ->
            [mem EXCEPT !.seenToolCalls = HasToolCalls(m, mem)]
      [] OTHER -> mem

Processed(d, sofar, m) ==
    [events |-> sofar.events \o LineEvents(d, m, sofar.memory),
     memory |-> Remembered(d, m, sofar.memory)]

-----------------------------------------------------------------------------
(* The events of a nova stream, and what the two providers make of them.   *)

Nova(type) == [type |-> type]
NovaDone(completion, reason) ==
    [type |-> "nova_done", completion |-> completion, finish |-> reason]

\* Fault: every done event is a completion.
LlamactlDoneTrusting(m) == Done(m.finish)

LlamactlDone(m) == IF m.completion = "upstream" THEN Done(m.finish) ELSE Error

\* LlamactlAdapter.streamResponse: what an event yields, and its returns.
LlamactlEvents(m) ==
    CASE m.type = "nova_text" -> <<Content>>
      [] m.type = "nova_tool" -> <<>>
      [] m.type = "nova_error" -> <<Error>>
      [] m.type = "nova_done" -> <<LlamactlDone(m)>>

\* toSiriusAdapter's streamResponse.
FromFileEvents(m) ==
    CASE m.type = "nova_text" -> <<Content>>
      [] m.type = "nova_tool" -> <<>>
      [] m.type = "nova_error" -> <<Error>>
      [] m.type = "nova_done" -> <<Done(m.finish)>>

NovaEvents(m) ==
    IF dialect = "llamactl" THEN LlamactlEvents(m) ELSE FromFileEvents(m)
Returns(m) == dialect = "llamactl" /\ m.type \in {"nova_error", "nova_done"}

\* The events that follow the last one of the stream.
NovaEnd ==
    IF dialect = "fromfile" /\ ending = "closed" THEN <<>> ELSE <<Error>>

-----------------------------------------------------------------------------
(* The controllers. *)

RoleFrame == [type |-> "role"]
FinishFrame(reason) == [type |-> "finish", reason |-> reason]

toOpenAiFinishReason(reason) ==
    IF reason \in {"length", "tool_calls", "content_filter", "error"} THEN reason ELSE "stop"

\* formatStreamChunk; an event that is not a "done" is its own frame.
FrameOf(e) == IF e.type = "done" THEN FinishFrame(toOpenAiFinishReason(e.reason)) ELSE e

\* Fault: a tool call does not start the message.
StartsMessageText(e) == e.type = "content"

StartsMessage(e) == e.type \in {"content", "tool"}

ChatFrames(c, e) ==
    When(~c.firstChunkEmitted /\ StartsMessage(e), RoleFrame)
    \o (IF e.type = "error" THEN <<FinishFrame("error")>> ELSE <<FrameOf(e)>>)

ResponsesFrames(e) ==
    CASE e.type = "error" -> <<Error>>
      [] e.type = "content" -> <<Content>>
      [] e.type = "done" -> <<[type |-> "response.completed"]>>
      [] OTHER -> <<>>

\* One turn of the loop of an endpoint.  An error breaks it.
Written(a, c, e) ==
    IF c.broken THEN c
    ELSE [frames |-> c.frames \o (IF a = "chat" THEN ChatFrames(c, e)
                                  ELSE ResponsesFrames(e)),
          firstChunkEmitted |->
              c.firstChunkEmitted \/ (a = "chat" /\ StartsMessage(e)),
          broken |-> e.type = "error"]

\* What a client has been told when the events have been written to it.
Told(a, c, events) == FoldLeft(LAMBDA t, e : Written(a, t, e), c, events)
NothingTold == [frames |-> <<>>, firstChunkEmitted |-> FALSE, broken |-> FALSE]

\* The events go to the controller; `last` says that none will follow.
Yield(events, last) ==
    LET c == Told(api, client, events)
    IN  /\ out' = out \o events
        /\ ended' = (last \/ c.broken)
        /\ client' = IF ended' /\ api = "chat"
                     THEN [c EXCEPT !.frames = Append(@, [type |-> "[DONE]"])]
                     ELSE c

-----------------------------------------------------------------------------
(* The upstreams.  They are not in the repository: these are the bodies    *)
(* the parsers and their tests take them to send.                          *)

\* The calls a chunked body has started, and whether it has finished.
CallsOf(m) == {m.tools[i].call : i \in DOMAIN m.tools}
Begun(s) == UNION {CallsOf(m) : m \in {n \in ToSet(s) : n.type = "chunk"}}
Finished(s) == \E m \in ToSet(s) :
                  /\ m.type \in {"chunk", "message_delta"}
                  /\ m.finish # Unfinished
UsageSent(s) == \E m \in ToSet(s) : m.type = "chunk" /\ m.usage # NoUsage

\* The first fragments of k more calls when n have begun.
NewCalls(n, k) == [i \in 1..k |-> FirstOf(n + i - 1)]

\* Text, a new call or two, more of a call, the finish and a usage chunk.
OpenAiLines(s) ==
    LET n == Cardinality(Begun(s))
        toolChunk(tools) == Wordless(tools, NoUsage, Unfinished)
    IN  IF Finished(s)
        THEN {Wordless(<<>>, u, Unfinished) : u \in IF UsageSent(s) THEN {} ELSE Tokens}
        ELSE {TextChunk}
             \cup {toolChunk(<<MoreOf(c)>>) : c \in Begun(s)}
             \cup {toolChunk(NewCalls(n, k)) :
                      k \in {j \in 1..2 : n + j <= MaxCalls}}
             \cup {Wordless(<<>>, u, r) :
                      u \in Tokens \cup {NoUsage},
                      r \in {"length", IF n > 0 THEN "tool_calls" ELSE "stop"}}

\* Text and whole calls, in one chunk or in several, then a last chunk.
OllamaLines(s) ==
    LET n == Cardinality(Begun(s))
    IN  IF Finished(s) THEN {}
        ELSE {Chunk(k = 0, NewCalls(n, k), NoUsage, Unfinished) : k \in 0..MaxCalls - n}
             \cup {Wordless(NewCalls(n, k), u, r) : k \in 0..MaxCalls - n,
                      u \in Tokens \cup {NoUsage, Uncounted}, r \in {"stop", "length"}}

\* The tool blocks that have started.
ToolStarts(s) == {i \in Places(s, "content_block_start") : s[i].tool}

\* message_start, numbered blocks with their deltas, message_delta.  Counts
\* are cumulative, and only the last block gets deltas.
AnthropicLines(s) ==
    LET starts == Places(s, "content_block_start")
        n == Cardinality(starts)
        tools == Cardinality(ToolStarts(s))
        opened == Places(s, "message_start")
    IN  IF opened = {} THEN {MessageStart(u) : u \in Tokens \cup {NoUsage, Uncounted}}
        ELSE IF Finished(s) THEN {}
        ELSE {TextBlock(n)}
             \cup (IF tools < MaxCalls THEN {ToolBlock(n)} ELSE {})
             \cup (IF n = 0 THEN {} ELSE {JsonDelta(n - 1)})
             \cup (IF n = 0 \/ s[Max(starts)].tool THEN {} ELSE {TextDelta(n - 1)})
             \cup {MessageDelta(u, r) :
                      u \in {t \in Tokens : \A i \in opened : t >= Count(s[i].usage)}
                               \cup {NoUsage, Uncounted},
                      r \in {"max_tokens", IF tools > 0 THEN "tool_use" ELSE "end_turn"}}

\* A nova stream ends with one "done" or "error" event, or with none; a
\* done event says whether the upstream completed or the body just ended.
NovaLines(s) ==
    IF \E m \in ToSet(s) : m.type \in {"nova_done", "nova_error"} THEN {}
    ELSE {Nova(t) : t \in {"nova_text", "nova_tool", "nova_error"}}
         \cup {NovaDone(c, "stop") : c \in {"upstream", "eof"}}

\* One line of junk stands for any number.
Lines(s) ==
    LET junk == IF Contains(s, Junk) THEN {} ELSE {Junk}
    IN  CASE dialect = "openai" -> OpenAiLines(s) \cup junk
          [] dialect = "anthropic" -> AnthropicLines(s) \cup junk
          [] dialect = "ollama" -> OllamaLines(s) \cup junk
          [] OTHER -> NovaLines(s)

-----------------------------------------------------------------------------
(* The pieces of line i are the numbers 3i-2 (head), 3i-1 (tail) and 3i    *)
(* (newline).                                                              *)

IsNewline(p) == p % 3 = 0
LineOf(p) == (p + 2) \div 3
Whole(text) == Len(text) = 2 /\ text[2] = text[1] + 1 /\ LineOf(text[1]) = LineOf(text[2])

\* The text before each newline, and what is left.
Split(pieces) ==
    FoldLeft(LAMBDA s, p : IF IsNewline(p)
                           THEN [lines |-> Append(s.lines, s.rest), rest |-> <<>>]
                           ELSE [s EXCEPT !.rest = Append(@, p)],
             [lines |-> <<>>, rest |-> <<>>], pieces)

\* Text that is not one whole line does not parse and is skipped.
ProcessedText(sofar, text) ==
    IF Whole(text) THEN Processed(dialect, sofar, script[LineOf(text[1])]) ELSE sofar

Parse(texts) == FoldLeft(ProcessedText, [events |-> <<>>, memory |-> memory], texts)

Init ==
    /\ dialect \in Dialects
    /\ api \in {"chat", "responses"}
    /\ script = <<>>
    /\ ending = "open"
    /\ size = 0
    /\ at = 0
    /\ buffer = <<>>
    /\ memory = NoMemory
    /\ out = <<>>
    /\ client = NothingTold
    /\ ended = FALSE

\* The upstream writes one more line or event.
Send(m) ==
    /\ ending = "open" /\ ~ended
    /\ Len(script) < MaxLines
    /\ script' = Append(script, m)
    /\ UNCHANGED <<dialect, api, ending, size, parserVars, out, client, ended>>

\* The body ends, by a close or by a failure of the connection; `cut` pieces
\* of the last line are missing.
EndBody(how, cut) ==
    /\ ending = "open" /\ ~ended
    /\ ending' = how
    /\ size' = IF dialect \in Parsed THEN 3 * Len(script) - cut ELSE Len(script)
    /\ cut > 0 => dialect \in Parsed /\ script # <<>>
    /\ UNCHANGED <<dialect, api, script, parserVars, out, client, ended>>

\* The status is not ok, or there is no body.
Refuse ==
    /\ dialect \in Parsed
    /\ script = <<>> /\ ending = "open" /\ ~ended
    /\ Yield(<<Error>>, TRUE)
    /\ UNCHANGED <<bodyVars, parserVars>>

\* Fault: what is left of the text is forgotten.
ReadForgetful(n) ==
    /\ dialect \in Parsed /\ ending # "open" /\ ~ended
    /\ n \in 1..size - at
    /\ LET parsed == Parse(Split([i \in 1..n |-> at + i]).lines)
       IN  /\ memory' = parsed.memory
           /\ Yield(parsed.events, FALSE)
    /\ at' = at + n
    /\ UNCHANGED <<bodyVars, buffer>>

\* reader.read() returns n pieces; the last line of the text stays behind.
Read(n) ==
    /\ dialect \in Parsed /\ ending # "open" /\ ~ended
    /\ n \in 1..size - at
    /\ LET text == Split(buffer \o [i \in 1..n |-> at + i])
           parsed == Parse(text.lines)
       IN  /\ buffer' = text.rest
           /\ memory' = parsed.memory
           /\ Yield(parsed.events, FALSE)
    /\ at' = at + n
    /\ UNCHANGED bodyVars

\* Fault: the body's last line counts only with its newline.
ReadEndDry ==
    /\ dialect \in Parsed /\ ending # "open" /\ ~ended
    /\ at = size
    /\ Yield(IF ending = "closed" THEN <<>> ELSE <<Error>>, TRUE)
    /\ UNCHANGED <<bodyVars, parserVars>>

\* reader.read() is done: what is left is a line.  Or it throws.
ReadEnd ==
    /\ dialect \in Parsed /\ ending # "open" /\ ~ended
    /\ at = size
    /\ Yield(IF ending = "closed" THEN Parse(<<buffer>>).events ELSE <<Error>>, TRUE)
    /\ UNCHANGED <<bodyVars, parserVars>>

\* The next event of a nova stream.
Take ==
    /\ dialect \in Translated /\ ending # "open" /\ ~ended
    /\ at < size
    /\ at' = at + 1
    /\ Yield(NovaEvents(script[at + 1]), Returns(script[at + 1]))
    /\ UNCHANGED <<bodyVars, buffer, memory>>

\* A nova stream has no next event, or throws.
TakeEnd ==
    /\ dialect \in Translated /\ ending # "open" /\ ~ended
    /\ at = size
    /\ Yield(NovaEnd, TRUE)
    /\ UNCHANGED <<bodyVars, parserVars>>

Next ==
    \/ \E m \in Lines(script) : Send(m)
    \/ \E how \in {"closed", "broken"}, cut \in 0..2 : EndBody(how, cut)
    \/ Refuse
    \/ \E n \in 1..3 * MaxLines : Read(n)
    \/ ReadEnd
    \/ Take
    \/ TakeEnd

Spec == Init /\ [][Next]_vars

-----------------------------------------------------------------------------
TypeOK ==
    /\ dialect \in Dialects
    /\ api \in {"chat", "responses"}
    /\ Len(script) <= MaxLines
    /\ ending \in {"open", "closed", "broken"}
    /\ size \in 0..3 * MaxLines
    /\ at \in 0..size
    /\ Len(buffer) <= 2
    /\ memory.usage \in Tokens \cup {Uncounted}
    /\ Len(memory.tools) <= MaxCalls
    /\ client.firstChunkEmitted \in BOOLEAN /\ client.broken \in BOOLEAN
    /\ ended \in BOOLEAN

\* The lines or events of the body that arrived whole, but for the newline.
Legible ==
    SubSeq(script, 1, IF dialect \in Parsed THEN (size + 1) \div 3 ELSE size)

\* What a parser makes of them when it reads the body at once.
ParseLines(d, lines) ==
    FoldLeft(LAMBDA sofar, m : Processed(d, sofar, m),
             [events |-> <<>>, memory |-> NoMemory], lines)
Batch == ParseLines(dialect, Legible).events

\* Where the reads end makes no difference: what a parser has yielded is the
\* beginning of what it makes of the whole body at once, and all of it when
\* the body was closed and is read.
ReadsDontMatter ==
    LET told == IF out # <<>> /\ Last(out) = Error THEN Front(out) ELSE out
    IN  dialect \in Parsed /\ ending # "open" =>
            /\ IsPrefix(told, Batch)
            /\ ended /\ ending = "closed" => out = Batch

\* Fragments with one index are of one tool call of the upstream, and the
\* other way around; the first of an index has the id and the name, and it
\* is the next free index (the tool_calls of formatStreamChunk).  ollama's
\* indexes are places in a chunk, so its calls must come in one chunk.
ToolCallsIntact ==
    LET t == client.frames
        tools == Places(t, "tool")
        chunks == {i \in Places(script, "chunk") : script[i].tools # <<>>}
    IN  (dialect = "ollama" => Cardinality(chunks) <= 1) =>
            \A i \in tools :
                LET earlier == {t[j].index : j \in {k \in tools : k < i}}
                IN  /\ \A j \in tools : t[i].index = t[j].index <=> t[i].call = t[j].call
                    /\ t[i].named <=> t[i].index \notin earlier
                    /\ t[i].named => t[i].index = Cardinality(earlier)

\* When a body was closed and read, the last usage event has the count the
\* upstream reported last, wherever in the body that was (#32).
UsageIsComplete ==
    LET told == Places(out, "usage")
        counts == {m.usage : m \in {n \in ToSet(Legible) :
                      n.type \in {"chunk", "message_start", "message_delta"}}}
    IN  dialect \in Parsed /\ ended /\ ending = "closed" /\ told # {} =>
            out[Max(told)].input = Max(counts \cup {0})

\* A chat stream has one role frame, before the first text or tool frame, if
\* it has any of these.
RoleFirst ==
    LET frames == client.frames
        roles == Places(frames, "role")
        said == Places(frames, "content") \cup Places(frames, "tool")
    IN  api = "chat" =>
            /\ Cardinality(roles) = IF said = {} THEN 0 ELSE 1
            /\ \A i \in roles, j \in said : i < j

\* The upstream has said that its completion is complete.
Completed ==
    \E m \in ToSet(Legible) :
        \/ m.type \in {"chunk", "message_delta"} /\ m.finish # Unfinished
        \/ m.type = "nova_done" /\ m.completion = "upstream"

Successes ==
    Places(client.frames, "response.completed")
    \cup {i \in Places(client.frames, "finish") : client.frames[i].reason # "error"}

\* A client is told that its completion is complete only if the upstream has
\* said so: a stream that was cut short is not a success.
TruncationIsNoSuccess == Successes # {} => Completed

\* When a body was closed and is read, a client is told once if its
\* completion is complete, also if that was a last line without newline.
CompletionIsTold ==
    ended /\ ending = "closed" /\ Completed => Cardinality(Successes) = 1

\* A chat stream of a parser finishes with "tool_calls" only after tool
\* calls, and with "stop" only without.
FinishMatchesCalls ==
    \A i \in Places(client.frames, "finish") :
        LET reason == client.frames[i].reason
            calls == Places(client.frames, "tool") # {}
        IN  dialect \in Parsed => /\ reason = "tool_calls" => calls
                                  /\ reason = "stop" => ~calls
=============================================================================
