---------------------------- MODULE StreamsProofs ----------------------------
(***************************************************************************)
(* What is proved of a streamed completion, for every number of lines and  *)
(* tool calls and every way to cut the body into reads.                    *)
(*                                                                         *)
(* A parser's state after its reads is that of having taken the whole      *)
(* lines among them one at a time (SInv): the buffer is what came after    *)
(* the last newline, memory and events are the fold of the lines before    *)
(* it.  What a client is told then follows from the lines alone, in two    *)
(* steps: what the events of a body say of its tool calls, its finish and  *)
(* its usage (Fits, UsageFits, CallsFit), and that the frames made of      *)
(* events repeat it (Faithful, Numbered, Intact).                          *)
(***************************************************************************)
EXTENDS Streams, Induction

-----------------------------------------------------------------------------
(* The values. *)

Counts == Tokens \cup {Uncounted, NoUsage}
Fragments == [call : Nat, first : BOOLEAN]
ChunkLines ==
    [type : {"chunk"}, text : BOOLEAN, tools : Seq(Fragments), usage : Counts,
     finish : {"none", "stop", "length", "tool_calls"}]
BlockLines ==
    [type : {"message_start"}, usage : Counts]
    \cup [type : {"content_block_start"}, block : Nat, tool : BOOLEAN]
    \cup [type : {"content_block_delta"}, block : Nat, json : BOOLEAN]
    \cup [type : {"message_delta"}, usage : Counts,
          finish : {"max_tokens", "tool_use", "end_turn"}]
NovaLineSet ==
    [type : {"nova_text", "nova_tool", "nova_error"}]
    \cup [type : {"nova_done"}, completion : {"upstream", "eof"}, finish : {"stop"}]

\* The lines of a provider's body.
LinesOf(d) ==
    IF d \in Translated THEN NovaLineSet
    ELSE {Junk} \cup (IF d = "anthropic" THEN BlockLines ELSE ChunkLines)

\* The events a parser makes of lines, and those of any stream.
ParserEvents ==
    {Content}
    \cup [type : {"tool"}, call : Nat, index : Int, named : BOOLEAN]
    \cup [type : {"usage"}, input : Nat]
    \cup [type : {"done"}, reason : {"stop", "length", "tool_calls", "content_filter"}]
Events == ParserEvents \cup {Error}

Memories == [tools : Seq(Nat), usage : Tokens \cup {Uncounted}, seenToolCalls : BOOLEAN]
Progress == [events : Seq(ParserEvents), memory : Memories]
Start == [events |-> <<>>, memory |-> NoMemory]

\* An event that is yielded on a condition is a sequence of events.
LEMMA WhenIsSeq ==
  ASSUME NEW S, NEW c, NEW e, c => e \in S
  PROVE  When(c, e) \in Seq(S)
<1>1. CASE c
  BY <1>1 DEF When
<1>2. CASE ~c
  BY <1>2 DEF When
<1>3. QED
  BY <1>1, <1>2

\* The place of a block among the tool blocks: that of its first mention.
LEMMA OrdinalIsFirst ==
  ASSUME NEW tools \in Seq(Nat), NEW block
  PROVE  /\ Ordinal(block, tools) \in Int
         /\ (\E i \in 1..Len(tools) : tools[i] = block) =>
               /\ Ordinal(block, tools) + 1 \in 1..Len(tools)
               /\ tools[Ordinal(block, tools) + 1] = block
               /\ \A i \in 1..Len(tools) : tools[i] = block => Ordinal(block, tools) + 1 <= i
<1> DEFINE I == {i \in 1..Len(tools) : tools[i] = block}
<1>1. Ordinal(block, tools) = (IF I # {} THEN Min(I) ELSE 0) - 1
  BY DEF Ordinal, SelectInSeq
<1>2. ASSUME I # {}
      PROVE  Min(I) \in I /\ \A i \in I : Min(I) <= i
  <2>1. I \subseteq Nat
    OBVIOUS
  <2>2. \E m \in I : \A i \in I : m <= i
    <3> HIDE DEF I
    <3>1. QED
      BY <1>2, <2>1, LeastNat
  <2>3. QED
    BY <2>2 DEF Min
<1>3. CASE I = {}
  BY <1>1, <1>3
<1>4. CASE I # {}
  <2>1. Ordinal(block, tools) = Min(I) - 1 /\ Min(I) \in I
    BY <1>1, <1>2, <1>4
  <2>2. Min(I) \in 1..Len(tools) /\ tools[Min(I)] = block
    BY <2>1
  <2>3. \A i \in 1..Len(tools) : tools[i] = block => Min(I) <= i
    BY <1>2, <1>4
  <2>4. Ordinal(block, tools) \in Int /\ Ordinal(block, tools) + 1 = Min(I)
    <3> HIDE DEF I
    <3>1. QED
      BY <2>1, <2>2
  <2>5. QED
    <3> HIDE DEF I
    <3>1. QED
      BY <2>2, <2>3, <2>4
<1>5. QED
  BY <1>3, <1>4

\* Each line makes a parser yield events of its own kind and keeps its memory
\* well formed.
LEMMA LineTyped ==
  ASSUME NEW d \in Parsed, NEW m \in LinesOf(d), NEW mem \in Memories
  PROVE  /\ LineEvents(d, m, mem) \in Seq(ParserEvents)
         /\ Remembered(d, m, mem) \in Memories
<1> DEFINE Tools == [type : {"tool"}, call : Nat, index : Int, named : BOOLEAN]
<1>0. /\ \A u \in Counts : Usage(Count(u)) \in ParserEvents
      /\ \A r \in {"stop", "length", "tool_calls", "content_filter"} : Done(r) \in ParserEvents
      /\ \A c \in Nat, i \in Int, n \in BOOLEAN : Tool(c, i, n) \in ParserEvents
      /\ Content \in ParserEvents
  BY StreamsAssumption DEF ParserEvents, Usage, Count, Counts, Done, Tool, Content, Uncounted, NoUsage
<1>1. CASE d = "openai"
  <2>1. m = Junk \/ m \in ChunkLines
    BY <1>1 DEF LinesOf, Translated
  <2>2. CASE m = Junk
    BY <1>1, <2>2 DEF LineEvents, OpenAiEvents, Remembered, Junk, TakesOrdinal
  <2>3. CASE m \in ChunkLines
    <3>1. m.type = "chunk" /\ m.tools \in Seq(Fragments) /\ m.usage \in Counts
      BY <2>3 DEF ChunkLines
    <3>2. When(m.text, Content) \in Seq(ParserEvents)
      BY <1>0, WhenIsSeq
    <3>3. [i \in DOMAIN m.tools |-> Tool(m.tools[i].call, m.tools[i].call, m.tools[i].first)]
             \in Seq(ParserEvents)
      <4>1. \A i \in DOMAIN m.tools : m.tools[i] \in Fragments
        BY <3>1
      <4>2. \A i \in DOMAIN m.tools :
               Tool(m.tools[i].call, m.tools[i].call, m.tools[i].first) \in ParserEvents
        BY <1>0, <4>1 DEF Fragments
      <4>3. DOMAIN m.tools = 1..Len(m.tools) /\ Len(m.tools) \in Nat
        BY <3>1
      <4>4. QED
        BY <4>2, <4>3
    <3>4. When(m.usage # NoUsage, Usage(Count(m.usage))) \in Seq(ParserEvents)
      BY <1>0, <3>1, WhenIsSeq
    <3>5. When(m.finish # Unfinished, Done(mapFinishReason(m.finish))) \in Seq(ParserEvents)
      <4>1. mapFinishReason(m.finish) \in {"stop", "length", "tool_calls", "content_filter"}
        BY DEF mapFinishReason
      <4>2. QED
        BY <1>0, <4>1, WhenIsSeq
    <3>6. LineEvents(d, m, mem) \in Seq(ParserEvents)
      <4>1. LineEvents(d, m, mem) = OpenAiEvents(m)
        BY <1>1 DEF LineEvents
      <4>2. QED
        BY <3>1, <3>2, <3>3, <3>4, <3>5, <4>1 DEF OpenAiEvents
    <3>7. Remembered(d, m, mem) = mem
      BY <1>1, <3>1 DEF Remembered, TakesOrdinal
    <3>8. QED
      BY <3>6, <3>7
  <2>4. QED
    BY <2>1, <2>2, <2>3
<1>2. CASE d = "ollama"
  <2>1. m = Junk \/ m \in ChunkLines
    BY <1>2 DEF LinesOf, Translated
  <2>2. CASE m = Junk
    BY <1>2, <2>2 DEF LineEvents, OllamaEvents, Remembered, Junk, TakesOrdinal
  <2>3. CASE m \in ChunkLines
    <3>1. m.type = "chunk" /\ m.tools \in Seq(Fragments) /\ m.usage \in Counts
      BY <2>3 DEF ChunkLines
    <3>2. When(m.text, Content) \in Seq(ParserEvents)
      BY <1>0, WhenIsSeq
    <3>3. [i \in DOMAIN m.tools |-> Tool(m.tools[i].call, i - 1, TRUE)] \in Seq(ParserEvents)
      <4>1. \A i \in DOMAIN m.tools : m.tools[i] \in Fragments /\ i \in Int /\ i - 1 \in Int
        BY <3>1
      <4>2. \A i \in DOMAIN m.tools : Tool(m.tools[i].call, i - 1, TRUE) \in ParserEvents
        BY <1>0, <4>1 DEF Fragments
      <4>3. DOMAIN m.tools = 1..Len(m.tools) /\ Len(m.tools) \in Nat
        BY <3>1
      <4> DEFINE event(i) == Tool(m.tools[i].call, i - 1, TRUE)
      <4>4. [i \in DOMAIN m.tools |-> event(i)] \in Seq(ParserEvents)
        <5> HIDE DEF event
        <5>1. \A i \in DOMAIN m.tools : event(i) \in ParserEvents
          BY <4>2 DEF event
        <5>2. QED
          BY <4>3, <5>1
      <4>5. QED
        BY <4>4
    <3>4. When(m.finish # Unfinished /\ m.usage # NoUsage, Usage(Count(m.usage)))
             \in Seq(ParserEvents)
      BY <1>0, <3>1, WhenIsSeq
    <3>5. When(m.finish # Unfinished,
               Done(mapOllamaFinishReason(HasToolCalls(m, mem), m.finish))) \in Seq(ParserEvents)
      <4>1. mapOllamaFinishReason(HasToolCalls(m, mem), m.finish)
               \in {"stop", "length", "tool_calls", "content_filter"}
        BY DEF mapOllamaFinishReason
      <4>2. QED
        BY <1>0, <4>1, WhenIsSeq
    <3>6. LineEvents(d, m, mem) \in Seq(ParserEvents)
      <4>1. LineEvents(d, m, mem) = OllamaEvents(m, mem)
        BY <1>2 DEF LineEvents
      <4>2. QED
        BY <3>1, <3>2, <3>3, <3>4, <3>5, <4>1 DEF OllamaEvents
    <3>7. Remembered(d, m, mem) = [mem EXCEPT !.seenToolCalls = HasToolCalls(m, mem)]
      BY <1>2, <3>1 DEF Remembered, TakesOrdinal
    <3>8. Remembered(d, m, mem) \in Memories
      BY <3>7 DEF Memories, HasToolCalls
    <3>9. QED
      BY <3>6, <3>8
  <2>4. QED
    BY <2>1, <2>2, <2>3
<1>3. CASE d = "anthropic"
  <2>1. mem.tools \in Seq(Nat) /\ mem.usage \in Tokens \cup {Uncounted}
    BY DEF Memories
  <2>2. LineEvents(d, m, mem) = AnthropicEvents(m, mem)
    BY <1>3 DEF LineEvents
  <2>3. CASE m = Junk
    <3>1. m.type = "junk"
      BY <2>3 DEF Junk
    <3>2. AnthropicEvents(m, mem) = <<>>
      BY <3>1 DEF AnthropicEvents
    <3>3. Remembered(d, m, mem) = mem
      BY <1>3, <3>1 DEF Remembered, TakesOrdinal
    <3>4. QED
      BY <2>2, <3>2, <3>3
  <2>4. CASE m \in [type : {"message_start"}, usage : Counts]
    <3>1. m.type = "message_start" /\ m.usage \in Counts
      BY <2>4
    <3>2. AnthropicEvents(m, mem) = When(m.usage # NoUsage, Usage(Count(m.usage)))
      BY <3>1 DEF AnthropicEvents
    <3>3. Remembered(d, m, mem) =
             IF m.usage # NoUsage THEN [mem EXCEPT !.usage = m.usage] ELSE mem
      BY <3>1 DEF Remembered, TakesOrdinal
    <3>4. Remembered(d, m, mem) \in Memories
      BY <3>1, <3>3 DEF Memories, Counts
    <3>5. QED
      BY <1>0, <2>2, <3>1, <3>2, <3>4, WhenIsSeq
  <2>5. CASE m \in [type : {"content_block_start"}, block : Nat, tool : BOOLEAN]
    <3>1. m.type = "content_block_start" /\ m.block \in Nat /\ m.tool \in BOOLEAN
      BY <2>5
    <3>2. AnthropicEvents(m, mem) =
             When(m.tool, Tool(m.block, Ordinal(m.block, Append(mem.tools, m.block)), TRUE))
      BY <3>1 DEF AnthropicEvents
    <3>3. Append(mem.tools, m.block) \in Seq(Nat)
      BY <2>1, <3>1
    <3>4. Tool(m.block, Ordinal(m.block, Append(mem.tools, m.block)), TRUE) \in ParserEvents
      BY <1>0, <3>1, <3>3, OrdinalIsFirst
    <3>5. Remembered(d, m, mem) =
             IF m.tool THEN [mem EXCEPT !.tools = Append(@, m.block)] ELSE mem
      BY <1>3, <3>1 DEF Remembered, TakesOrdinal
    <3>6. Remembered(d, m, mem) \in Memories
      BY <3>3, <3>5 DEF Memories
    <3>7. QED
      BY <2>2, <3>2, <3>4, <3>6, WhenIsSeq
  <2>6. CASE m \in [type : {"content_block_delta"}, block : Nat, json : BOOLEAN]
    <3>1. m.type = "content_block_delta" /\ m.block \in Nat /\ m.json \in BOOLEAN
      BY <2>6
    <3>2. AnthropicEvents(m, mem) =
             IF m.json THEN When(Contains(mem.tools, m.block),
                                 Tool(m.block, Ordinal(m.block, mem.tools), FALSE))
             ELSE <<Content>>
      BY <3>1 DEF AnthropicEvents
    <3>3. Tool(m.block, Ordinal(m.block, mem.tools), FALSE) \in ParserEvents
      BY <1>0, <2>1, <3>1, OrdinalIsFirst
    <3>4. AnthropicEvents(m, mem) \in Seq(ParserEvents)
      <4>1. When(Contains(mem.tools, m.block), Tool(m.block, Ordinal(m.block, mem.tools), FALSE))
               \in Seq(ParserEvents)
        BY <3>3, WhenIsSeq
      <4>2. <<Content>> \in Seq(ParserEvents)
        BY <1>0
      <4>3. QED
        BY <3>2, <4>1, <4>2
    <3>5. Remembered(d, m, mem) = mem
      BY <1>3, <3>1 DEF Remembered, TakesOrdinal
    <3>6. QED
      BY <2>2, <3>4, <3>5
  <2>7. CASE m \in [type : {"message_delta"}, usage : Counts,
                    finish : {"max_tokens", "tool_use", "end_turn"}]
    <3>1. m.type = "message_delta" /\ m.usage \in Counts
      BY <2>7
    <3>2. AnthropicEvents(m, mem) =
             When(m.usage # NoUsage, Usage(InputCount(m.usage, mem)))
             \o When(m.finish # Unfinished, Done(mapStopReason(m.finish)))
      BY <3>1 DEF AnthropicEvents
    <3>3. Usage(InputCount(m.usage, mem)) \in ParserEvents
      BY <1>0, <2>1, <3>1 DEF InputCount, Counts
    <3>4. mapStopReason(m.finish) \in {"stop", "length", "tool_calls", "content_filter"}
      BY DEF mapStopReason
    <3>5. When(m.usage # NoUsage, Usage(InputCount(m.usage, mem))) \in Seq(ParserEvents)
          /\ When(m.finish # Unfinished, Done(mapStopReason(m.finish))) \in Seq(ParserEvents)
      BY <1>0, <3>3, <3>4, WhenIsSeq
    <3>6. Remembered(d, m, mem) = mem
      BY <1>3, <3>1 DEF Remembered, TakesOrdinal
    <3>7. QED
      BY <2>2, <3>2, <3>5, <3>6
  <2>8. QED
    BY <1>3, <2>3, <2>4, <2>5, <2>6, <2>7 DEF LinesOf, BlockLines, Translated
<1>4. QED
  BY <1>1, <1>2, <1>3 DEF Parsed

-----------------------------------------------------------------------------
(* The folds, each the fold of a function. *)

ProcessedOf(d) == [p \in Progress \X LinesOf(d) |-> Processed(d, p[1], p[2])]

\* Processing a line leads from one state of a parser to another.
LEMMA ProcessedTyped ==
  ASSUME NEW d \in Parsed
  PROVE  /\ Start \in Progress
         /\ \A p \in Progress, m \in LinesOf(d) : Processed(d, p, m) \in Progress
         /\ ProcessedOf(d) \in [Progress \X LinesOf(d) -> Progress]
<1>1. Start \in Progress
  BY DEF Start, Progress, NoMemory, Memories
<1>2. ASSUME NEW p \in Progress, NEW m \in LinesOf(d)
      PROVE  Processed(d, p, m) \in Progress
  <2>1. p.events \in Seq(ParserEvents) /\ p.memory \in Memories
    BY DEF Progress
  <2>2. /\ LineEvents(d, m, p.memory) \in Seq(ParserEvents)
        /\ Remembered(d, m, p.memory) \in Memories
    BY <2>1, LineTyped
  <2>3. QED
    BY <2>1, <2>2 DEF Processed, Progress
<1>3. QED
  BY <1>1, <1>2 DEF ProcessedOf

\* Parsing lines at once folds them with Processed.
LEMMA ParseLinesFold ==
  ASSUME NEW d \in Parsed, NEW lines \in Seq(LinesOf(d))
  PROVE  IsLeftFold(ParseLines(d, lines), Start, ProcessedOf(d), lines) /\ ParseLines(d, lines) \in Progress
<1> DEFINE D == DOMAIN lines
           pick == [t \in SUBSET D |-> Max(t)]
           next(g, t) == IF t = {} THEN Start
                         ELSE Processed(d, g[t \ {Max(t)}], lines[Max(t)])
           iter[t \in SUBSET D] == IF t = {} THEN Start
                                   ELSE Processed(d, iter[t \ {Max(t)}], lines[Max(t)])
<1>1. ParseLines(d, lines) = iter[D]
  BY DEF ParseLines, Start, FoldLeft, MapThenFoldSet
<1>2. IsFiniteSet(D) /\ Picks(pick, D) /\ \A t \in SUBSET D : t # {} => Max(t) \in t
  BY PlacesOfSequence
<1>3. ProcessedOf(d) \in [Progress \X LinesOf(d) -> Progress] /\ Start \in Progress
  BY ProcessedTyped
<1>4. PICK f \in [SUBSET D -> Progress] : LeftFolds(f, Start, ProcessedOf(d), lines)
  <2> HIDE DEF D
  <2>1. QED
    BY <1>3, LeftFoldExists DEF D
<1>5. ASSUME NEW t \in SUBSET D
      PROVE  f[t] = next(f, t)
  <2>1. CASE t = {}
    BY <1>4, <2>1 DEF LeftFolds
  <2>2. CASE t # {}
    <3>1. t \ {Max(t)} \in SUBSET D /\ lines[Max(t)] \in LinesOf(d)
      BY <1>2, <2>2
    <3>2. f[t \ {Max(t)}] \in Progress
      BY <3>1
    <3>3. f[t] = ProcessedOf(d)[<<f[t \ {Max(t)}], lines[Max(t)]>>]
      BY <1>4, <2>2 DEF LeftFolds
    <3>4. ProcessedOf(d)[<<f[t \ {Max(t)}], lines[Max(t)]>>]
             = Processed(d, f[t \ {Max(t)}], lines[Max(t)])
      BY <3>1, <3>2 DEF ProcessedOf
    <3>5. QED
      BY <2>2, <3>3, <3>4
  <2>3. QED
    BY <2>1, <2>2
<1>6. f = [t \in SUBSET D |-> next(f, t)]
  <2> HIDE DEF next
  <2>1. QED
    BY <1>4, <1>5
<1>7. iter = [t \in SUBSET D |-> next(iter, t)]
  BY <1>6
<1>8. \A t \in SUBSET D : iter[t] = next(iter, t)
  <2> HIDE DEF iter, next
  <2>1. QED
    BY <1>7
<1> DEFINE P == {t \in SUBSET D : iter[t] = f[t]}
<1>9. Inductive(P, pick, D)
  <2>1. {} \in P
    <3> HIDE DEF iter
    <3>1. next(iter, {}) = Start /\ next(f, {}) = Start /\ {} \in SUBSET D
      OBVIOUS
    <3>2. QED
      <4> HIDE DEF next, D
      <4>1. QED
        BY <1>5, <1>8, <3>1
  <2>2. ASSUME NEW t \in SUBSET D, t # {}, t \ {pick[t]} \in P
        PROVE  t \in P
    <3> HIDE DEF iter
    <3>1. iter[t \ {Max(t)}] = f[t \ {Max(t)}]
      BY <2>2
    <3>2. next(iter, t) = next(f, t)
      BY <2>2, <3>1
    <3>3. QED
      <4> HIDE DEF next
      <4>1. QED
        BY <1>5, <1>8, <3>2
  <2>3. QED
    <3> HIDE DEF P, pick
    <3>1. QED
      BY <2>1, <2>2 DEF Inductive
<1>10. iter[D] = f[D]
  <2>1. SUBSET D \subseteq P
    <3> HIDE DEF P, pick, D
    <3>1. QED
      BY <1>2, <1>9, AllSubsets
  <2>2. QED
    <3> HIDE DEF iter
    <3>1. QED
      BY <2>1
<1>11. QED
  BY <1>1, <1>4, <1>10 DEF IsLeftFold

\* Parsing is one line after the other.
LEMMA ParseLinesSteps ==
  ASSUME NEW d \in Parsed, NEW lines \in Seq(LinesOf(d))
  PROVE  /\ ParseLines(d, lines) \in Progress
         /\ ParseLines(d, <<>>) = Start
         /\ \A e \in LinesOf(d) : ParseLines(d, Append(lines, e)) = Processed(d, ParseLines(d, lines), e)
<1>1. IsLeftFold(ParseLines(d, lines), Start, ProcessedOf(d), lines) /\ ParseLines(d, lines) \in Progress
  BY ParseLinesFold
<1>2. <<>> \in Seq(LinesOf(d)) /\ \A e \in LinesOf(d) : Append(lines, e) \in Seq(LinesOf(d))
  OBVIOUS
<1>3. IsLeftFold(ParseLines(d, <<>>), Start, ProcessedOf(d), <<>>)
  BY <1>2, ParseLinesFold
<1>4. ASSUME NEW e \in LinesOf(d)
      PROVE  ParseLines(d, Append(lines, e)) = Processed(d, ParseLines(d, lines), e)
  <2>1. IsLeftFold(ParseLines(d, Append(lines, e)), Start, ProcessedOf(d), Append(lines, e))
    BY <1>2, ParseLinesFold
  <2>2. ParseLines(d, Append(lines, e)) = ProcessedOf(d)[<<ParseLines(d, lines), e>>]
    BY <1>1, <2>1, LeftFoldOfAppend
  <2>3. QED
    BY <1>1, <2>2 DEF ProcessedOf
<1>5. QED
  BY <1>1, <1>3, <1>4, LeftFoldOfEmpty

\* Texts that do not point outside of the body, and what a parser resumes with.
TextSet == {t \in Seq(Nat) : Whole(t) => LineOf(t[1]) \in 1..Len(script)}
Resume == [events |-> <<>>, memory |-> memory]
ProcessedTextOf == [p \in Progress \X TextSet |-> ProcessedText(p[1], p[2])]

\* The parser is in one of its states.
ParserTyped ==
    /\ dialect \in Parsed
    /\ script \in Seq(LinesOf(dialect))
    /\ memory \in Memories

\* Processing a text leads from one state of the parser to another.
LEMMA ProcessedTextTyped ==
  ASSUME ParserTyped
  PROVE  ProcessedTextOf \in [Progress \X TextSet -> Progress] /\ Resume \in Progress
<1>1. ASSUME NEW p \in Progress, NEW t \in TextSet
      PROVE  ProcessedText(p, t) \in Progress
  <2>1. CASE Whole(t)
    <3>1. script[LineOf(t[1])] \in LinesOf(dialect)
      BY <2>1 DEF TextSet, ParserTyped
    <3>2. QED
      BY <2>1, <3>1, ProcessedTyped DEF ProcessedText, ParserTyped
  <2>2. CASE ~Whole(t)
    BY <2>2 DEF ProcessedText
  <2>3. QED
    BY <2>1, <2>2
<1>2. QED
  BY <1>1 DEF ProcessedTextOf, Resume, Progress, ParserTyped

\* Parsing texts folds them with ProcessedText.
LEMMA ParseFold ==
  ASSUME ParserTyped, NEW texts \in Seq(TextSet)
  PROVE  IsLeftFold(Parse(texts), Resume, ProcessedTextOf, texts) /\ Parse(texts) \in Progress
<1> DEFINE D == DOMAIN texts
           pick == [t \in SUBSET D |-> Max(t)]
           next(g, t) == IF t = {} THEN Resume
                         ELSE ProcessedText(g[t \ {Max(t)}], texts[Max(t)])
           iter[t \in SUBSET D] == IF t = {} THEN Resume
                                   ELSE ProcessedText(iter[t \ {Max(t)}], texts[Max(t)])
<1>1. Parse(texts) = iter[D]
  BY DEF Parse, Resume, FoldLeft, MapThenFoldSet
<1>2. IsFiniteSet(D) /\ Picks(pick, D) /\ \A t \in SUBSET D : t # {} => Max(t) \in t
  BY PlacesOfSequence
<1>3. ProcessedTextOf \in [Progress \X TextSet -> Progress] /\ Resume \in Progress
  BY ProcessedTextTyped
<1>4. PICK f \in [SUBSET D -> Progress] : LeftFolds(f, Resume, ProcessedTextOf, texts)
  <2> HIDE DEF D
  <2>1. QED
    BY <1>3, LeftFoldExists DEF D
<1>5. ASSUME NEW t \in SUBSET D
      PROVE  f[t] = next(f, t)
  <2>1. CASE t = {}
    BY <1>4, <2>1 DEF LeftFolds
  <2>2. CASE t # {}
    <3>1. t \ {Max(t)} \in SUBSET D /\ texts[Max(t)] \in TextSet
      BY <1>2, <2>2
    <3>2. f[t \ {Max(t)}] \in Progress
      BY <3>1
    <3>3. f[t] = ProcessedTextOf[<<f[t \ {Max(t)}], texts[Max(t)]>>]
      BY <1>4, <2>2 DEF LeftFolds
    <3>4. ProcessedTextOf[<<f[t \ {Max(t)}], texts[Max(t)]>>]
             = ProcessedText(f[t \ {Max(t)}], texts[Max(t)])
      BY <3>1, <3>2 DEF ProcessedTextOf
    <3>5. QED
      BY <2>2, <3>3, <3>4
  <2>3. QED
    BY <2>1, <2>2
<1>6. f = [t \in SUBSET D |-> next(f, t)]
  <2> HIDE DEF next
  <2>1. QED
    BY <1>4, <1>5
<1>7. iter = [t \in SUBSET D |-> next(iter, t)]
  BY <1>6
<1>8. \A t \in SUBSET D : iter[t] = next(iter, t)
  <2> HIDE DEF iter, next
  <2>1. QED
    BY <1>7
<1> DEFINE P == {t \in SUBSET D : iter[t] = f[t]}
<1>9. Inductive(P, pick, D)
  <2>1. {} \in P
    <3> HIDE DEF iter
    <3>1. next(iter, {}) = Resume /\ next(f, {}) = Resume /\ {} \in SUBSET D
      OBVIOUS
    <3>2. QED
      <4> HIDE DEF next, D
      <4>1. QED
        BY <1>5, <1>8, <3>1
  <2>2. ASSUME NEW t \in SUBSET D, t # {}, t \ {pick[t]} \in P
        PROVE  t \in P
    <3> HIDE DEF iter
    <3>1. iter[t \ {Max(t)}] = f[t \ {Max(t)}]
      BY <2>2
    <3>2. next(iter, t) = next(f, t)
      BY <2>2, <3>1
    <3>3. QED
      <4> HIDE DEF next
      <4>1. QED
        BY <1>5, <1>8, <3>2
  <2>3. QED
    <3> HIDE DEF P, pick
    <3>1. QED
      BY <2>1, <2>2 DEF Inductive
<1>10. iter[D] = f[D]
  <2>1. SUBSET D \subseteq P
    <3> HIDE DEF P, pick, D
    <3>1. QED
      BY <1>2, <1>9, AllSubsets
  <2>2. QED
    <3> HIDE DEF iter
    <3>1. QED
      BY <2>1
<1>11. QED
  BY <1>1, <1>4, <1>10 DEF IsLeftFold

\* Parsing texts is one text after the other.
LEMMA ParseSteps ==
  ASSUME ParserTyped, NEW texts \in Seq(TextSet)
  PROVE  /\ Parse(texts) \in Progress
         /\ Parse(<<>>) = Resume
         /\ \A e \in TextSet : Parse(Append(texts, e)) = ProcessedText(Parse(texts), e)
<1>1. IsLeftFold(Parse(texts), Resume, ProcessedTextOf, texts) /\ Parse(texts) \in Progress
  BY ParseFold
<1>2. <<>> \in Seq(TextSet) /\ \A e \in TextSet : Append(texts, e) \in Seq(TextSet)
  OBVIOUS
<1>3. IsLeftFold(Parse(<<>>), Resume, ProcessedTextOf, <<>>)
  BY <1>2, ParseFold
<1>4. ASSUME NEW e \in TextSet
      PROVE  Parse(Append(texts, e)) = ProcessedText(Parse(texts), e)
  <2>1. IsLeftFold(Parse(Append(texts, e)), Resume, ProcessedTextOf, Append(texts, e))
    BY <1>2, ParseFold
  <2>2. Parse(Append(texts, e)) = ProcessedTextOf[<<Parse(texts), e>>]
    BY <1>1, <2>1, LeftFoldOfAppend
  <2>3. QED
    BY <1>1, <2>2 DEF ProcessedTextOf
<1>5. QED
  BY <1>1, <1>3, <1>4, LeftFoldOfEmpty

\* What Split makes of one more piece.
SplitNext(s, p) ==
    IF IsNewline(p) THEN [lines |-> Append(s.lines, s.rest), rest |-> <<>>]
    ELSE [s EXCEPT !.rest = Append(@, p)]
Splits == [lines : Seq(Seq(Nat)), rest : Seq(Nat)]
NoPieces == [lines |-> <<>>, rest |-> <<>>]
SplitOf == [p \in Splits \X Nat |-> SplitNext(p[1], p[2])]

\* A split of pieces stays one.
LEMMA SplitTyped == SplitOf \in [Splits \X Nat -> Splits] /\ NoPieces \in Splits
<1>1. ASSUME NEW s \in Splits, NEW p \in Nat
      PROVE  SplitNext(s, p) \in Splits
  <2>1. s.lines \in Seq(Seq(Nat)) /\ s.rest \in Seq(Nat)
    BY DEF Splits
  <2>2. CASE IsNewline(p)
    BY <2>1, <2>2 DEF SplitNext, Splits
  <2>3. CASE ~IsNewline(p)
    <3>1. SplitNext(s, p) = [lines |-> s.lines, rest |-> Append(s.rest, p)]
      BY <2>3 DEF SplitNext, Splits
    <3>2. QED
      BY <2>1, <3>1 DEF Splits
  <2>4. QED
    BY <2>2, <2>3
<1>2. SplitOf \in [Splits \X Nat -> Splits]
  BY <1>1 DEF SplitOf
<1>3. NoPieces \in Splits
  BY DEF NoPieces, Splits
<1>4. QED
  BY <1>2, <1>3

\* Splitting pieces folds them with SplitNext.
LEMMA SplitFold ==
  ASSUME NEW pieces \in Seq(Nat)
  PROVE  IsLeftFold(Split(pieces), NoPieces, SplitOf, pieces) /\ Split(pieces) \in Splits
<1> DEFINE D == DOMAIN pieces
           pick == [t \in SUBSET D |-> Max(t)]
           next(g, t) == IF t = {} THEN NoPieces
                         ELSE SplitNext(g[t \ {Max(t)}], pieces[Max(t)])
           iter[t \in SUBSET D] == IF t = {} THEN NoPieces
                                   ELSE SplitNext(iter[t \ {Max(t)}], pieces[Max(t)])
<1>1. Split(pieces) = iter[D]
  BY DEF Split, SplitNext, NoPieces, FoldLeft, MapThenFoldSet
<1>2. IsFiniteSet(D) /\ Picks(pick, D) /\ \A t \in SUBSET D : t # {} => Max(t) \in t
  BY PlacesOfSequence
<1>3. SplitOf \in [Splits \X Nat -> Splits] /\ NoPieces \in Splits
  BY SplitTyped
<1>4. PICK f \in [SUBSET D -> Splits] : LeftFolds(f, NoPieces, SplitOf, pieces)
  <2> HIDE DEF D
  <2>1. QED
    BY <1>3, LeftFoldExists DEF D
<1>5. ASSUME NEW t \in SUBSET D
      PROVE  f[t] = next(f, t)
  <2>1. CASE t = {}
    BY <1>4, <2>1 DEF LeftFolds
  <2>2. CASE t # {}
    <3>1. t \ {Max(t)} \in SUBSET D /\ pieces[Max(t)] \in Nat
      BY <1>2, <2>2
    <3>2. f[t \ {Max(t)}] \in Splits
      BY <3>1
    <3>3. f[t] = SplitOf[<<f[t \ {Max(t)}], pieces[Max(t)]>>]
      BY <1>4, <2>2 DEF LeftFolds
    <3>4. SplitOf[<<f[t \ {Max(t)}], pieces[Max(t)]>>]
             = SplitNext(f[t \ {Max(t)}], pieces[Max(t)])
      BY <3>1, <3>2 DEF SplitOf
    <3>5. QED
      BY <2>2, <3>3, <3>4
  <2>3. QED
    BY <2>1, <2>2
<1>6. f = [t \in SUBSET D |-> next(f, t)]
  <2> HIDE DEF next
  <2>1. QED
    BY <1>4, <1>5
<1>7. iter = [t \in SUBSET D |-> next(iter, t)]
  BY <1>6
<1>8. \A t \in SUBSET D : iter[t] = next(iter, t)
  <2> HIDE DEF iter, next
  <2>1. QED
    BY <1>7
<1> DEFINE P == {t \in SUBSET D : iter[t] = f[t]}
<1>9. Inductive(P, pick, D)
  <2>1. {} \in P
    <3> HIDE DEF iter
    <3>1. next(iter, {}) = NoPieces /\ next(f, {}) = NoPieces /\ {} \in SUBSET D
      OBVIOUS
    <3>2. QED
      <4> HIDE DEF next, D
      <4>1. QED
        BY <1>5, <1>8, <3>1
  <2>2. ASSUME NEW t \in SUBSET D, t # {}, t \ {pick[t]} \in P
        PROVE  t \in P
    <3> HIDE DEF iter
    <3>1. iter[t \ {Max(t)}] = f[t \ {Max(t)}]
      BY <2>2
    <3>2. next(iter, t) = next(f, t)
      BY <2>2, <3>1
    <3>3. QED
      <4> HIDE DEF next
      <4>1. QED
        BY <1>5, <1>8, <3>2
  <2>3. QED
    <3> HIDE DEF P, pick
    <3>1. QED
      BY <2>1, <2>2 DEF Inductive
<1>10. iter[D] = f[D]
  <2>1. SUBSET D \subseteq P
    <3> HIDE DEF P, pick, D
    <3>1. QED
      BY <1>2, <1>9, AllSubsets
  <2>2. QED
    <3> HIDE DEF iter
    <3>1. QED
      BY <2>1
<1>11. QED
  BY <1>1, <1>4, <1>10 DEF IsLeftFold

\* Splitting is one piece after the other.
LEMMA SplitSteps ==
  ASSUME NEW pieces \in Seq(Nat)
  PROVE  /\ Split(pieces) \in Splits
         /\ Split(<<>>) = NoPieces
         /\ \A e \in Nat : Split(Append(pieces, e)) = SplitNext(Split(pieces), e)
<1>1. IsLeftFold(Split(pieces), NoPieces, SplitOf, pieces) /\ Split(pieces) \in Splits
  BY SplitFold
<1>2. <<>> \in Seq(Nat) /\ \A e \in Nat : Append(pieces, e) \in Seq(Nat)
  OBVIOUS
<1>3. IsLeftFold(Split(<<>>), NoPieces, SplitOf, <<>>)
  BY <1>2, SplitFold
<1>4. ASSUME NEW e \in Nat
      PROVE  Split(Append(pieces, e)) = SplitNext(Split(pieces), e)
  <2>1. IsLeftFold(Split(Append(pieces, e)), NoPieces, SplitOf, Append(pieces, e))
    BY <1>2, SplitFold
  <2>2. Split(Append(pieces, e)) = SplitOf[<<Split(pieces), e>>]
    BY <1>1, <2>1, LeftFoldOfAppend
  <2>3. QED
    BY <1>1, <2>2 DEF SplitOf
<1>5. QED
  BY <1>1, <1>3, <1>4, LeftFoldOfEmpty

Frames ==
    {Content, Error, RoleFrame, [type |-> "response.completed"], [type |-> "[DONE]"]}
    \cup [type : {"tool"}, call : Nat, index : Int, named : BOOLEAN]
    \cup [type : {"usage"}, input : Nat]
    \cup [type : {"finish"},
          reason : {"stop", "length", "tool_calls", "content_filter", "error"}]
Clients == [frames : Seq(Frames), firstChunkEmitted : BOOLEAN, broken : BOOLEAN]
WrittenOf(a) == [p \in Clients \X Events |-> Written(a, p[1], p[2])]

\* One turn of a controller's loop writes frames.
LEMMA WrittenTyped ==
  ASSUME NEW a
  PROVE  /\ \A c \in Clients, e \in Events : Written(a, c, e) \in Clients
         /\ WrittenOf(a) \in [Clients \X Events -> Clients]
<1>1. ASSUME NEW c \in Clients, NEW e \in Events
      PROVE  Written(a, c, e) \in Clients
  <2>1. c.frames \in Seq(Frames) /\ c.firstChunkEmitted \in BOOLEAN /\ c.broken \in BOOLEAN
    BY DEF Clients
  <2>2. FinishFrame("error") \in Frames /\ RoleFrame \in Frames
    BY DEF FinishFrame, Frames
  <2>3. FrameOf(e) \in Frames
    <3>1. CASE e.type = "done"
      BY <3>1 DEF FrameOf, FinishFrame, toOpenAiFinishReason, Frames
    <3>2. CASE e.type # "done"
      BY <3>2 DEF FrameOf, Events, ParserEvents, Frames, Done
    <3>3. QED
      BY <3>1, <3>2
  <2>4. ChatFrames(c, e) \in Seq(Frames)
    <3>1. When(~c.firstChunkEmitted /\ StartsMessage(e), RoleFrame) \in Seq(Frames)
      BY <2>2, WhenIsSeq
    <3>2. QED
      BY <2>2, <2>3, <3>1 DEF ChatFrames
  <2>5. ResponsesFrames(e) \in Seq(Frames)
    <3>1. /\ <<Error>> \in Seq(Frames) /\ <<Content>> \in Seq(Frames) /\ <<>> \in Seq(Frames)
          /\ <<[type |-> "response.completed"]>> \in Seq(Frames)
      BY DEF Frames
    <3>2. QED
      BY <3>1 DEF ResponsesFrames
  <2>6. QED
    BY <2>1, <2>4, <2>5 DEF Written, Clients, StartsMessage
<1>2. QED
  BY <1>1 DEF WrittenOf

\* Writing events folds them with Written.
LEMMA WrittenFold ==
  ASSUME NEW a, NEW c \in Clients, NEW events \in Seq(Events)
  PROVE  IsLeftFold(Told(a, c, events), c, WrittenOf(a), events) /\ Told(a, c, events) \in Clients
<1> DEFINE D == DOMAIN events
           pick == [t \in SUBSET D |-> Max(t)]
           next(g, t) == IF t = {} THEN c
                         ELSE Written(a, g[t \ {Max(t)}], events[Max(t)])
           iter[t \in SUBSET D] == IF t = {} THEN c
                                   ELSE Written(a, iter[t \ {Max(t)}], events[Max(t)])
<1>1. Told(a, c, events) = iter[D]
  BY DEF Told, FoldLeft, MapThenFoldSet
<1>2. IsFiniteSet(D) /\ Picks(pick, D) /\ \A t \in SUBSET D : t # {} => Max(t) \in t
  BY PlacesOfSequence
<1>3. WrittenOf(a) \in [Clients \X Events -> Clients] /\ c \in Clients
  BY WrittenTyped
<1>4. PICK f \in [SUBSET D -> Clients] : LeftFolds(f, c, WrittenOf(a), events)
  <2> HIDE DEF D
  <2>1. QED
    BY <1>3, LeftFoldExists DEF D
<1>5. ASSUME NEW t \in SUBSET D
      PROVE  f[t] = next(f, t)
  <2>1. CASE t = {}
    BY <1>4, <2>1 DEF LeftFolds
  <2>2. CASE t # {}
    <3>1. t \ {Max(t)} \in SUBSET D /\ events[Max(t)] \in Events
      BY <1>2, <2>2
    <3>2. f[t \ {Max(t)}] \in Clients
      BY <3>1
    <3>3. f[t] = WrittenOf(a)[<<f[t \ {Max(t)}], events[Max(t)]>>]
      BY <1>4, <2>2 DEF LeftFolds
    <3>4. WrittenOf(a)[<<f[t \ {Max(t)}], events[Max(t)]>>]
             = Written(a, f[t \ {Max(t)}], events[Max(t)])
      BY <3>1, <3>2 DEF WrittenOf
    <3>5. QED
      BY <2>2, <3>3, <3>4
  <2>3. QED
    BY <2>1, <2>2
<1>6. f = [t \in SUBSET D |-> next(f, t)]
  <2> HIDE DEF next
  <2>1. QED
    BY <1>4, <1>5
<1>7. iter = [t \in SUBSET D |-> next(iter, t)]
  BY <1>6
<1>8. \A t \in SUBSET D : iter[t] = next(iter, t)
  <2> HIDE DEF iter, next
  <2>1. QED
    BY <1>7
<1> DEFINE P == {t \in SUBSET D : iter[t] = f[t]}
<1>9. Inductive(P, pick, D)
  <2>1. {} \in P
    <3> HIDE DEF iter
    <3>1. next(iter, {}) = c /\ next(f, {}) = c /\ {} \in SUBSET D
      OBVIOUS
    <3>2. QED
      <4> HIDE DEF next, D
      <4>1. QED
        BY <1>5, <1>8, <3>1
  <2>2. ASSUME NEW t \in SUBSET D, t # {}, t \ {pick[t]} \in P
        PROVE  t \in P
    <3> HIDE DEF iter
    <3>1. iter[t \ {Max(t)}] = f[t \ {Max(t)}]
      BY <2>2
    <3>2. next(iter, t) = next(f, t)
      BY <2>2, <3>1
    <3>3. QED
      <4> HIDE DEF next
      <4>1. QED
        BY <1>5, <1>8, <3>2
  <2>3. QED
    <3> HIDE DEF P, pick
    <3>1. QED
      BY <2>1, <2>2 DEF Inductive
<1>10. iter[D] = f[D]
  <2>1. SUBSET D \subseteq P
    <3> HIDE DEF P, pick, D
    <3>1. QED
      BY <1>2, <1>9, AllSubsets
  <2>2. QED
    <3> HIDE DEF iter
    <3>1. QED
      BY <2>1
<1>11. QED
  BY <1>1, <1>4, <1>10 DEF IsLeftFold

\* Writing is one event after the other.
LEMMA WrittenSteps ==
  ASSUME NEW a, NEW c \in Clients, NEW events \in Seq(Events)
  PROVE  /\ Told(a, c, events) \in Clients
         /\ Told(a, c, <<>>) = c
         /\ \A e \in Events : Told(a, c, Append(events, e)) = Written(a, Told(a, c, events), e)
<1>1. IsLeftFold(Told(a, c, events), c, WrittenOf(a), events) /\ Told(a, c, events) \in Clients
  BY WrittenFold
<1>2. <<>> \in Seq(Events) /\ \A e \in Events : Append(events, e) \in Seq(Events)
  OBVIOUS
<1>3. IsLeftFold(Told(a, c, <<>>), c, WrittenOf(a), <<>>)
  BY <1>2, WrittenFold
<1>4. ASSUME NEW e \in Events
      PROVE  Told(a, c, Append(events, e)) = Written(a, Told(a, c, events), e)
  <2>1. IsLeftFold(Told(a, c, Append(events, e)), c, WrittenOf(a), Append(events, e))
    BY <1>2, WrittenFold
  <2>2. Told(a, c, Append(events, e)) = WrittenOf(a)[<<Told(a, c, events), e>>]
    BY <1>1, <2>1, LeftFoldOfAppend
  <2>3. QED
    BY <1>1, <2>2 DEF WrittenOf
<1>5. QED
  BY <1>1, <1>3, <1>4, LeftFoldOfEmpty

\* The pieces a + 1 to b.
Run(a, b) == [i \in 1..b - a |-> a + i]
\* The texts of the lines k + 1 to m, without their newlines.
Texts(k, m) == [i \in 1..m - k |-> <<3 * (k + i) - 2, 3 * (k + i) - 1>>]

\* The pieces after the newline of line k split into the whole lines among
\* them and the pieces of an incomplete one.
LEMMA SplitRun ==
  ASSUME NEW k \in Nat, NEW m \in Nat, 3 * k <= m
  PROVE  Split(Run(3 * k, m)) =
            [lines |-> Texts(k, m \div 3), rest |-> Run(3 * (m \div 3), m)]
<1> DEFINE Right(n) == [lines |-> Texts(k, n \div 3), rest |-> Run(3 * (n \div 3), n)]
           N == {j \in Nat : Split(Run(3 * k, 3 * k + j)) = Right(3 * k + j)}
<1>1. 0 \in N
  <2>1. Run(3 * k, 3 * k + 0) = <<>>
    BY DEF Run
  <2>2. (3 * k + 0) \div 3 = k /\ Texts(k, k) = <<>> /\ Run(3 * k, 3 * k + 0) = <<>>
    BY <2>1 DEF Texts
  <2>3. Split(<<>>) = NoPieces
    <3>1. <<>> \in Seq(Nat)
      OBVIOUS
    <3>2. QED
      BY <3>1, SplitSteps
  <2>4. Right(3 * k + 0) = NoPieces
    BY <2>1, <2>2 DEF NoPieces
  <2>5. QED
    BY <2>1, <2>3, <2>4
<1>2. ASSUME NEW j \in Nat, j \in N
      PROVE  j + 1 \in N
  <2> DEFINE n == 3 * k + j
             q == n \div 3
  <2>1. n \in Nat /\ q \in Nat /\ k <= q /\ 3 * q <= n /\ n <= 3 * q + 2
    OBVIOUS
  <2>2. Run(3 * k, n) \in Seq(Nat) /\ Run(3 * k, n + 1) = Append(Run(3 * k, n), n + 1)
    <3> HIDE DEF q
    <3>1. n - 3 * k = j /\ (n + 1) - 3 * k = j + 1
      OBVIOUS
    <3>2. QED
      BY <3>1 DEF Run
  <2>3. Split(Run(3 * k, n + 1)) = SplitNext(Right(n), n + 1)
    <3>1. Split(Run(3 * k, n)) = Right(n)
      BY <1>2
    <3>2. Split(Append(Run(3 * k, n), n + 1)) = SplitNext(Split(Run(3 * k, n)), n + 1)
      <4> DEFINE r == Run(3 * k, n)
      <4>1. r \in Seq(Nat) /\ n + 1 \in Nat
        BY <2>1, <2>2
      <4>2. Split(Append(r, n + 1)) = SplitNext(Split(r), n + 1)
        <5> HIDE DEF r, n
        <5>1. QED
          BY <4>1, SplitSteps
      <4>3. QED
        BY <4>2
    <3>3. QED
      <4> HIDE DEF Right, n, q
      <4>1. QED
        BY <2>2, <3>1, <3>2
  <2>4. Split(Run(3 * k, n + 1)) = Right(n + 1) => j + 1 \in N
    <3>1. n + 1 = 3 * k + (j + 1) /\ j + 1 \in Nat
      OBVIOUS
    <3>2. QED
      <4> HIDE DEF Right
      <4>1. QED
        BY <3>1
  <2>5. CASE (n + 1) % 3 = 0
    <3>1. (n + 1) \div 3 = q + 1 /\ n = 3 * q + 2
      BY <2>1, <2>5
    <3> HIDE DEF n, q
    <3>2. Right(n).lines = Texts(k, q) /\ Right(n).rest = Run(3 * q, n)
      BY DEF q
    <3>3. SplitNext(Right(n), n + 1) =
             [lines |-> Append(Texts(k, q), Run(3 * q, n)), rest |-> <<>>]
      BY <2>5, <3>2 DEF SplitNext, IsNewline
    <3>4. Run(3 * q, n) = <<3 * (q + 1) - 2, 3 * (q + 1) - 1>>
      BY <2>1, <3>1 DEF Run
    <3>5. Append(Texts(k, q), <<3 * (q + 1) - 2, 3 * (q + 1) - 1>>) = Texts(k, q + 1)
      <4>1. q - k \in Nat /\ (q + 1) - k = (q - k) + 1 /\ k + ((q - k) + 1) = q + 1
        BY <2>1
      <4> DEFINE text(i) == <<3 * (k + i) - 2, 3 * (k + i) - 1>>
                 l == q - k
      <4>2. Append([i \in 1..l |-> text(i)], text(l + 1)) = [i \in 1..l + 1 |-> text(i)]
        <5> HIDE DEF text, l
        <5>1. l \in Nat
          BY <4>1 DEF l
        <5>2. QED
          BY <5>1
      <4>3. QED
        BY <4>1, <4>2 DEF Texts
    <3>6. Run(3 * (q + 1), n + 1) = <<>>
      BY <2>1, <3>1 DEF Run
    <3>7. Right(n + 1) = [lines |-> Texts(k, q + 1), rest |-> <<>>]
      BY <3>1, <3>6
    <3>8. Split(Run(3 * k, n + 1)) = Right(n + 1)
      BY <2>3, <3>3, <3>4, <3>5, <3>7
    <3>9. QED
      BY <2>4, <3>8
  <2>6. CASE (n + 1) % 3 # 0
    <3>1. (n + 1) \div 3 = q
      BY <2>1, <2>6
    <3> HIDE DEF n, q
    <3>2. Right(n).lines = Texts(k, q) /\ Right(n).rest = Run(3 * q, n)
      BY DEF q
    <3>3. SplitNext(Right(n), n + 1) =
             [lines |-> Texts(k, q), rest |-> Append(Run(3 * q, n), n + 1)]
      BY <2>6, <3>2 DEF SplitNext, IsNewline
    <3>4. Append(Run(3 * q, n), n + 1) = Run(3 * q, n + 1)
      <4>1. n - 3 * q \in Nat /\ (n + 1) - 3 * q = (n - 3 * q) + 1 /\ 3 * q + ((n - 3 * q) + 1) = n + 1
        BY <2>1
      <4>2. QED
        BY <2>1, <4>1 DEF Run
    <3>5. Right(n + 1) = [lines |-> Texts(k, q), rest |-> Run(3 * q, n + 1)]
      BY <3>1
    <3>6. Split(Run(3 * k, n + 1)) = Right(n + 1)
      BY <2>3, <3>3, <3>4, <3>5
    <3>7. QED
      BY <2>4, <3>6
  <2>7. QED
    BY <2>5, <2>6
<1>3. Nat \subseteq N
  <2> HIDE DEF N
  <2>1. QED
    BY <1>1, <1>2, AllNaturals
<1>4. m - 3 * k \in Nat /\ 3 * k + (m - 3 * k) = m
  OBVIOUS
<1>5. m - 3 * k \in N
  BY <1>3, <1>4
<1>6. QED
  BY <1>4, <1>5

\* A parser that has taken the first k lines one at a time.
Sofar(d, s, k) == ParseLines(d, SubSeq(s, 1, k))

\* Taking one line more.
LEMMA SofarSteps ==
  ASSUME NEW d \in Parsed, NEW s \in Seq(LinesOf(d))
  PROVE  /\ Sofar(d, s, 0) = Start
         /\ \A k \in 0..Len(s) : Sofar(d, s, k) \in Progress
         /\ \A k \in 0..Len(s) - 1 :
               Sofar(d, s, k + 1) = Processed(d, Sofar(d, s, k), s[k + 1])
<1>1. SubSeq(s, 1, 0) = <<>>
  OBVIOUS
<1>2. ASSUME NEW k \in 0..Len(s)
      PROVE  SubSeq(s, 1, k) \in Seq(LinesOf(d))
  OBVIOUS
<1>3. ASSUME NEW k \in 0..Len(s) - 1
      PROVE  Sofar(d, s, k + 1) = Processed(d, Sofar(d, s, k), s[k + 1])
  <2> DEFINE t == SubSeq(s, 1, k)
  <2>1. t \in Seq(LinesOf(d)) /\ s[k + 1] \in LinesOf(d)
    OBVIOUS
  <2>2. SubSeq(s, 1, k + 1) = Append(t, s[k + 1])
    OBVIOUS
  <2>3. ParseLines(d, Append(t, s[k + 1])) = Processed(d, ParseLines(d, t), s[k + 1])
    <3> HIDE DEF t
    <3>1. QED
      BY <2>1, ParseLinesSteps
  <2>4. QED
    BY <2>2, <2>3 DEF Sofar
<1>4. ASSUME NEW k \in 0..Len(s)
      PROVE  Sofar(d, s, k) \in Progress
  BY <1>2, ParseLinesSteps DEF Sofar
<1>5. Sofar(d, s, 0) = Start
  <2>1. <<>> \in Seq(LinesOf(d))
    OBVIOUS
  <2>2. ParseLines(d, <<>>) = Start
    BY <2>1, ParseLinesSteps
  <2>3. QED
    BY <1>1, <2>2 DEF Sofar
<1>6. QED
  BY <1>3, <1>4, <1>5

\* What a line makes of the progress of a parser.
LEMMA ProcessedParts ==
  ASSUME NEW d \in Parsed, NEW p \in Progress, NEW m \in LinesOf(d)
  PROVE  /\ LineEvents(d, m, p.memory) \in Seq(ParserEvents)
         /\ p.events \in Seq(ParserEvents)
         /\ Processed(d, p, m).events = p.events \o LineEvents(d, m, p.memory)
         /\ Processed(d, p, m).memory = Remembered(d, m, p.memory)
<1>1. p.events \in Seq(ParserEvents) /\ p.memory \in Memories
  BY DEF Progress
<1>2. LineEvents(d, m, p.memory) \in Seq(ParserEvents)
  BY <1>1, LineTyped
<1>3. QED
  BY <1>1, <1>2 DEF Processed

\* Appending sequences of events in either order.
LEMMA EventsConcat ==
  \A a, b, c \in Seq(Events) : (a \o b) \o c = a \o (b \o c) /\ a \o b \in Seq(Events)
  OBVIOUS

\* The events of a parser are events.
LEMMA ParserEventsAreEvents == Seq(ParserEvents) \subseteq Seq(Events)
  BY DEF Events

\* What has been yielded is never taken back.
LEMMA SofarGrows ==
  ASSUME NEW d \in Parsed, NEW s \in Seq(LinesOf(d)), NEW k \in 0..Len(s),
         NEW n \in k..Len(s)
  PROVE  \E u \in Seq(ParserEvents) : Sofar(d, s, n).events = Sofar(d, s, k).events \o u
<1> DEFINE events(j) == Sofar(d, s, j).events
           Grown(j) == \E u \in Seq(ParserEvents) : events(j) = events(k) \o u
           N == {j \in Nat : k + j <= Len(s) => Grown(k + j)}
<1>1. \A j \in 0..Len(s) : events(j) \in Seq(ParserEvents)
  BY SofarSteps DEF Progress
<1>2. Grown(k)
  <2>1. <<>> \in Seq(ParserEvents) /\ events(k) \o <<>> = events(k)
    BY <1>1
  <2>2. QED
    <3> HIDE DEF events
    <3>1. QED
      BY <2>1
<1>3. ASSUME NEW i \in k..Len(s) - 1, Grown(i)
      PROVE  Grown(i + 1)
  <2> DEFINE l == LineEvents(d, s[i + 1], Sofar(d, s, i).memory)
  <2>1. /\ i \in 0..Len(s) - 1 /\ i \in 0..Len(s) /\ i + 1 \in 0..Len(s)
        /\ s[i + 1] \in LinesOf(d)
    OBVIOUS
  <2>2. PICK u \in Seq(ParserEvents) : events(i) = events(k) \o u
    BY <1>3
  <2>3. l \in Seq(ParserEvents)
    <3>1. Sofar(d, s, i).memory \in Memories
      BY <2>1, SofarSteps DEF Progress
    <3>2. QED
      BY <2>1, <3>1, LineTyped
  <2>4. events(i + 1) = events(i) \o l
    <3>1. Sofar(d, s, i + 1) = Processed(d, Sofar(d, s, i), s[i + 1])
      BY <2>1, SofarSteps
    <3>2. Sofar(d, s, i) \in Progress
      BY <2>1, SofarSteps
    <3>3. QED
      BY <2>1, <3>1, <3>2, ProcessedParts
  <2>5. u \o l \in Seq(ParserEvents) /\ events(i + 1) = events(k) \o (u \o l)
    <3>1. events(k) \in Seq(ParserEvents)
      BY <1>1
    <3> HIDE DEF events, l
    <3>2. (events(k) \o u) \o l = events(k) \o (u \o l)
      BY <2>3, <3>1
    <3>3. QED
      BY <2>2, <2>3, <2>4, <3>2
  <2>6. QED
    <3> HIDE DEF events, l
    <3>1. QED
      BY <2>5
<1>4. Grown(n)
  <2> HIDE DEF Grown
  <2>1. 0 \in N
    <3>1. k + 0 = k
      OBVIOUS
    <3>2. QED
      BY <1>2, <3>1
  <2>2. ASSUME NEW j \in Nat, j \in N
        PROVE  j + 1 \in N
    <3>1. k + j \in Nat /\ k + (j + 1) = (k + j) + 1
      OBVIOUS
    <3>2. k + (j + 1) <= Len(s) => k + j \in k..Len(s) - 1 /\ k + j <= Len(s)
      OBVIOUS
    <3>3. k + (j + 1) <= Len(s) => Grown((k + j) + 1)
      BY <1>3, <2>2, <3>2
    <3>4. QED
      BY <3>1, <3>3
  <2>3. Nat \subseteq N
    <3> HIDE DEF N
    <3>1. QED
      BY <2>1, <2>2, AllNaturals
  <2>4. n - k \in Nat /\ k + (n - k) = n /\ n <= Len(s)
    OBVIOUS
  <2>5. QED
    BY <2>3, <2>4
<1>5. QED
  BY <1>4

\* A parser that has taken the first k lines and reads the next n - k takes
\* each of them.
LEMMA ParseTexts ==
  ASSUME ParserTyped, NEW k \in 0..Len(script), NEW n \in k..Len(script),
         memory = Sofar(dialect, script, k).memory
  PROVE  /\ Parse(Texts(k, n)) \in Progress
         /\ Parse(Texts(k, n)).memory = Sofar(dialect, script, n).memory
         /\ Sofar(dialect, script, n).events
               = Sofar(dialect, script, k).events \o Parse(Texts(k, n)).events
<1> DEFINE at_(j) == Sofar(dialect, script, j)
           parsed(j) == Parse(Texts(k, j))
           Right(j) == /\ parsed(j) \in Progress
                       /\ parsed(j).memory = at_(j).memory
                       /\ at_(j).events = at_(k).events \o parsed(j).events
<1>0. dialect \in Parsed /\ script \in Seq(LinesOf(dialect)) /\ memory \in Memories
  BY DEF ParserTyped
<1>1. \A j \in 0..Len(script) : at_(j).events \in Seq(ParserEvents) /\ at_(j).memory \in Memories
  BY <1>0, SofarSteps DEF Progress
<1>2. \A j \in k..Len(script) : Texts(k, j) \in Seq(TextSet)
  <2> SUFFICES ASSUME NEW j \in k..Len(script), NEW i \in 1..j - k
               PROVE  <<3 * (k + i) - 2, 3 * (k + i) - 1>> \in TextSet
    BY DEF Texts
  <2>1. LineOf(3 * (k + i) - 2) = k + i
    BY DEF LineOf
  <2>2. k + i \in 1..Len(script)
    OBVIOUS
  <2>3. <<3 * (k + i) - 2, 3 * (k + i) - 1>> \in Seq(Nat)
    OBVIOUS
  <2>4. QED
    BY <2>1, <2>2, <2>3 DEF TextSet
<1>3. Right(k)
  <2>1. Texts(k, k) = <<>> /\ <<>> \in Seq(TextSet)
    BY DEF Texts
  <2>2. Parse(<<>>) = Resume
    BY <2>1, ParseSteps
  <2>3. Resume \in Progress /\ Resume.memory = at_(k).memory /\ at_(k).events = at_(k).events \o Resume.events
    <3>1. at_(k).events \in Seq(ParserEvents)
      BY <1>1
    <3> HIDE DEF at_
    <3>2. at_(k).events \o <<>> = at_(k).events
      BY <3>1
    <3>3. Resume.events = <<>> /\ Resume.memory = memory
      BY DEF Resume
    <3>4. Resume \in Progress
      BY <1>0 DEF Resume, Progress
    <3>5. memory = at_(k).memory
      BY DEF at_
    <3>6. QED
      BY <3>2, <3>3, <3>4, <3>5
  <2>4. QED
    BY <2>1, <2>2, <2>3
<1>4. ASSUME NEW i \in k..Len(script) - 1, Right(i)
      PROVE  Right(i + 1)
  <2> DEFINE j == i - k
             text == <<3 * (i + 1) - 2, 3 * (i + 1) - 1>>
             l == LineEvents(dialect, script[i + 1], at_(i).memory)
  <2>1. /\ i \in 0..Len(script) - 1 /\ i + 1 \in k..Len(script) /\ j \in Nat
        /\ script[i + 1] \in LinesOf(dialect) /\ i \in k..Len(script) /\ i \in 0..Len(script)
    BY <1>0
  <2>2. Right(i)
    BY <1>4
  <2>3. Texts(k, i + 1) = Append(Texts(k, i), text)
    <3>1. i - k = j /\ (i + 1) - k = j + 1 /\ k + (j + 1) = i + 1 /\ j \in Nat
      OBVIOUS
    <3> DEFINE t(x) == <<3 * (k + x) - 2, 3 * (k + x) - 1>>
    <3>2. Append([x \in 1..j |-> t(x)], t(j + 1)) = [x \in 1..j + 1 |-> t(x)]
      <4> HIDE DEF t, j
      <4>1. QED
        BY <3>1
    <3>3. QED
      BY <3>1, <3>2 DEF Texts
  <2>4. Texts(k, i) \in Seq(TextSet) /\ Texts(k, i + 1) \in Seq(TextSet) /\ text \in TextSet
    <3>1. Texts(k, i) \in Seq(TextSet) /\ Texts(k, i + 1) \in Seq(TextSet)
      BY <1>2, <2>1
    <3>2. Len(Texts(k, i + 1)) = j + 1 /\ Texts(k, i + 1)[j + 1] = text
      BY DEF Texts
    <3>3. QED
      <4> HIDE DEF text
      <4>1. QED
        BY <3>1, <3>2
  <2>5. parsed(i + 1) = ProcessedText(parsed(i), text) /\ parsed(i + 1) \in Progress
    <3>1. Parse(Append(Texts(k, i), text)) = ProcessedText(Parse(Texts(k, i)), text)
      <4> HIDE DEF text
      <4>1. QED
        BY <2>4, ParseSteps
    <3>2. Parse(Texts(k, i + 1)) \in Progress
      BY <2>4, ParseSteps
    <3>3. QED
      BY <2>3, <3>1, <3>2
  <2>6. ProcessedText(parsed(i), text) = Processed(dialect, parsed(i), script[i + 1])
    <3>1. Whole(text) /\ LineOf(text[1]) = i + 1
      BY <2>1 DEF Whole, LineOf
    <3>2. QED
      <4> HIDE DEF text, parsed
      <4>1. QED
        BY <3>1 DEF ProcessedText
  <2>7. at_(i + 1) = Processed(dialect, at_(i), script[i + 1])
    BY <1>0, <2>1, SofarSteps
  <2>8. parsed(i + 1).memory = at_(i + 1).memory
    <3> HIDE DEF at_, parsed, text
    <3>1. QED
      BY <2>2, <2>5, <2>6, <2>7 DEF Processed
  <2>9. at_(i + 1).events = at_(k).events \o parsed(i + 1).events
    <3>1. parsed(i + 1).events = parsed(i).events \o l
      <4>1. parsed(i) \in Progress
        BY <2>2
      <4> HIDE DEF at_, parsed, text
      <4>2. Processed(dialect, parsed(i), script[i + 1]).events
               = parsed(i).events \o LineEvents(dialect, script[i + 1], parsed(i).memory)
        BY <1>0, <2>1, <4>1, ProcessedParts
      <4>3. QED
        BY <2>2, <2>5, <2>6, <4>2
    <3>2. at_(i + 1).events = at_(i).events \o l
      <4>1. at_(i) \in Progress
        BY <1>0, <2>1, SofarSteps
      <4> HIDE DEF at_, parsed, text
      <4>2. Processed(dialect, at_(i), script[i + 1]).events
               = at_(i).events \o LineEvents(dialect, script[i + 1], at_(i).memory)
        BY <1>0, <2>1, <4>1, ProcessedParts
      <4>3. QED
        BY <2>7, <4>2
    <3>3. l \in Seq(ParserEvents)
      BY <1>0, <1>1, <2>1, LineTyped
    <3>4. at_(k).events \in Seq(ParserEvents) /\ parsed(i).events \in Seq(ParserEvents)
      <4>1. at_(k).events \in Seq(ParserEvents)
        BY <1>1
      <4> HIDE DEF at_, parsed
      <4>2. QED
        BY <2>2, <4>1 DEF Progress
    <3>5. at_(i).events = at_(k).events \o parsed(i).events
      BY <2>2
    <3> HIDE DEF at_, parsed, l
    <3>6. (at_(k).events \o parsed(i).events) \o l = at_(k).events \o (parsed(i).events \o l)
      BY <3>3, <3>4, EventsConcat, ParserEventsAreEvents
    <3>7. QED
      BY <3>1, <3>2, <3>5, <3>6
  <2>10. QED
    <3> HIDE DEF at_, parsed
    <3>1. QED
      BY <2>1, <2>5, <2>8, <2>9
<1>5. Right(n)
  <2> HIDE DEF Right
  <2> DEFINE N == {j \in Nat : k + j <= Len(script) => Right(k + j)}
  <2>1. 0 \in N
    <3>1. k + 0 = k
      OBVIOUS
    <3>2. QED
      BY <1>3, <3>1
  <2>2. ASSUME NEW j \in Nat, j \in N
        PROVE  j + 1 \in N
    <3>1. k + j \in Nat /\ k + (j + 1) = (k + j) + 1
      OBVIOUS
    <3>2. k + (j + 1) <= Len(script) => k + j \in k..Len(script) - 1 /\ k + j <= Len(script)
      BY <1>0
    <3>3. k + (j + 1) <= Len(script) => Right((k + j) + 1)
      BY <1>4, <2>2, <3>2
    <3>4. QED
      BY <3>1, <3>3
  <2>3. Nat \subseteq N
    <3> HIDE DEF N
    <3>1. QED
      BY <2>1, <2>2, AllNaturals
  <2>4. n - k \in Nat /\ k + (n - k) = n /\ n <= Len(script)
    BY <1>0
  <2>5. QED
    BY <2>3, <2>4
<1>6. QED
  BY <1>5

\* Writing more events is writing all of them.
LEMMA ToldOn ==
  ASSUME NEW a, NEW c \in Clients, NEW x \in Seq(Events), NEW y \in Seq(Events)
  PROVE  Told(a, Told(a, c, x), y) = Told(a, c, x \o y)
<1> DEFINE P == {s \in Seq(Events) : Told(a, Told(a, c, x), s) = Told(a, c, x \o s)}
<1>0. Told(a, c, x) \in Clients
  BY WrittenSteps
<1>1. <<>> \in P
  <2>1. x \o <<>> = x /\ <<>> \in Seq(Events)
    OBVIOUS
  <2>2. Told(a, Told(a, c, x), <<>>) = Told(a, c, x)
    BY <1>0, <2>1, WrittenSteps
  <2>3. QED
    BY <2>1, <2>2
<1>2. ASSUME NEW s \in Seq(Events), NEW e \in Events, s \in P
      PROVE  Append(s, e) \in P
  <2>1. /\ x \o s \in Seq(Events) /\ Append(s, e) \in Seq(Events)
        /\ x \o Append(s, e) = Append(x \o s, e)
    OBVIOUS
  <2>2. Told(a, Told(a, c, x), Append(s, e)) = Written(a, Told(a, Told(a, c, x), s), e)
    BY <1>0, WrittenSteps
  <2>3. Told(a, c, Append(x \o s, e)) = Written(a, Told(a, c, x \o s), e)
    <3> DEFINE t == x \o s
    <3>1. t \in Seq(Events)
      BY <2>1
    <3> HIDE DEF t
    <3>2. Told(a, c, Append(t, e)) = Written(a, Told(a, c, t), e)
      BY <3>1, WrittenSteps
    <3>3. QED
      BY <3>2 DEF t
  <2>4. Told(a, Told(a, c, x), s) = Told(a, c, x \o s)
    BY <1>2
  <2>5. Told(a, Told(a, c, x), Append(s, e)) = Told(a, c, x \o Append(s, e))
    BY <2>1, <2>2, <2>3, <2>4
  <2>6. QED
    BY <2>1, <2>5
<1>3. Seq(Events) \subseteq P
  <2> HIDE DEF P
  <2>1. QED
    BY <1>1, <1>2, AllSequences
<1>4. QED
  BY <1>3

\* A controller goes on until an error.
LEMMA NotBroken ==
  ASSUME NEW a, NEW x \in Seq(ParserEvents)
  PROVE  Told(a, NothingTold, x).broken = FALSE
<1> DEFINE P == {s \in Seq(ParserEvents) : Told(a, NothingTold, s).broken = FALSE}
<1>0. NothingTold \in Clients
  BY DEF NothingTold, Clients
<1>1. <<>> \in P
  <2>1. <<>> \in Seq(Events) /\ <<>> \in Seq(ParserEvents)
    OBVIOUS
  <2>2. Told(a, NothingTold, <<>>) = NothingTold
    BY <1>0, <2>1, WrittenSteps
  <2>3. QED
    BY <2>1, <2>2 DEF NothingTold
<1>2. ASSUME NEW s \in Seq(ParserEvents), NEW e \in ParserEvents, s \in P
      PROVE  Append(s, e) \in P
  <2>1. s \in Seq(Events) /\ e \in Events /\ e.type # "error"
    BY ParserEventsAreEvents DEF Events, ParserEvents, Content
  <2>2. Told(a, NothingTold, Append(s, e)) = Written(a, Told(a, NothingTold, s), e)
    BY <1>0, <2>1, WrittenSteps
  <2>3. Told(a, NothingTold, s).broken = FALSE
    BY <1>2
  <2>4. Written(a, Told(a, NothingTold, s), e).broken = FALSE
    BY <2>1, <2>3 DEF Written
  <2>5. QED
    BY <2>2, <2>4
<1>3. Seq(ParserEvents) \subseteq P
  <2> HIDE DEF P
  <2>1. QED
    BY <1>1, <1>2, AllSequences
<1>4. QED
  BY <1>3

-----------------------------------------------------------------------------
(* The invariant. *)

\* Each line is one that the upstream may send after those before it.
Sent(s) == \A i \in DOMAIN s : s[i] \in Lines(SubSeq(s, 1, i - 1))

BodyInv ==
    /\ dialect \in Dialects
    /\ api \in {"chat", "responses"}
    /\ script \in Seq(LinesOf(dialect)) /\ Len(script) <= MaxLines
    /\ ending \in {"open", "closed", "broken"}
    /\ ended \in BOOLEAN
    /\ size \in Nat /\ at \in 0..size
    /\ ending = "open" => size = 0
    /\ ending # "open" => IF dialect \in Parsed
                          THEN size \in 3 * Len(script) - 2..3 * Len(script)
                          ELSE size = Len(script)
    /\ Sent(script)

\* The lines whose newline has been read.
Taken == Sofar(dialect, script, at \div 3)

ParserInv ==
    IF dialect \in Parsed
    THEN buffer = Run(3 * (at \div 3), at) /\ memory = Taken.memory
    ELSE buffer = <<>> /\ memory = NoMemory

OutInv ==
    dialect \in Parsed =>
        /\ ~ended => out = Taken.events
        /\ ended /\ ending = "open" => script = <<>> /\ out = <<Error>>
        /\ ended /\ ending = "closed" => at = size /\ out = Batch
        /\ ended /\ ending = "broken" => at = size /\ out = Taken.events \o <<Error>>

\* The frames are what the events are written as.
ClientInv ==
    LET told == Told(api, NothingTold, out)
    IN  /\ out \in Seq(Events)
        /\ ending = "open" /\ ~ended => out = <<>>
        /\ ending = "open" /\ ended => dialect \in Parsed /\ out = <<Error>>
        /\ told.broken => ended
        /\ client = IF ended /\ api = "chat"
                    THEN [told EXCEPT !.frames = Append(@, [type |-> "[DONE]"])]
                    ELSE told

SInv == BodyInv /\ ParserInv /\ OutInv /\ ClientInv

\* The frames stay what the events are written as, whatever is yielded.
LEMMA YieldTells ==
  ASSUME ClientInv, ~ended, NEW events \in Seq(Events), NEW last \in BOOLEAN,
         Yield(events, last), api' = api
  PROVE  LET told == Told(api, NothingTold, out \o events)
         IN  /\ out' = out \o events
             /\ out' \in Seq(Events)
             /\ ended' = (last \/ told.broken)
             /\ ended' \in BOOLEAN
             /\ client' = IF ended' /\ api = "chat"
                          THEN [told EXCEPT !.frames = Append(@, [type |-> "[DONE]"])]
                          ELSE told
<1> DEFINE told == Told(api, NothingTold, out \o events)
<1>1. out \in Seq(Events) /\ client = Told(api, NothingTold, out)
  BY DEF ClientInv
<1>2. NothingTold \in Clients
  BY DEF NothingTold, Clients
<1>3. Told(api, client, events) = told
  BY <1>1, <1>2, ToldOn
<1>4. told \in Clients
  <2> DEFINE t == out \o events
  <2>1. t \in Seq(Events)
    BY <1>1
  <2> HIDE DEF t
  <2>2. Told(api, NothingTold, t) \in Clients
    BY <1>2, <2>1, WrittenSteps
  <2>3. QED
    BY <2>2 DEF t
<1>5. told.broken \in BOOLEAN
  BY <1>4 DEF Clients
<1> HIDE DEF told
<1>6. out' = out \o events /\ ended' = (last \/ told.broken)
      /\ client' = IF ended' /\ api = "chat"
                   THEN [told EXCEPT !.frames = Append(@, [type |-> "[DONE]"])]
                   ELSE told
  BY <1>3 DEF Yield
<1>7. out' \in Seq(Events) /\ ended' \in BOOLEAN
  BY <1>1, <1>5, <1>6
<1>8. QED
  BY <1>6, <1>7 DEF told

-----------------------------------------------------------------------------
(* What the upstreams send. *)

\* The fragments of a chunk that is sent when n calls have begun.
NextFragments(tools, n) ==
    \/ \E c \in 0..n - 1 : tools = <<MoreOf(c)>>
    \/ \E k \in 0..MaxCalls - n : tools = NewCalls(n, k)

\* The fragments of more calls.
LEMMA NewCallsTyped ==
  ASSUME NEW n \in Nat, NEW k \in Nat
  PROVE  /\ NewCalls(n, k) \in Seq(Fragments)
         /\ {NewCalls(n, k)[i].call : i \in DOMAIN NewCalls(n, k)} = n..n + k - 1
<1>1. \A i \in 1..k : n + i - 1 \in Nat
  OBVIOUS
<1>2. \A c \in Nat : FirstOf(c) \in Fragments /\ FirstOf(c).call = c
  BY DEF FirstOf, MoreOf, Fragment, Fragments
<1>3. DOMAIN NewCalls(n, k) = 1..k /\ \A i \in 1..k : NewCalls(n, k)[i] = FirstOf(n + i - 1)
  BY DEF NewCalls
<1>4. NewCalls(n, k) \in Seq(Fragments)
  <2>1. \A i \in 1..k : FirstOf(n + i - 1) \in Fragments
    BY <1>1, <1>2
  <2> DEFINE f(i) == FirstOf(n + i - 1)
  <2>2. [i \in 1..k |-> f(i)] \in Seq(Fragments)
    <3> HIDE DEF f
    <3>1. \A i \in 1..k : f(i) \in Fragments
      BY <2>1 DEF f
    <3>2. QED
      BY <3>1
  <2>3. QED
    BY <2>2 DEF NewCalls
<1>5. {NewCalls(n, k)[i].call : i \in DOMAIN NewCalls(n, k)} = {n + i - 1 : i \in 1..k}
  <2>1. \A i \in 1..k : NewCalls(n, k)[i].call = n + i - 1
    BY <1>1, <1>2, <1>3
  <2>2. QED
    BY <1>3, <2>1
<1>6. {n + i - 1 : i \in 1..k} = n..n + k - 1
  <2>1. ASSUME NEW x \in n..n + k - 1
        PROVE  \E i \in 1..k : x = n + i - 1
    <3>1. x - n + 1 \in 1..k /\ x = n + (x - n + 1) - 1
      OBVIOUS
    <3>2. QED
      BY <3>1
  <2>2. ASSUME NEW i \in 1..k
        PROVE  n + i - 1 \in n..n + k - 1
    OBVIOUS
  <2>3. QED
    BY <2>1, <2>2
<1>7. QED
  BY <1>4, <1>5, <1>6

\* A chunk of openai or ollama has fragments of a call that has begun, or the
\* first ones of the next calls.
LEMMA ChunkSent ==
  ASSUME StreamsAssumption, dialect \in {"openai", "ollama"},
         NEW s, NEW n \in 0..MaxCalls, Begun(s) = 0..n - 1,
         NEW m \in Lines(s)
  PROVE  \/ m = Junk
         \/ m \in ChunkLines /\ NextFragments(m.tools, n)
<1>0. MaxCalls \in Nat /\ n \in Nat
  BY DEF StreamsAssumption
<1>1. Cardinality(Begun(s)) = n
  <2>1. Cardinality(0..n - 1) = n
    BY <1>0, FS_Interval
  <2>2. QED
    BY <2>1
<1> DEFINE Reasons == {"none", "stop", "length", "tool_calls"}
           Good(c, tools) == c \in ChunkLines /\ c.tools = tools
<1>2. \A tools \in Seq(Fragments), u \in Counts, r \in Reasons :
         /\ Good(Chunk(TRUE, tools, u, r), tools)
         /\ Good(Wordless(tools, u, r), tools)
         /\ \A k : Good(Chunk(k = 0, tools, u, r), tools)
  BY DEF Wordless, Chunk, ChunkLines
<1>3. NewCalls(n, 0) = <<>> /\ 0 \in 0..MaxCalls - n
  BY <1>0 DEF NewCalls
<1>4. <<>> \in Seq(Fragments) /\ NextFragments(<<>>, n)
  BY <1>3 DEF NextFragments
<1>5. /\ NoUsage \in Counts /\ Tokens \cup {NoUsage, Uncounted} \subseteq Counts
      /\ Unfinished \in Reasons
  BY DEF Counts, Unfinished
<1>6. CASE dialect = "openai"
  <2>1. SUFFICES ASSUME m \in OpenAiLines(s)
                 PROVE  m \in ChunkLines /\ NextFragments(m.tools, n)
    BY <1>6 DEF Lines
  <2>2. CASE \E u \in Tokens : m = Wordless(<<>>, u, Unfinished)
    <3>1. PICK u \in Tokens : m = Wordless(<<>>, u, Unfinished)
      BY <2>2
    <3>2. Good(Wordless(<<>>, u, Unfinished), <<>>)
      <4> HIDE DEF Good, Reasons
      <4>1. QED
        BY <1>2, <1>4, <1>5
    <3>3. QED
      BY <1>4, <3>1, <3>2
  <2>3. CASE m = TextChunk
    <3>1. Good(TextChunk, <<>>)
      BY <1>4 DEF TextChunk, Chunk, ChunkLines, Counts, Unfinished
    <3>2. QED
      BY <1>4, <2>3, <3>1
  <2>4. CASE \E c \in Begun(s) :
               m = Wordless(<<MoreOf(c)>>, NoUsage, Unfinished)
    <3>1. PICK c \in 0..n - 1 : m = Wordless(<<MoreOf(c)>>, NoUsage, Unfinished)
      BY <2>4
    <3>2. <<MoreOf(c)>> \in Seq(Fragments)
      <4>1. MoreOf(c) \in Fragments
        BY DEF FirstOf, MoreOf, Fragment, Fragments
      <4> DEFINE f == MoreOf(c)
      <4>2. <<f>> \in Seq(Fragments)
        <5> HIDE DEF f
        <5>1. f \in Fragments
          BY <4>1 DEF f
        <5>2. QED
          BY <5>1
      <4>3. QED
        BY <4>2
    <3>3. NextFragments(<<MoreOf(c)>>, n)
      BY DEF NextFragments
    <3>4. QED
      BY <1>2, <1>5, <3>1, <3>2, <3>3 DEF Unfinished
  <2>5. CASE \E k \in {j \in 1..2 : n + j <= MaxCalls} :
               m = Wordless(NewCalls(n, k), NoUsage, Unfinished)
    <3>1. PICK k \in 1..2 : n + k <= MaxCalls
                            /\ m = Wordless(NewCalls(n, k), NoUsage, Unfinished)
      BY <2>5
    <3>2. NewCalls(n, k) \in Seq(Fragments)
      <4>1. k \in Nat
        OBVIOUS
      <4>2. QED
        BY <1>0, <4>1, NewCallsTyped
    <3>3. NextFragments(NewCalls(n, k), n)
      <4>1. k \in 0..MaxCalls - n
        BY <1>0, <3>1
      <4>2. QED
        BY <4>1 DEF NextFragments
    <3>4. QED
      BY <1>2, <1>5, <3>1, <3>2, <3>3 DEF Unfinished
  <2>6. CASE \E u \in Tokens \cup {NoUsage},
                r \in {"length", IF n > 0 THEN "tool_calls" ELSE "stop"} :
                m = Wordless(<<>>, u, r)
    <3>1. PICK u \in Tokens \cup {NoUsage}, r \in {"length", "tool_calls", "stop"} :
              m = Wordless(<<>>, u, r)
      BY <2>6
    <3>2. Good(Wordless(<<>>, u, r), <<>>)
      <4>1. r \in Reasons
        OBVIOUS
      <4> HIDE DEF Good, Reasons
      <4>2. QED
        BY <1>2, <1>4, <1>5, <4>1
    <3>3. QED
      BY <1>4, <3>1, <3>2
  <2>7. m \in OpenAiLines(s)
    BY <2>1
  <2>8. QED
    <3> DEFINE c == Cardinality(Begun(s))
    <3>1. \/ \E u \in Tokens : m = Wordless(<<>>, u, Unfinished)
          \/ m = TextChunk
          \/ \E b \in Begun(s) :
                m = Wordless(<<MoreOf(b)>>, NoUsage, Unfinished)
          \/ \E k \in {j \in 1..2 : c + j <= MaxCalls} :
                m = Wordless(NewCalls(c, k), NoUsage, Unfinished)
          \/ \E u \in Tokens \cup {NoUsage}, r \in {"length", IF c > 0 THEN "tool_calls" ELSE "stop"} :
                m = Wordless(<<>>, u, r)
      BY <2>7 DEF OpenAiLines
    <3>2. QED
      BY <1>1, <2>2, <2>3, <2>4, <2>5, <2>6, <3>1
<1>7. CASE dialect = "ollama"
  <2>1. SUFFICES ASSUME m \in OllamaLines(s)
                 PROVE  m \in ChunkLines /\ NextFragments(m.tools, n)
    BY <1>7 DEF Lines
  <2>2. ASSUME NEW k \in 0..MaxCalls - n
        PROVE  NewCalls(n, k) \in Seq(Fragments) /\ NextFragments(NewCalls(n, k), n)
    <3>1. k \in Nat
      OBVIOUS
    <3>2. QED
      BY <1>0, <3>1, NewCallsTyped DEF NextFragments
  <2>3. CASE \E k \in 0..MaxCalls - n : m = Chunk(k = 0, NewCalls(n, k), NoUsage, Unfinished)
    <3>1. PICK k \in 0..MaxCalls - n : m = Chunk(k = 0, NewCalls(n, k), NoUsage, Unfinished)
      BY <2>3
    <3>2. Good(Chunk(k = 0, NewCalls(n, k), NoUsage, Unfinished), NewCalls(n, k))
      <4> HIDE DEF Good, Reasons
      <4>1. QED
        BY <1>2, <1>5, <2>2
    <3>3. QED
      BY <2>2, <3>1, <3>2
  <2>4. CASE \E k \in 0..MaxCalls - n, u \in Tokens \cup {NoUsage, Uncounted},
                r \in {"stop", "length"} : m = Wordless(NewCalls(n, k), u, r)
    <3>1. PICK k \in 0..MaxCalls - n, u \in Tokens \cup {NoUsage, Uncounted},
               r \in {"stop", "length"} : m = Wordless(NewCalls(n, k), u, r)
      BY <2>4
    <3>2. Good(Wordless(NewCalls(n, k), u, r), NewCalls(n, k))
      <4>1. r \in Reasons
        OBVIOUS
      <4> HIDE DEF Good, Reasons
      <4>2. QED
        BY <1>2, <1>5, <2>2, <4>1
    <3>3. QED
      BY <2>2, <3>1, <3>2
  <2>5. m \in OllamaLines(s)
    BY <2>1
  <2>6. QED
    <3> DEFINE c == Cardinality(Begun(s))
    <3>1. \/ \E k \in 0..MaxCalls - c : m = Chunk(k = 0, NewCalls(c, k), NoUsage, Unfinished)
          \/ \E k \in 0..MaxCalls - c, u \in Tokens \cup {NoUsage, Uncounted},
                r \in {"stop", "length"} : m = Wordless(NewCalls(c, k), u, r)
      BY <2>5 DEF OllamaLines
    <3>2. QED
      BY <1>1, <2>3, <2>4, <3>1
<1>8. QED
  BY <1>6, <1>7

\* A line of anthropic is typed, and starts a tool only below the bound.
LEMMA BlockSent ==
  ASSUME StreamsAssumption, dialect = "anthropic", NEW s \in Seq(LinesOf(dialect)),
         NEW m \in Lines(s)
  PROVE  /\ m = Junk \/ m \in BlockLines
         /\ m.type = "content_block_start" /\ m.tool => Cardinality(ToolStarts(s)) < MaxCalls
<1> DEFINE starts == Places(s, "content_block_start")
           n == Cardinality(starts)
<1>1. IsFiniteSet(starts) /\ n \in Nat
  <2>1. IsFiniteSet(DOMAIN s) /\ starts \subseteq DOMAIN s
    BY PlacesOfSequence DEF Places
  <2>2. QED
    BY <2>1, FS_Subset, FS_CardinalityType
<1>2. n = 0 \/ n - 1 \in Nat
  BY <1>1
<1>3. CASE m = Junk
  BY <1>3 DEF Junk
<1>4. CASE m \in AnthropicLines(s)
  <2>1. CASE \E u \in Tokens \cup {NoUsage, Uncounted} : m = MessageStart(u)
    BY <2>1 DEF MessageStart, BlockLines, Counts
  <2>2. CASE \/ m = TextBlock(n)
             \/ m = ToolBlock(n) /\ Cardinality(ToolStarts(s)) < MaxCalls
    <3>1. /\ TextBlock(n) \in [type : {"content_block_start"}, block : Nat, tool : BOOLEAN]
          /\ ToolBlock(n) \in [type : {"content_block_start"}, block : Nat, tool : BOOLEAN]
          /\ TextBlock(n).tool = FALSE
      BY <1>1 DEF TextBlock, ToolBlock
    <3>2. QED
      BY <2>2, <3>1 DEF BlockLines
  <2>3. CASE n # 0 /\ (m = JsonDelta(n - 1) \/ m = TextDelta(n - 1))
    <3>1. /\ JsonDelta(n - 1) \in [type : {"content_block_delta"}, block : Nat, json : BOOLEAN]
          /\ TextDelta(n - 1) \in [type : {"content_block_delta"}, block : Nat, json : BOOLEAN]
      BY <1>2, <2>3 DEF JsonDelta, TextDelta
    <3>2. m.type = "content_block_delta"
      BY <2>3 DEF JsonDelta, TextDelta
    <3>3. QED
      BY <2>3, <3>1, <3>2 DEF BlockLines
  <2>4. CASE \E u \in Tokens \cup {NoUsage, Uncounted},
                r \in {"max_tokens", "tool_use", "end_turn"} : m = MessageDelta(u, r)
    BY <2>4 DEF MessageDelta, BlockLines, Counts
  <2>5. QED
    <3>1. \/ \E u \in Tokens \cup {NoUsage, Uncounted} : m = MessageStart(u)
          \/ m = TextBlock(n)
          \/ m = ToolBlock(n) /\ Cardinality(ToolStarts(s)) < MaxCalls
          \/ n # 0 /\ (m = JsonDelta(n - 1) \/ m = TextDelta(n - 1))
          \/ \E u \in Tokens \cup {NoUsage, Uncounted},
                r \in {"max_tokens", "tool_use", "end_turn"} : m = MessageDelta(u, r)
      BY <1>4 DEF AnthropicLines
    <3>2. QED
      BY <2>1, <2>2, <2>3, <2>4, <3>1
<1>5. QED
  BY <1>3, <1>4 DEF Lines

-----------------------------------------------------------------------------
(* Bodies: what has been sent determines what may follow. *)

\* The calls that have begun when one more line is sent.
LEMMA BegunOn ==
  ASSUME NEW S, NEW s \in Seq(S), NEW m
  PROVE  /\ ToSet(Append(s, m)) = ToSet(s) \cup {m}
         /\ Begun(Append(s, m)) = Begun(s) \cup (IF m.type = "chunk" THEN CallsOf(m) ELSE {})
<1>1. ToSet(Append(s, m)) = ToSet(s) \cup {m}
  <2> DEFINE t == Append(s, m)
  <2>1. /\ DOMAIN t = 1..Len(s) + 1 /\ DOMAIN s = 1..Len(s) /\ Len(s) \in Nat
        /\ t[Len(s) + 1] = m /\ \A i \in 1..Len(s) : t[i] = s[i]
    OBVIOUS
  <2>2. \A x : x \in {t[i] : i \in DOMAIN t} <=> x \in {s[i] : i \in DOMAIN s} \cup {m}
    <3>1. \A i \in 1..Len(s) + 1 : i \in 1..Len(s) \/ i = Len(s) + 1
      BY <2>1
    <3>2. 1..Len(s) \subseteq 1..Len(s) + 1 /\ Len(s) + 1 \in 1..Len(s) + 1
      BY <2>1
    <3> HIDE DEF t
    <3>3. QED
      BY <2>1, <3>1, <3>2
  <2>3. QED
    <3> HIDE DEF t
    <3>1. {t[i] : i \in DOMAIN t} = {s[i] : i \in DOMAIN s} \cup {m}
      BY <2>2
    <3>2. QED
      BY <3>1 DEF ToSet, t
<1>2. QED
  BY <1>1 DEF Begun

\* The places of a type in a longer sequence.
LEMMA PlacesOn ==
  ASSUME NEW S, NEW s \in Seq(S), NEW m, NEW type
  PROVE  /\ Places(Append(s, m), type)
               = Places(s, type) \cup (IF m.type = type THEN {Len(s) + 1} ELSE {})
         /\ Places(s, type) \subseteq 1..Len(s)
         /\ IsFiniteSet(Places(s, type))
         /\ \A i \in Places(s, type) : Append(s, m)[i] = s[i] /\ s[i].type = type
         /\ Append(s, m)[Len(s) + 1] = m /\ Len(s) + 1 \notin Places(s, type)
<1> DEFINE t == Append(s, m)
<1>1. /\ DOMAIN t = 1..Len(s) + 1 /\ DOMAIN s = 1..Len(s) /\ Len(s) \in Nat
      /\ t[Len(s) + 1] = m /\ \A i \in 1..Len(s) : t[i] = s[i]
  OBVIOUS
<1>2. IsFiniteSet(1..Len(s))
  BY <1>1, FS_Interval
<1>3. Places(s, type) \subseteq 1..Len(s) /\ IsFiniteSet(Places(s, type))
  BY <1>1, <1>2, FS_Subset DEF Places
<1>4. Places(t, type) = Places(s, type) \cup (IF m.type = type THEN {Len(s) + 1} ELSE {})
  <2> HIDE DEF t
  <2>1. QED
    BY <1>1 DEF Places
<1>5. Len(s) + 1 \notin Places(s, type)
  BY <1>1, <1>3
<1>6. \A i \in Places(s, type) : t[i] = s[i] /\ s[i].type = type
  <2> HIDE DEF t
  <2>1. QED
    BY <1>1, <1>3 DEF Places
<1>7. QED
  BY <1>1, <1>3, <1>4, <1>5, <1>6

\* A body and one more line.
LEMMA SentOn ==
  ASSUME NEW s \in Seq(LinesOf(dialect)), NEW m \in LinesOf(dialect)
  PROVE  Sent(Append(s, m)) <=> Sent(s) /\ m \in Lines(s)
<1> DEFINE t == Append(s, m)
<1>1. /\ DOMAIN s = 1..Len(s) /\ DOMAIN t = 1..Len(s) + 1 /\ Len(s) \in Nat
      /\ t[Len(s) + 1] = m /\ \A i \in 1..Len(s) : t[i] = s[i]
  OBVIOUS
<1>2. SubSeq(t, 1, (Len(s) + 1) - 1) = s
  OBVIOUS
<1>3. ASSUME NEW i \in 1..Len(s)
      PROVE  SubSeq(t, 1, i - 1) = SubSeq(s, 1, i - 1)
  OBVIOUS
<1>4. \A i \in 1..Len(s) + 1 : i \in 1..Len(s) \/ i = Len(s) + 1
  BY <1>1
<1>5. 1..Len(s) \subseteq 1..Len(s) + 1 /\ Len(s) + 1 \in 1..Len(s) + 1
  BY <1>1
<1> HIDE DEF t
<1>6. Sent(t) <=> Sent(s) /\ m \in Lines(s)
  <2>1. ASSUME Sent(t) PROVE Sent(s) /\ m \in Lines(s)
    <3>1. t[Len(s) + 1] \in Lines(SubSeq(t, 1, (Len(s) + 1) - 1))
      BY <1>1, <1>5, <2>1 DEF Sent
    <3>2. \A i \in 1..Len(s) : t[i] \in Lines(SubSeq(t, 1, i - 1))
      BY <1>1, <1>5, <2>1 DEF Sent
    <3>3. \A i \in 1..Len(s) : s[i] \in Lines(SubSeq(s, 1, i - 1))
      BY <1>1, <1>3, <3>2
    <3>4. QED
      BY <1>1, <1>2, <3>1, <3>3 DEF Sent
  <2>2. ASSUME Sent(s), m \in Lines(s) PROVE Sent(t)
    <3>1. \A i \in 1..Len(s) : t[i] \in Lines(SubSeq(t, 1, i - 1))
      BY <1>1, <1>3, <2>2 DEF Sent
    <3>2. t[Len(s) + 1] \in Lines(SubSeq(t, 1, (Len(s) + 1) - 1))
      BY <1>1, <1>2, <2>2
    <3>3. QED
      BY <1>1, <1>4, <3>1, <3>2 DEF Sent
  <2>3. QED
    BY <2>1, <2>2
<1>7. QED
  BY <1>6 DEF t

\* A step that leaves the provider alone leaves alone what it may send.
LEMMA SentKept ==
  ASSUME dialect' = dialect
  PROVE  /\ Sent(script)' <=> Sent(script')
         /\ script' = script => (Sent(script)' <=> Sent(script))
  BY DEF Sent, Lines

\* The first lines of a body are one.
LEMMA SentPrefix ==
  ASSUME NEW s \in Seq(LinesOf(dialect)), Sent(s), NEW k \in 0..Len(s)
  PROVE  SubSeq(s, 1, k) \in Seq(LinesOf(dialect)) /\ Sent(SubSeq(s, 1, k))
<1> DEFINE t == SubSeq(s, 1, k)
<1>1. t \in Seq(LinesOf(dialect)) /\ DOMAIN t = 1..k /\ DOMAIN s = 1..Len(s) /\ 1..k \subseteq 1..Len(s)
  OBVIOUS
<1>2. \A i \in 1..k : t[i] = s[i] /\ SubSeq(t, 1, i - 1) = SubSeq(s, 1, i - 1)
  OBVIOUS
<1> HIDE DEF t
<1>3. Sent(t)
  BY <1>1, <1>2 DEF Sent
<1>4. QED
  BY <1>1, <1>3 DEF t

\* Induction over bodies: what is true of none and stays true when the upstream
\* sends one more line is true of each.
LEMMA AllBodies ==
  ASSUME NEW P, <<>> \in P,
         ASSUME NEW s \in Seq(LinesOf(dialect)), NEW m \in LinesOf(dialect),
                Sent(s), m \in Lines(s), s \in P
         PROVE  Append(s, m) \in P,
         NEW b \in Seq(LinesOf(dialect)), Sent(b)
  PROVE  b \in P
<1> DEFINE Q == {s \in Seq(LinesOf(dialect)) : Sent(s) => s \in P}
<1>1. <<>> \in Q
  OBVIOUS
<1>2. ASSUME NEW s \in Seq(LinesOf(dialect)), NEW m \in LinesOf(dialect), s \in Q
      PROVE  Append(s, m) \in Q
  <2>1. Append(s, m) \in Seq(LinesOf(dialect))
    OBVIOUS
  <2>2. Sent(Append(s, m)) => Sent(s) /\ m \in Lines(s)
    BY SentOn
  <2>3. Sent(Append(s, m)) => Append(s, m) \in P
    BY <1>2, <2>2
  <2>4. QED
    BY <2>1, <2>3
<1>3. Seq(LinesOf(dialect)) \subseteq Q
  <2> HIDE DEF Q
  <2>1. QED
    BY <1>1, <1>2, AllSequences
<1>4. QED
  BY <1>3

\* The calls that a chunked body has begun are numbered as they come.
LEMMA BegunIs ==
  ASSUME StreamsAssumption, dialect \in {"openai", "ollama"},
         NEW b \in Seq(LinesOf(dialect)), Sent(b)
  PROVE  \E n \in 0..MaxCalls : Begun(b) = 0..n - 1
<1> DEFINE P == {s \in Seq(LinesOf(dialect)) : \E n \in 0..MaxCalls : Begun(s) = 0..n - 1}
<1>1. <<>> \in P
  <2>1. Begun(<<>>) = 0..0 - 1
    BY DEF Begun, ToSet
  <2>2. 0 \in 0..MaxCalls
    BY DEF StreamsAssumption
  <2>3. <<>> \in Seq(LinesOf(dialect))
    OBVIOUS
  <2>4. QED
    BY <2>1, <2>2, <2>3
<1>2. ASSUME NEW s \in Seq(LinesOf(dialect)), NEW m \in LinesOf(dialect),
             Sent(s), m \in Lines(s), s \in P
      PROVE  Append(s, m) \in P
  <2>1. PICK n \in 0..MaxCalls : Begun(s) = 0..n - 1
    BY <1>2
  <2>2. n \in Nat /\ MaxCalls \in Nat
    BY DEF StreamsAssumption
  <2>3. \/ m = Junk
        \/ m \in ChunkLines /\ NextFragments(m.tools, n)
    BY <1>2, <2>1, ChunkSent
  <2> DEFINE t == Append(s, m)
  <2>4. Begun(t) = Begun(s) \cup (IF m.type = "chunk" THEN CallsOf(m) ELSE {})
        /\ t \in Seq(LinesOf(dialect))
    BY BegunOn
  <2> HIDE DEF t
  <2>5. \E k \in 0..MaxCalls : Begun(t) = 0..k - 1
    <3>1. CASE m = Junk
      BY <2>1, <2>4, <3>1 DEF Junk
    <3>2. CASE \E c \in 0..n - 1 : m.tools = <<MoreOf(c)>> /\ m \in ChunkLines
      <4>1. PICK c \in 0..n - 1 : m.tools = <<MoreOf(c)>>
        BY <3>2
      <4>2. CallsOf(m) = {c}
        <5>1. MoreOf(c).call = c
          BY DEF MoreOf, Fragment
        <5>2. DOMAIN <<MoreOf(c)>> = {1} /\ <<MoreOf(c)>>[1] = MoreOf(c)
          OBVIOUS
        <5>3. QED
          BY <4>1, <5>1, <5>2 DEF CallsOf
      <4>3. Begun(t) = Begun(s) \cup {c}
        BY <2>4, <3>2, <4>2 DEF ChunkLines
      <4>4. QED
        BY <2>1, <4>3
    <3>3. CASE \E k \in 0..MaxCalls - n : m.tools = NewCalls(n, k) /\ m \in ChunkLines
      <4>1. PICK k \in 0..MaxCalls - n : m.tools = NewCalls(n, k)
        BY <3>3
      <4>2. k \in Nat
        OBVIOUS
      <4>3. CallsOf(m) = n..n + k - 1
        <5>1. {NewCalls(n, k)[i].call : i \in DOMAIN NewCalls(n, k)} = n..n + k - 1
          BY <2>2, <4>2, NewCallsTyped
        <5> DEFINE new == NewCalls(n, k)
        <5>2. {new[i].call : i \in DOMAIN new} = n..n + k - 1 /\ m.tools = new
          BY <4>1, <5>1
        <5> HIDE DEF new
        <5>3. QED
          BY <5>2 DEF CallsOf
      <4>4. Begun(t) = Begun(s) \cup CallsOf(m)
        BY <2>4, <3>3 DEF ChunkLines
      <4>5. (0..n - 1) \cup (n..n + k - 1) = 0..(n + k) - 1
        BY <2>2, <4>2
      <4>6. n + k \in 0..MaxCalls
        BY <2>2, <4>1
      <4>7. QED
        BY <2>1, <4>3, <4>4, <4>5, <4>6
    <3>4. QED
      BY <2>3, <3>1, <3>2, <3>3 DEF NextFragments
  <2>6. QED
    BY <2>4, <2>5 DEF t
<1>3. b \in P
  <2> HIDE DEF P
  <2>1. QED
    BY <1>1, <1>2, AllBodies
<1>4. QED
  BY <1>3

\* A body of anthropic starts no more tool blocks than the bound.
LEMMA ToolStartsBounded ==
  ASSUME StreamsAssumption, dialect = "anthropic",
         NEW b \in Seq(LinesOf(dialect)), Sent(b)
  PROVE  Cardinality(ToolStarts(b)) <= MaxCalls
<1> DEFINE P == {s \in Seq(LinesOf(dialect)) : Cardinality(ToolStarts(s)) <= MaxCalls}
<1>1. <<>> \in P
  <2>1. ToolStarts(<<>>) = {} /\ Cardinality({}) = 0
    BY FS_EmptySet DEF ToolStarts, Places
  <2>2. MaxCalls \in Nat /\ 0 <= MaxCalls
    BY DEF StreamsAssumption
  <2>3. <<>> \in Seq(LinesOf(dialect))
    OBVIOUS
  <2>4. QED
    <3> DEFINE none == ToolStarts(<<>>)
    <3>1. Cardinality(none) <= MaxCalls
      BY <2>1, <2>2
    <3>2. QED
      BY <2>3, <3>1
<1>2. ASSUME NEW s \in Seq(LinesOf(dialect)), NEW m \in LinesOf(dialect),
             Sent(s), m \in Lines(s), s \in P
      PROVE  Append(s, m) \in P
  <2>1. m.type = "content_block_start" /\ m.tool => Cardinality(ToolStarts(s)) < MaxCalls
    BY <1>2, BlockSent
  <2> DEFINE starts == Places(s, "content_block_start")
             t == Append(s, m)
  <2>2. /\ Places(t, "content_block_start")
             = starts \cup (IF m.type = "content_block_start" THEN {Len(s) + 1} ELSE {})
        /\ IsFiniteSet(starts)
        /\ \A i \in starts : t[i] = s[i]
        /\ t[Len(s) + 1] = m /\ Len(s) + 1 \notin starts
        /\ t \in Seq(LinesOf(dialect))
    BY PlacesOn
  <2> HIDE DEF t
  <2>3. ToolStarts(t)
           = ToolStarts(s) \cup (IF m.type = "content_block_start" /\ m.tool
                                 THEN {Len(s) + 1} ELSE {})
    BY <2>2 DEF ToolStarts
  <2>4. ToolStarts(s) \subseteq starts
    BY DEF ToolStarts
  <2>5. IsFiniteSet(ToolStarts(s)) /\ Len(s) + 1 \notin ToolStarts(s)
    <3> HIDE DEF starts
    <3>1. QED
      BY <2>2, <2>4, FS_Subset
  <2>6. Cardinality(ToolStarts(s)) \in Nat /\ Cardinality(ToolStarts(s)) <= MaxCalls
    BY <1>2, <2>5, FS_CardinalityType
  <2>7. Cardinality(ToolStarts(s) \cup {Len(s) + 1}) = Cardinality(ToolStarts(s)) + 1
    BY <2>5, FS_AddElement
  <2>8. Cardinality(ToolStarts(t)) <= MaxCalls
    <3>1. CASE m.type = "content_block_start" /\ m.tool
      <4>1. ToolStarts(t) = ToolStarts(s) \cup {Len(s) + 1}
        BY <2>3, <3>1
      <4>2. MaxCalls \in Nat /\ Cardinality(ToolStarts(s)) < MaxCalls
        BY <2>1, <3>1 DEF StreamsAssumption
      <4>3. QED
        BY <2>6, <2>7, <4>1, <4>2
    <3>2. CASE ~(m.type = "content_block_start" /\ m.tool)
      <4>1. ToolStarts(t) = ToolStarts(s)
        BY <2>3, <3>2
      <4>2. QED
        BY <2>6, <4>1
    <3>3. QED
      BY <3>1, <3>2
  <2>9. QED
    BY <2>2, <2>8 DEF t
<1>3. b \in P
  <2> HIDE DEF P
  <2>1. QED
    BY <1>1, <1>2, AllBodies
<1>4. QED
  BY <1>3

\* A line of any body is one of its provider's.
LEMMA LineSent ==
  ASSUME StreamsAssumption, BodyInv, NEW m \in Lines(script)
  PROVE  m \in LinesOf(dialect)
<1>1. /\ dialect \in Parsed \cup Translated /\ script \in Seq(LinesOf(dialect))
      /\ Sent(script)
  BY DEF StreamsAssumption, BodyInv
<1>2. CASE dialect \in {"openai", "ollama"}
  <2>1. PICK n \in 0..MaxCalls : Begun(script) = 0..n - 1
    BY <1>1, <1>2, BegunIs
  <2>2. m = Junk \/ m \in ChunkLines
    BY <1>2, <2>1, ChunkSent
  <2>3. QED
    BY <1>2, <2>2 DEF LinesOf, Translated
<1>3. CASE dialect = "anthropic"
  BY <1>1, <1>3, BlockSent DEF LinesOf, Translated
<1>4. CASE dialect \in Translated
  BY <1>4 DEF Lines, LinesOf, NovaLines, NovaLineSet, Nova, NovaDone, Translated
<1>5. QED
  BY <1>1, <1>2, <1>3, <1>4 DEF Parsed

-----------------------------------------------------------------------------
(* Every step keeps the invariant. *)

\* Before the first newline a parser is as it starts.
LEMMA StartIsEmpty ==
  ASSUME dialect \in Parsed, script \in Seq(LinesOf(dialect))
  PROVE  Sofar(dialect, script, 0 \div 3) = Start
  BY SofarSteps

\* Before the first line nothing is read.
LEMMA InitSInv == Init => SInv
<1> SUFFICES ASSUME Init PROVE SInv
  OBVIOUS
<1> USE StreamsAssumption DEF StreamsAssumption
<1>1. BodyInv
  <2>1. Sent(script)
    BY DEF Init, Sent
  <2>6. script = <<>> /\ script \in Seq(LinesOf(dialect)) /\ Len(script) <= MaxLines
    BY DEF Init
  <2>7. /\ dialect \in Dialects /\ api \in {"chat", "responses"} /\ ending = "open"
        /\ ended = FALSE /\ size = 0 /\ at = 0
    BY DEF Init
  <2>8. ended \in BOOLEAN
    BY <2>7
  <2>9. size = 0 /\ at = 0 => size \in Nat /\ at \in 0..size
    OBVIOUS
  <2>10. QED
    BY <2>1, <2>6, <2>7, <2>8, <2>9 DEF BodyInv
<1>2. script \in Seq(LinesOf(dialect))
  BY <1>1 DEF BodyInv
<1>3. dialect \in Parsed => Taken = Start
  BY <1>2, StartIsEmpty DEF Init, Taken
<1>4. ParserInv
  BY <1>3 DEF Init, ParserInv, Start, Run
<1>5. OutInv
  BY <1>3 DEF Init, OutInv, Start
<1>6. ClientInv
  <2>1. NothingTold \in Clients /\ <<>> \in Seq(Events)
    BY DEF NothingTold, Clients
  <2>2. Told(api, NothingTold, <<>>) = NothingTold
    BY <2>1, WrittenSteps
  <2>3. QED
    BY <2>1, <2>2 DEF Init, ClientInv, NothingTold
<1>7. QED
  BY <1>1, <1>4, <1>5, <1>6 DEF SInv

\* One more line: nothing has been read.
LEMMA SendSInv ==
  ASSUME SInv, NEW m \in Lines(script), Send(m)
  PROVE  SInv'
<1> USE StreamsAssumption
<1>1. BodyInv /\ ParserInv /\ OutInv /\ ClientInv
  BY DEF SInv
<1>2. /\ ending = "open" /\ ~ended /\ script' = Append(script, m) /\ Len(script) < MaxLines
      /\ UNCHANGED <<dialect, api, ending, size, at, buffer, memory, out, client, ended>>
  BY DEF Send, parserVars
<1>3. m \in LinesOf(dialect) /\ script \in Seq(LinesOf(dialect))
  BY <1>1, LineSent DEF BodyInv
<1>4. script' \in Seq(LinesOf(dialect)') /\ Len(script') <= MaxLines
  <2>1. Append(script, m) \in Seq(LinesOf(dialect)) /\ Len(Append(script, m)) = Len(script) + 1
    BY <1>3
  <2>2. MaxLines \in Nat /\ Len(script) \in Nat
    BY <1>3 DEF StreamsAssumption
  <2>3. Len(script) + 1 <= MaxLines
    BY <1>2, <2>2
  <2>4. QED
    BY <1>2, <2>1, <2>3
<1>5. at = 0 /\ size = 0
  BY <1>1, <1>2 DEF BodyInv
<1>6. Sent(script)'
  BY <1>1, <1>2, <1>3, SentOn, SentKept DEF BodyInv
<1>8. BodyInv'
  BY <1>1, <1>2, <1>4, <1>5, <1>6 DEF BodyInv
<1>9. dialect \in Parsed => Taken = Start /\ Taken' = Start
  <2>1. \A s \in Seq(LinesOf(dialect)) : dialect \in Parsed => Sofar(dialect, s, 0) = Start
    BY SofarSteps
  <2>2. at \div 3 = 0 /\ at' \div 3 = 0
    BY <1>2, <1>5
  <2>3. QED
    BY <1>2, <1>3, <1>4, <2>1, <2>2 DEF Taken
<1>10. ParserInv'
  BY <1>1, <1>2, <1>9 DEF ParserInv
<1>11. OutInv'
  BY <1>1, <1>2, <1>9 DEF OutInv
<1>12. ClientInv'
  BY <1>1, <1>2 DEF ClientInv
<1>13. QED
  BY <1>8, <1>10, <1>11, <1>12 DEF SInv

\* The end of the body is settled: nothing has been read.
LEMMA EndSInv ==
  ASSUME SInv, NEW how \in {"closed", "broken"}, NEW cut \in 0..2, EndBody(how, cut)
  PROVE  SInv'
<1>1. BodyInv /\ ParserInv /\ OutInv /\ ClientInv
  BY DEF SInv
<1>2. /\ ending = "open" /\ ~ended /\ ending' = how
      /\ size' = IF dialect \in Parsed THEN 3 * Len(script) - cut ELSE Len(script)
      /\ cut > 0 => dialect \in Parsed /\ script # <<>>
      /\ UNCHANGED <<dialect, api, script, at, buffer, memory, out, client, ended>>
  BY DEF EndBody, parserVars
<1>3. at = 0
  BY <1>1, <1>2 DEF BodyInv
<1>4. size' \in Nat /\ at' \in 0..size'
      /\ IF dialect \in Parsed THEN size' \in 3 * Len(script) - 2..3 * Len(script)
         ELSE size' = Len(script)
  <2>1. Len(script) \in Nat /\ (script # <<>> => Len(script) >= 1)
    BY <1>1 DEF BodyInv
  <2>2. QED
    BY <1>2, <1>3, <2>1
<1>5. BodyInv'
  BY <1>1, <1>2, <1>4, SentKept DEF BodyInv
<1>6. Taken' = Taken
  BY <1>2 DEF Taken
<1>7. ParserInv' /\ OutInv'
  BY <1>1, <1>2, <1>6 DEF ParserInv, OutInv
<1>8. ClientInv'
  BY <1>1, <1>2 DEF ClientInv
<1>9. QED
  BY <1>5, <1>7, <1>8 DEF SInv

\* Nothing is read of a body that is refused.
LEMMA RefuseSInv ==
  ASSUME SInv, Refuse
  PROVE  SInv'
<1>1. BodyInv /\ ParserInv /\ OutInv /\ ClientInv
  BY DEF SInv
<1>2. /\ dialect \in Parsed /\ script = <<>> /\ ending = "open" /\ ~ended
      /\ Yield(<<Error>>, TRUE)
      /\ UNCHANGED <<dialect, api, script, ending, size, at, buffer, memory>>
  BY DEF Refuse, bodyVars, parserVars
<1>3. <<Error>> \in Seq(Events)
  BY DEF Events
<1>4. /\ out' = out \o <<Error>> /\ out' \in Seq(Events) /\ ended'
      /\ LET told == Told(api, NothingTold, out \o <<Error>>)
         IN  client' = IF ended' /\ api = "chat"
                       THEN [told EXCEPT !.frames = Append(@, [type |-> "[DONE]"])]
                       ELSE told
  BY <1>1, <1>2, <1>3, YieldTells
<1>5. out' = <<Error>>
  BY <1>1, <1>2, <1>4 DEF ClientInv
<1>6. BodyInv'
  BY <1>1, <1>2, <1>4, SentKept DEF BodyInv
<1>7. ParserInv' /\ OutInv'
  BY <1>1, <1>2, <1>4, <1>5 DEF ParserInv, OutInv, Taken
<1>8. ClientInv'
  BY <1>2, <1>4, <1>5 DEF ClientInv
<1>9. QED
  BY <1>6, <1>7, <1>8 DEF SInv

\* A read that is at piece n has the whole lines before it.
LEMMA ReadSInv ==
  ASSUME SInv, NEW n, Read(n)
  PROVE  SInv'
<1>1. BodyInv /\ ParserInv /\ OutInv /\ ClientInv
  BY DEF SInv
<1> DEFINE k == at \div 3
           q == (at + n) \div 3
           pieces == buffer \o [i \in 1..n |-> at + i]
           parsed == Parse(Split(pieces).lines)
<1>2. /\ dialect \in Parsed /\ ending # "open" /\ ~ended /\ n \in 1..size - at
      /\ buffer' = Split(pieces).rest /\ memory' = parsed.memory
      /\ Yield(parsed.events, FALSE) /\ at' = at + n
      /\ UNCHANGED <<dialect, api, script, ending, size>>
  BY DEF Read, bodyVars
<1>3. /\ script \in Seq(LinesOf(dialect)) /\ size \in Nat /\ at \in 0..size
      /\ size \in 3 * Len(script) - 2..3 * Len(script)
  BY <1>1, <1>2 DEF BodyInv
<1>4. /\ at \in Nat /\ n \in Nat /\ at + n \in 0..size /\ k \in Nat /\ q \in Nat
      /\ 3 * k <= at /\ 3 * k <= at + n /\ k <= q /\ q <= Len(script)
  BY <1>2, <1>3
<1>5. k \in 0..Len(script) /\ q \in k..Len(script) /\ q \in 0..Len(script)
  BY <1>3, <1>4
<1>6. pieces = Run(3 * k, at + n)
  <2>1. buffer = Run(3 * k, at)
    BY <1>1, <1>2 DEF ParserInv
  <2>2. at - 3 * k \in Nat /\ (at + n) - 3 * k = (at - 3 * k) + n
    BY <1>4
  <2> HIDE DEF k
  <2>3. QED
    BY <1>4, <2>1, <2>2 DEF Run
<1>7. Split(pieces) = [lines |-> Texts(k, q), rest |-> Run(3 * q, at + n)]
  <2>1. at + n \in Nat
    BY <1>4
  <2> DEFINE m == at + n
  <2> HIDE DEF k, m
  <2>2. Split(Run(3 * k, m)) = [lines |-> Texts(k, m \div 3), rest |-> Run(3 * (m \div 3), m)]
    BY <1>4, <2>1, SplitRun DEF m
  <2>3. QED
    BY <1>6, <2>2 DEF m
<1>8. /\ Parse(Texts(k, q)) \in Progress
      /\ Parse(Texts(k, q)).memory = Sofar(dialect, script, q).memory
      /\ Sofar(dialect, script, q).events
            = Sofar(dialect, script, k).events \o Parse(Texts(k, q)).events
  <2>1. memory = Sofar(dialect, script, k).memory
    BY <1>1, <1>2 DEF ParserInv, Taken
  <2>2. memory \in Memories
    <3>1. Sofar(dialect, script, k) \in Progress
      <4> HIDE DEF k
      <4>1. QED
        BY <1>2, <1>3, <1>5, SofarSteps
    <3>2. QED
      BY <2>1, <3>1 DEF Progress
  <2>3. ParserTyped
    BY <1>2, <1>3, <2>2 DEF ParserTyped
  <2> HIDE DEF k, q
  <2>4. QED
    BY <1>5, <2>1, <2>3, ParseTexts
<1>9. parsed = Parse(Texts(k, q)) /\ Split(pieces).rest = Run(3 * q, at + n)
  BY <1>7
<1>10. parsed.events \in Seq(ParserEvents) /\ parsed.events \in Seq(Events)
  BY <1>8, <1>9, ParserEventsAreEvents DEF Progress
<1> HIDE DEF pieces, parsed
<1>11. Taken' = Sofar(dialect, script, q)
  BY <1>2 DEF Taken
<1>12. BodyInv'
  <2>1. ended' \in BOOLEAN
    BY <1>1, <1>2, <1>10, YieldTells
  <2>2. QED
    BY <1>1, <1>2, <1>4, <2>1, SentKept DEF BodyInv
<1>13. ParserInv'
  <2>1. 3 * (at' \div 3) = 3 * q /\ at' = at + n
    BY <1>2
  <2> HIDE DEF q
  <2>2. QED
    BY <1>2, <1>8, <1>9, <1>11, <2>1 DEF ParserInv
<1> DEFINE told == Told(api, NothingTold, out \o parsed.events)
<1>14. /\ out' = out \o parsed.events /\ out' \in Seq(Events)
       /\ ended' = (FALSE \/ told.broken)
       /\ client' = IF ended' /\ api = "chat"
                    THEN [told EXCEPT !.frames = Append(@, [type |-> "[DONE]"])]
                    ELSE told
  BY <1>1, <1>2, <1>10, YieldTells
<1>15. out' = Taken'.events /\ out' \in Seq(ParserEvents)
  <2>1. out = Sofar(dialect, script, k).events
    BY <1>1, <1>2 DEF OutInv, Taken
  <2>2. Sofar(dialect, script, q) \in Progress
    <3> HIDE DEF q
    <3>1. QED
      BY <1>2, <1>3, <1>5, SofarSteps
  <2>3. out' = Sofar(dialect, script, q).events
    BY <1>8, <1>9, <1>14, <2>1
  <2>4. QED
    BY <1>11, <2>2, <2>3 DEF Progress
<1>16. told.broken = FALSE
  <2>1. Told(api, NothingTold, out').broken = FALSE
    BY <1>15, NotBroken
  <2>2. QED
    BY <1>14, <2>1
<1>17. OutInv'
  BY <1>2, <1>14, <1>15, <1>16 DEF OutInv
<1>18. ClientInv'
  BY <1>2, <1>14, <1>16 DEF ClientInv
<1>19. QED
  BY <1>12, <1>13, <1>17, <1>18 DEF SInv

\* The lines that arrived whole, but for a newline.
LEMMA LegibleOfParser ==
  ASSUME BodyInv, dialect \in Parsed
  PROVE  Batch = Sofar(dialect, script, (size + 1) \div 3).events
  BY DEF Batch, Legible, Sofar

\* At the end of a body what is left is a line, if it is one.
LEMMA ReadEndSInv ==
  ASSUME SInv, ReadEnd
  PROVE  SInv'
<1>1. BodyInv /\ ParserInv /\ OutInv /\ ClientInv
  BY DEF SInv
<1> DEFINE q == size \div 3
           last == Parse(<<buffer>>)
           events == IF ending = "closed" THEN last.events ELSE <<Error>>
<1>2. /\ dialect \in Parsed /\ ending # "open" /\ ~ended /\ at = size
      /\ Yield(events, TRUE)
      /\ UNCHANGED <<dialect, api, script, ending, size, at, buffer, memory>>
  BY DEF ReadEnd, bodyVars, parserVars
<1>3. /\ script \in Seq(LinesOf(dialect)) /\ size \in Nat
      /\ size \in 3 * Len(script) - 2..3 * Len(script)
      /\ ending \in {"closed", "broken"}
  BY <1>1, <1>2 DEF BodyInv
<1>4. /\ buffer = Run(3 * q, size) /\ memory = Sofar(dialect, script, q).memory
      /\ out = Sofar(dialect, script, q).events
  BY <1>1, <1>2 DEF ParserInv, OutInv, Taken
<1>5. q \in 0..Len(script) /\ q \in Nat /\ 3 * q <= size /\ size <= 3 * q + 2
  BY <1>3
<1>6. Sofar(dialect, script, q) \in Progress
  <2> HIDE DEF q
  <2>1. QED
    BY <1>2, <1>3, <1>5, SofarSteps
<1>7. ParserTyped
  BY <1>2, <1>3, <1>4, <1>6 DEF ParserTyped, Progress
<1>8. buffer \in TextSet /\ last = ProcessedText(Resume, buffer)
  <2>1. \A i \in 1..size - 3 * q : 3 * q + i \in Nat
    BY <1>5
  <2>2. buffer \in Seq(Nat)
    <3> HIDE DEF q
    <3>1. size - 3 * q \in Nat
      BY <1>3, <1>5
    <3>2. QED
      BY <1>4, <2>1, <3>1 DEF Run
  <2>3. ASSUME Whole(buffer)
        PROVE  LineOf(buffer[1]) \in 1..Len(script)
    <3>1. Len(buffer) = size - 3 * q /\ Len(buffer) = 2 /\ buffer[1] = 3 * q + 1
      <4> HIDE DEF q
      <4>1. size - 3 * q \in Nat
        BY <1>3, <1>5
      <4>2. QED
        BY <1>4, <2>3, <4>1 DEF Run, Whole
    <3>2. LineOf(buffer[1]) = q + 1
      BY <1>5, <3>1 DEF LineOf
    <3>3. q + 1 \in 1..Len(script)
      <4>1. Len(script) \in Nat
        BY <1>3
      <4> HIDE DEF q
      <4>2. size - 3 * q = 2
        BY <3>1
      <4>3. q \in Nat /\ size \in Nat /\ size <= 3 * Len(script)
        BY <1>3, <1>5, <4>1
      <4>4. q + 1 \in Nat /\ 1 <= q + 1 /\ q + 1 <= Len(script)
        BY <4>1, <4>2, <4>3
      <4>5. QED
        BY <4>1, <4>4
    <3>4. QED
      BY <3>2, <3>3
  <2>4. buffer \in TextSet
    BY <2>2, <2>3 DEF TextSet
  <2>5. <<>> \in Seq(TextSet) /\ Append(<<>>, buffer) = <<buffer>>
    OBVIOUS
  <2>6. Parse(<<>>) = Resume /\ Parse(Append(<<>>, buffer)) = ProcessedText(Parse(<<>>), buffer)
    BY <1>7, <2>4, <2>5, ParseSteps
  <2>7. QED
    BY <2>4, <2>5, <2>6
<1>9. last \in Progress /\ Sofar(dialect, script, (size + 1) \div 3).events = out \o last.events
  <2>1. CASE size = 3 * q + 2
    <3>1. (size + 1) \div 3 = q + 1 /\ q \in 0..Len(script) - 1
      BY <1>3, <1>5, <2>1
    <3>2. Whole(buffer) /\ LineOf(buffer[1]) = q + 1
      <4>1. buffer = <<3 * q + 1, 3 * q + 2>>
        <5> HIDE DEF q
        <5>1. QED
          BY <1>4, <1>5, <2>1 DEF Run
      <4>2. QED
        <5>1. (3 * q + 3) \div 3 = q + 1 /\ (3 * q + 4) \div 3 = q + 1
          BY <1>5
        <5> HIDE DEF q
        <5>2. QED
          BY <1>5, <4>1, <5>1 DEF Whole, LineOf
    <3>3. last = Processed(dialect, Resume, script[q + 1])
      <4> HIDE DEF last, q
      <4>1. QED
        BY <1>8, <3>2 DEF ProcessedText
    <3>4. Sofar(dialect, script, q + 1) = Processed(dialect, Sofar(dialect, script, q), script[q + 1])
      <4> HIDE DEF q
      <4>1. QED
        BY <1>2, <1>3, <3>1, SofarSteps
    <3>5. /\ Resume \in Progress /\ Resume.events = <<>>
          /\ Resume.memory = Sofar(dialect, script, q).memory
      BY <1>4, <1>6 DEF Resume, Progress
    <3>6. script[q + 1] \in LinesOf(dialect)
      BY <1>3, <3>1
    <3> HIDE DEF last, q
    <3> DEFINE l == LineEvents(dialect, script[q + 1], Sofar(dialect, script, q).memory)
    <3>7. last.events = <<>> \o l /\ l \in Seq(ParserEvents) /\ last \in Progress
      BY <1>2, <3>3, <3>5, <3>6, ProcessedParts, ProcessedTyped
    <3>8. Sofar(dialect, script, q + 1).events = out \o l
      BY <1>2, <1>4, <1>6, <3>4, <3>6, ProcessedParts
    <3> HIDE DEF l
    <3>9. <<>> \o l = l
      BY <3>7
    <3>10. QED
      BY <3>1, <3>7, <3>8, <3>9
  <2>2. CASE size # 3 * q + 2
    <3>1. (size + 1) \div 3 = q
      BY <1>3, <1>5, <2>2
    <3>2. ~Whole(buffer)
      <4> HIDE DEF q
      <4>1. Len(buffer) = size - 3 * q
        <5>1. size - 3 * q \in Nat
          BY <1>3, <1>5
        <5>2. QED
          BY <1>4, <5>1 DEF Run
      <4>2. QED
        BY <1>3, <1>5, <2>2, <4>1 DEF Whole
    <3>3. last = Resume
      BY <1>8, <3>2 DEF ProcessedText
    <3>4. Resume \in Progress /\ Resume.events = <<>>
      BY <1>4, <1>6 DEF Resume, Progress
    <3>5. out \in Seq(ParserEvents) /\ out \o <<>> = out
      <4>1. out \in Seq(ParserEvents)
        BY <1>4, <1>6 DEF Progress
      <4>2. QED
        BY <4>1
    <3> HIDE DEF last, q
    <3>6. QED
      BY <1>4, <3>1, <3>3, <3>4, <3>5
  <2>3. QED
    BY <2>1, <2>2
<1>10. events \in Seq(Events)
  <2>1. last.events \in Seq(Events)
    BY <1>9, ParserEventsAreEvents DEF Progress
  <2>2. <<Error>> \in Seq(Events)
    BY DEF Events
  <2>3. QED
    BY <2>1, <2>2
<1> HIDE DEF last, events
<1> DEFINE told == Told(api, NothingTold, out \o events)
<1>11. /\ out' = out \o events /\ out' \in Seq(Events) /\ ended' = TRUE
       /\ client' = IF ended' /\ api = "chat"
                    THEN [told EXCEPT !.frames = Append(@, [type |-> "[DONE]"])]
                    ELSE told
  <2>1. ended' = (TRUE \/ told.broken)
    BY <1>1, <1>2, <1>10, YieldTells
  <2>2. QED
    BY <1>1, <1>2, <1>10, <2>1, YieldTells
<1>12. BodyInv'
  BY <1>1, <1>2, <1>11, SentKept DEF BodyInv
<1>13. Taken' = Taken /\ Taken = Sofar(dialect, script, q)
  BY <1>2 DEF Taken
<1>14. ParserInv'
  BY <1>1, <1>2, <1>13 DEF ParserInv
<1>15. Batch' = Sofar(dialect, script, (size + 1) \div 3).events
  BY <1>2 DEF Batch, Legible, Sofar
<1>16. OutInv'
  <2>1. CASE ending = "closed"
    <3>1. out' = Batch'
      BY <1>9, <1>11, <1>15, <2>1 DEF events
    <3>2. QED
      BY <1>2, <1>11, <2>1, <3>1 DEF OutInv
  <2>2. CASE ending = "broken"
    <3>1. out' = Taken'.events \o <<Error>>
      BY <1>4, <1>11, <1>13, <2>2 DEF events
    <3>2. QED
      BY <1>2, <1>11, <2>2, <3>1 DEF OutInv
  <2>3. QED
    BY <1>3, <2>1, <2>2
<1>17. ClientInv'
  <2>1. ending' # "open"
    BY <1>2
  <2>2. QED
    BY <1>2, <1>11, <2>1 DEF ClientInv
<1>18. QED
  BY <1>12, <1>14, <1>16, <1>17 DEF SInv

\* What a nova event yields.
LEMMA NovaTyped ==
  ASSUME BodyInv, dialect \in Translated, NEW i \in 1..Len(script)
  PROVE  NovaEvents(script[i]) \in Seq(Events) /\ Returns(script[i]) \in BOOLEAN
<1>1. script[i] \in NovaLineSet
  BY DEF BodyInv, LinesOf
<1>2. Done("stop") \in Events /\ Content \in Events /\ Error \in Events
  BY DEF Done, Events, ParserEvents
<1>3. /\ <<Content>> \in Seq(Events) /\ <<>> \in Seq(Events) /\ <<Error>> \in Seq(Events)
      /\ <<Done("stop")>> \in Seq(Events)
  <2> DEFINE e == Done("stop")
             c == Content
             r == Error
  <2>1. e \in Events /\ c \in Events /\ r \in Events
    BY <1>2
  <2> HIDE DEF e, c, r
  <2>2. <<c>> \in Seq(Events) /\ <<>> \in Seq(Events) /\ <<r>> \in Seq(Events) /\ <<e>> \in Seq(Events)
    BY <2>1
  <2>3. QED
    BY <2>2 DEF e, c, r
<1>4. CASE script[i].type = "nova_text"
  BY <1>3, <1>4 DEF NovaEvents, LlamactlEvents, FromFileEvents, Returns
<1>5. CASE script[i].type = "nova_tool"
  BY <1>3, <1>5 DEF NovaEvents, LlamactlEvents, FromFileEvents, Returns
<1>6. CASE script[i].type = "nova_error"
  BY <1>3, <1>6 DEF NovaEvents, LlamactlEvents, FromFileEvents, Returns
<1>7. CASE script[i].type = "nova_done"
  <2>1. script[i].finish = "stop"
    BY <1>1, <1>7 DEF NovaLineSet
  <2>2. <<LlamactlDone(script[i])>> \in Seq(Events)
    BY <1>3, <2>1 DEF LlamactlDone
  <2>3. QED
    BY <1>3, <1>7, <2>1, <2>2 DEF NovaEvents, LlamactlEvents, FromFileEvents, Returns
<1>8. QED
  BY <1>1, <1>4, <1>5, <1>6, <1>7 DEF NovaLineSet

\* A translated body is read event by event.
LEMMA TakeSInv ==
  ASSUME SInv, Take \/ TakeEnd
  PROVE  SInv'
<1> USE StreamsAssumption
<1>1. BodyInv /\ ParserInv /\ OutInv /\ ClientInv
  BY DEF SInv
<1>2. /\ dialect \in Translated /\ dialect \notin Parsed /\ ending # "open" /\ ~ended
      /\ UNCHANGED <<dialect, api, script, ending, size, buffer, memory>>
  BY DEF Take, TakeEnd, bodyVars, parserVars, Translated, Parsed
<1>3. /\ script \in Seq(LinesOf(dialect)) /\ size \in Nat /\ at \in 0..size /\ size = Len(script)
  BY <1>1, <1>2 DEF BodyInv
<1>4. PICK events \in Seq(Events), last \in BOOLEAN : Yield(events, last) /\ at' \in 0..size
  <2>1. CASE Take
    <3>1. at + 1 \in 1..Len(script) /\ at' = at + 1
      BY <1>3, <2>1 DEF Take
    <3>2. /\ NovaEvents(script[at + 1]) \in Seq(Events)
          /\ Returns(script[at + 1]) \in BOOLEAN
      BY <1>1, <1>2, <3>1, NovaTyped
    <3>3. at' \in 0..size
      BY <1>3, <3>1
    <3>4. QED
      BY <2>1, <3>2, <3>3 DEF Take
  <2>2. CASE TakeEnd
    <3>1. NovaEnd \in Seq(Events)
      <4>1. <<Error>> \in Seq(Events)
        BY DEF Events
      <4>2. QED
        BY <4>1 DEF NovaEnd
    <3>2. at' \in 0..size /\ Yield(NovaEnd, TRUE)
      BY <1>3, <2>2 DEF TakeEnd, parserVars
    <3>3. QED
      BY <3>1, <3>2
  <2>3. QED
    BY <2>1, <2>2
<1> DEFINE told == Told(api, NothingTold, out \o events)
<1>5. /\ out' = out \o events /\ out' \in Seq(Events)
      /\ ended' = (last \/ told.broken) /\ ended' \in BOOLEAN
      /\ client' = IF ended' /\ api = "chat"
                   THEN [told EXCEPT !.frames = Append(@, [type |-> "[DONE]"])]
                   ELSE told
  BY <1>1, <1>2, <1>4, YieldTells
<1>6. BodyInv'
  BY <1>1, <1>2, <1>3, <1>4, <1>5, SentKept DEF BodyInv
<1>7. ParserInv' /\ OutInv'
  BY <1>1, <1>2 DEF ParserInv, OutInv
<1>8. ClientInv'
  <2> HIDE DEF told
  <2>1. told = Told(api', NothingTold, out')
    BY <1>2, <1>5 DEF told
  <2>2. QED
    BY <1>2, <1>5, <2>1 DEF ClientInv
<1>9. QED
  BY <1>6, <1>7, <1>8 DEF SInv

\* Every step keeps the invariant.
LEMMA NextSInv == SInv /\ [Next]_vars => SInv'
<1> SUFFICES ASSUME SInv, [Next]_vars PROVE SInv'
  OBVIOUS
<1>1. CASE UNCHANGED vars
  <2>1. UNCHANGED <<dialect, api, script, ending, size, at, buffer, memory, out, client, ended>>
    BY <1>1 DEF vars, bodyVars, parserVars
  <2>2. Taken' = Taken /\ Batch' = Batch
    BY <2>1 DEF Taken, Batch, Legible
  <2>3. BodyInv'
    BY <2>1, SentKept DEF SInv, BodyInv
  <2>4. QED
    BY <2>1, <2>2, <2>3 DEF SInv, ParserInv, OutInv, ClientInv
<1>2. CASE Next
  <2>1. ASSUME NEW m \in Lines(script), Send(m) PROVE SInv'
    BY <2>1, SendSInv
  <2>2. ASSUME NEW how \in {"closed", "broken"}, NEW cut \in 0..2, EndBody(how, cut)
        PROVE  SInv'
    BY <2>2, EndSInv
  <2>3. ASSUME NEW n \in 1..3 * MaxLines, Read(n) PROVE SInv'
    BY <2>3, ReadSInv
  <2>4. QED
    BY <1>2, <2>1, <2>2, <2>3, RefuseSInv, ReadEndSInv, TakeSInv DEF Next
<1>3. QED
  BY <1>1, <1>2

\* The invariant holds in every state.
LEMMA StreamsInvariant == Spec => []SInv
  BY InitSInv, NextSInv, PTL DEF Spec

-----------------------------------------------------------------------------
(* The parser. *)

\* A parser remembers the tool blocks it has seen start, and no others.
LEMMA ToolsCounted ==
  ASSUME NEW d \in Parsed, NEW s \in Seq(LinesOf(d)), NEW n \in 0..Len(s)
  PROVE  /\ d # "anthropic" => Sofar(d, s, n).memory.tools = <<>>
         /\ d = "anthropic" =>
               Len(Sofar(d, s, n).memory.tools) = Cardinality({i \in ToolStarts(s) : i <= n})
<1> DEFINE tools(k) == Sofar(d, s, k).memory.tools
           seen(k) == {i \in ToolStarts(s) : i <= k}
           Right(k) == IF d = "anthropic" THEN Len(tools(k)) = Cardinality(seen(k))
                       ELSE tools(k) = <<>>
           P == {k \in 0..Len(s) : Right(k)}
<1>1. ToolStarts(s) \subseteq 1..Len(s) /\ IsFiniteSet(ToolStarts(s)) /\ Len(s) \in Nat
  <2>1. Places(s, "content_block_start") \subseteq 1..Len(s) /\ Len(s) \in Nat
    BY DEF Places
  <2>2. IsFiniteSet(1..Len(s))
    BY <2>1, FS_Interval
  <2>3. ToolStarts(s) \subseteq 1..Len(s)
    BY <2>1 DEF ToolStarts
  <2>4. QED
    BY <2>1, <2>2, <2>3, FS_Subset
<1>2. 0 \in P
  <2>1. tools(0) = <<>>
    BY SofarSteps DEF Start, NoMemory
  <2>2. seen(0) = {} /\ Len(<<>>) = 0
    BY <1>1
  <2>3. Right(0)
    <3> HIDE DEF tools, seen
    <3>1. QED
      BY <2>1, <2>2, FS_EmptySet
  <2>4. QED
    BY <1>1, <2>3
<1>3. ASSUME NEW k \in 0..Len(s) - 1, k \in P
      PROVE  k + 1 \in P
  <2> DEFINE m == s[k + 1]
             mem == Sofar(d, s, k).memory
  <2>1. /\ k \in 0..Len(s) /\ k + 1 \in 0..Len(s) /\ k + 1 \in 1..Len(s)
        /\ m \in LinesOf(d) /\ Right(k)
    BY <1>3
  <2>2. mem \in Memories /\ mem.tools = tools(k) /\ tools(k) \in Seq(Nat)
    <3>1. Sofar(d, s, k) \in Progress
      BY <2>1, SofarSteps
    <3>2. QED
      BY <3>1 DEF Progress, Memories
  <2>3. tools(k + 1) = Remembered(d, m, mem).tools
    <3>1. Sofar(d, s, k + 1) = Processed(d, Sofar(d, s, k), m)
      BY SofarSteps
    <3>2. QED
      BY <3>1 DEF Processed
  <2> HIDE DEF tools, mem
  <2>4. CASE TakesOrdinal(m)
    <3>1. m.type = "content_block_start" /\ m.tool
      BY <2>4 DEF TakesOrdinal
    <3>2. d = "anthropic" /\ m.block \in Nat
      BY <2>1, <3>1 DEF LinesOf, Parsed, Translated, Junk, ChunkLines, BlockLines
    <3>3. tools(k + 1) = Append(tools(k), m.block)
      <4>1. Remembered(d, m, mem) = [mem EXCEPT !.tools = Append(@, m.block)]
        BY <2>4, <3>1 DEF Remembered
      <4>2. QED
        BY <2>2, <2>3, <4>1 DEF Memories
    <3>4. k + 1 \in ToolStarts(s)
      BY <2>1, <3>1 DEF ToolStarts, Places
    <3>5. seen(k + 1) = seen(k) \cup {k + 1} /\ k + 1 \notin seen(k)
      BY <1>1, <2>1, <3>4
    <3>6. IsFiniteSet(seen(k))
      BY <1>1, FS_Subset
    <3> HIDE DEF seen
    <3>7. Cardinality(seen(k + 1)) = Cardinality(seen(k)) + 1
      BY <3>5, <3>6, FS_AddElement
    <3>8. Len(tools(k + 1)) = Len(tools(k)) + 1
      BY <2>2, <3>2, <3>3
    <3>9. QED
      BY <2>1, <3>2, <3>7, <3>8
  <2>5. CASE ~TakesOrdinal(m)
    <3>1. tools(k + 1) = tools(k)
      BY <2>2, <2>3, <2>5 DEF Remembered, Memories
    <3>2. d = "anthropic" => k + 1 \notin ToolStarts(s)
      BY <2>5 DEF ToolStarts, Places, TakesOrdinal
    <3>3. d = "anthropic" => seen(k + 1) = seen(k)
      BY <1>1, <2>1, <3>2
    <3> HIDE DEF seen
    <3>4. QED
      BY <2>1, <3>1, <3>3
  <2>6. QED
    BY <2>4, <2>5
<1>4. n \in P
  <2> HIDE DEF P
  <2>1. 0..Len(s) \subseteq P
    BY <1>1, <1>2, <1>3, UpTo
  <2>2. QED
    BY <2>1
<1>5. QED
  BY <1>4

\* Every variable keeps its type: the parser holds back less than a line, and
\* has an ordinal for no more calls than the body starts.
THEOREM TypeCorrect == Spec => []TypeOK
<1> USE StreamsAssumption
<1>1. ASSUME SInv PROVE TypeOK
  <2>1. BodyInv /\ ParserInv /\ ClientInv /\ MaxCalls \in Nat /\ MaxLines \in Nat
    BY <1>1 DEF SInv, StreamsAssumption
  <2>2. script \in Seq(LinesOf(dialect)) /\ Len(script) \in Nat /\ Len(script) <= MaxLines
    BY <2>1 DEF BodyInv
  <2>3. size \in 0..3 * MaxLines
    BY <2>1, <2>2 DEF BodyInv
  <2>4. Len(buffer) <= 2
    <3>1. CASE dialect \in Parsed
      <4> DEFINE q == at \div 3
      <4>1. at \in Nat
        BY <2>1 DEF BodyInv
      <4>2. at - 3 * q \in 0..2
        BY <4>1
      <4>3. buffer = Run(3 * q, at)
        BY <2>1, <3>1 DEF ParserInv
      <4> HIDE DEF q
      <4>4. QED
        BY <4>2, <4>3 DEF Run
    <3>2. CASE dialect \notin Parsed
      BY <2>1, <3>2 DEF ParserInv
    <3>3. QED
      BY <3>1, <3>2
  <2>5. memory.usage \in Tokens \cup {Uncounted} /\ Len(memory.tools) <= MaxCalls
    <3>1. CASE dialect \in Parsed
      <4> DEFINE q == at \div 3
      <4>1. q \in 0..Len(script)
        BY <2>1, <2>2 DEF BodyInv
      <4>2. memory = Sofar(dialect, script, q).memory
        BY <2>1, <3>1 DEF ParserInv, Taken
      <4> HIDE DEF q
      <4>3. Sofar(dialect, script, q) \in Progress
        BY <2>2, <3>1, <4>1, SofarSteps
      <4>4. memory \in Memories
        BY <4>2, <4>3 DEF Progress
      <4>5. CASE dialect = "anthropic"
        <5>1. Len(memory.tools) = Cardinality({i \in ToolStarts(script) : i <= q})
          BY <2>2, <3>1, <4>1, <4>2, <4>5, ToolsCounted
        <5>2. Cardinality(ToolStarts(script)) <= MaxCalls
          BY <2>1, <2>2, <4>5, ToolStartsBounded DEF BodyInv
        <5>3. IsFiniteSet(ToolStarts(script))
          <6>1. ToolStarts(script) \subseteq Places(script, "content_block_start")
            BY DEF ToolStarts
          <6>2. QED
            BY <2>2, <6>1, PlacesOn, FS_Subset
        <5> DEFINE seen == {i \in ToolStarts(script) : i <= q}
        <5>4. seen \subseteq ToolStarts(script)
          OBVIOUS
        <5>5. Cardinality(seen) <= Cardinality(ToolStarts(script)) /\ Cardinality(seen) \in Nat
              /\ Cardinality(ToolStarts(script)) \in Nat
          <6> HIDE DEF seen
          <6>1. QED
            BY <5>3, <5>4, FS_Subset, FS_CardinalityType
        <5>6. Len(memory.tools) <= MaxCalls
          <6>1. Len(memory.tools) = Cardinality(seen)
            BY <5>1
          <6> HIDE DEF seen
          <6>2. QED
            BY <2>1, <5>2, <5>5, <6>1
        <5>7. QED
          BY <4>4, <5>6 DEF Memories
      <4>6. CASE dialect # "anthropic"
        <5>1. memory.tools = <<>>
          BY <2>2, <3>1, <4>1, <4>2, <4>6, ToolsCounted
        <5>2. QED
          BY <2>1, <4>4, <5>1 DEF Memories
      <4>7. QED
        BY <4>5, <4>6
    <3>2. CASE dialect \notin Parsed
      BY <2>1, <3>2 DEF ParserInv, NoMemory
    <3>3. QED
      BY <3>1, <3>2
  <2>6. client.firstChunkEmitted \in BOOLEAN /\ client.broken \in BOOLEAN
    <3> DEFINE told == Told(api, NothingTold, out)
    <3>1. NothingTold \in Clients /\ out \in Seq(Events)
      BY <2>1 DEF NothingTold, Clients, ClientInv
    <3>2. told \in Clients
      BY <3>1, WrittenSteps
    <3>3. \/ client = [told EXCEPT !.frames = Append(@, [type |-> "[DONE]"])]
          \/ client = told
      BY <2>1 DEF ClientInv
    <3> HIDE DEF told
    <3>4. QED
      BY <3>2, <3>3 DEF Clients
  <2>7. QED
    BY <2>1, <2>2, <2>3, <2>4, <2>5, <2>6 DEF TypeOK, BodyInv
<1>2. QED
  BY <1>1, StreamsInvariant, PTL

\* Wherever reads end, within a line or not, the parser has yielded the
\* beginning of what it makes of the body at once, and in the end all of it.
THEOREM ReadsMakeNoDifference == Spec => []ReadsDontMatter
<1>1. ASSUME SInv PROVE ReadsDontMatter
  <2> DEFINE told == IF out # <<>> /\ Last(out) = Error THEN Front(out) ELSE out
             k == at \div 3
             n == (size + 1) \div 3
  <2> SUFFICES ASSUME dialect \in Parsed, ending # "open"
               PROVE  IsPrefix(told, Batch) /\ (ended /\ ending = "closed" => out = Batch)
    BY DEF ReadsDontMatter
  <2>1. BodyInv /\ OutInv
    BY <1>1 DEF SInv
  <2>2. /\ script \in Seq(LinesOf(dialect)) /\ ended \in BOOLEAN
        /\ ending \in {"closed", "broken"}
    BY <2>1 DEF BodyInv
  <2>3. k \in 0..Len(script) /\ n \in 0..Len(script) /\ n \in k..Len(script)
    BY <2>1, <2>2 DEF BodyInv
  <2>4. Batch = Sofar(dialect, script, n).events
    BY <2>1, LegibleOfParser
  <2>5. Taken = Sofar(dialect, script, k)
    BY DEF Taken
  <2> HIDE DEF k, n
  <2>6. Taken.events \in Seq(ParserEvents) /\ Batch \in Seq(ParserEvents)
    BY <2>2, <2>3, <2>4, <2>5, SofarSteps DEF Progress
  <2>7. PICK u \in Seq(ParserEvents) : Batch = Taken.events \o u
    BY <2>2, <2>3, <2>4, <2>5, SofarGrows
  <2>8. \A e \in Seq(ParserEvents) : e # <<>> => Last(e) # Error
    <3>1. Error \notin ParserEvents
      BY DEF Error, ParserEvents, Content
    <3>2. QED
      BY <3>1 DEF Last
  <2>9. IsPrefix(Taken.events, Batch) /\ IsPrefix(Batch, Batch)
    <3> DEFINE t == Taken.events
               b == Batch
    <3>1. t \in Seq(ParserEvents) /\ b = t \o u /\ b \in Seq(ParserEvents)
      BY <2>6, <2>7
    <3> HIDE DEF t, b
    <3>2. IsPrefix(t, b) /\ IsPrefix(b, b)
      BY <3>1 DEF IsPrefix
    <3>3. QED
      BY <3>2 DEF t, b
  <2>10. CASE ~ended
    BY <2>1, <2>6, <2>8, <2>9, <2>10 DEF OutInv
  <2>11. CASE ended /\ ending = "closed"
    BY <2>1, <2>6, <2>8, <2>9, <2>11 DEF OutInv
  <2>12. CASE ended /\ ending = "broken"
    <3>1. out = Taken.events \o <<Error>>
      BY <2>1, <2>12 DEF OutInv
    <3> DEFINE t == Taken.events
               e == Error
    <3>2. t \in Seq(ParserEvents) /\ out = t \o <<e>>
      BY <2>6, <3>1
    <3> HIDE DEF t, e
    <3>3. out # <<>> /\ Last(out) = e /\ Front(out) = t
      BY <3>2 DEF Last, Front
    <3>4. told = Taken.events
      BY <3>3 DEF t, e
    <3> HIDE DEF told
    <3>5. QED
      BY <2>9, <2>12, <3>4
  <2>13. QED
    BY <2>2, <2>10, <2>11, <2>12
<1>2. QED
  BY <1>1, StreamsInvariant, PTL

-----------------------------------------------------------------------------
(* The frames that an event is written as. *)

\* What an endpoint makes of an event, if it makes anything of it.
FramesFor(a, e) ==
    IF a = "chat" THEN <<IF e.type = "error" THEN FinishFrame("error") ELSE FrameOf(e)>>
    ELSE ResponsesFrames(e)

\* An event adds a role frame to a chat stream or does not, and then its own.
LEMMA FramesAdded ==
  ASSUME NEW a \in {"chat", "responses"}, NEW c \in Clients, NEW e \in Events, ~c.broken
  PROVE  LET t == Written(a, c, e)
             role == a = "chat" /\ ~c.firstChunkEmitted /\ StartsMessage(e)
             frames == IF role THEN Append(c.frames, RoleFrame) ELSE c.frames
         IN  /\ frames \in Seq(Frames)
             /\ t \in Clients
             /\ t.firstChunkEmitted = (c.firstChunkEmitted \/ (a = "chat" /\ StartsMessage(e)))
             /\ t.broken = (e.type = "error")
             /\ \/ FramesFor(a, e) = <<>> /\ t.frames = frames /\ ~role
                \/ \E f \in Frames : FramesFor(a, e) = <<f>> /\ t.frames = Append(frames, f)
<1> DEFINE t == Written(a, c, e)
           role == a = "chat" /\ ~c.firstChunkEmitted /\ StartsMessage(e)
           frames == IF role THEN Append(c.frames, RoleFrame) ELSE c.frames
<1>1. c.frames \in Seq(Frames) /\ RoleFrame \in Frames
  BY DEF Clients, RoleFrame, Frames
<1>2. frames \in Seq(Frames) /\ t \in Clients
  <2>1. \A q \in Seq(Frames), r \in Frames : Append(q, r) \in Seq(Frames)
    OBVIOUS
  <2>2. t \in Clients
    BY WrittenTyped
  <2> HIDE DEF t, role
  <2>3. QED
    BY <1>1, <2>1, <2>2
<1>3. /\ t.frames = c.frames \o (IF a = "chat" THEN ChatFrames(c, e) ELSE ResponsesFrames(e))
      /\ t.firstChunkEmitted = (c.firstChunkEmitted \/ (a = "chat" /\ StartsMessage(e)))
      /\ t.broken = (e.type = "error")
  BY DEF Written
<1>4. CASE a = "chat"
  <2> DEFINE f == IF e.type = "error" THEN FinishFrame("error") ELSE FrameOf(e)
  <2>1. f \in Frames
    <3>1. CASE e.type = "error"
      BY <3>1 DEF FinishFrame, Frames
    <3>2. CASE e.type = "done"
      BY <3>2 DEF FrameOf, FinishFrame, toOpenAiFinishReason, Frames
    <3>3. CASE e.type \notin {"error", "done"}
      BY <3>3 DEF FrameOf, Frames, Events, ParserEvents
    <3>4. QED
      BY <3>1, <3>2, <3>3
  <2>2. ChatFrames(c, e) = (IF role THEN <<RoleFrame>> ELSE <<>>) \o <<f>>
    BY <1>4 DEF ChatFrames, When
  <2>3. FramesFor(a, e) = <<f>>
    BY <1>4 DEF FramesFor
  <2> DEFINE r == RoleFrame
             s == c.frames
             b == role
  <2>4. s \o ((IF b THEN <<r>> ELSE <<>>) \o <<f>>)
           = Append(IF b THEN Append(s, r) ELSE s, f)
    <3> HIDE DEF f, r, s, b
    <3>1. s \in Seq(Frames) /\ r \in Frames /\ f \in Frames
      BY <1>1, <2>1 DEF r, s
    <3>2. QED
      BY <3>1
  <2>5. t.frames = Append(frames, f)
    BY <1>3, <1>4, <2>2, <2>4
  <2> HIDE DEF f, role, frames
  <2>6. QED
    <3>1. \E g \in Frames : FramesFor(a, e) = <<g>> /\ t.frames = Append(frames, g)
      BY <2>1, <2>3, <2>5
    <3>2. QED
      BY <1>2, <1>3, <3>1 DEF role, frames
<1>5. CASE a # "chat"
  <2>1. ~role /\ frames = c.frames /\ FramesFor(a, e) = ResponsesFrames(e)
    BY <1>5 DEF FramesFor
  <2>2. t.frames = c.frames \o ResponsesFrames(e)
    BY <1>3, <1>5
  <2>3. ResponsesFrames(e) = <<>> \/ \E f \in Frames : ResponsesFrames(e) = <<f>>
    <3>1. /\ Error \in Frames /\ Content \in Frames /\ [type |-> "response.completed"] \in Frames
      BY DEF Frames, Events, ParserEvents, Error, Content
    <3>2. QED
      BY <3>1 DEF ResponsesFrames
  <2>4. CASE ResponsesFrames(e) = <<>>
    <3>1. t.frames = c.frames
      BY <1>1, <2>2, <2>4
    <3>2. QED
      BY <1>2, <1>3, <2>1, <2>4, <3>1
  <2>5. CASE \E f \in Frames : ResponsesFrames(e) = <<f>>
    <3>1. PICK f \in Frames : ResponsesFrames(e) = <<f>>
      BY <2>5
    <3>2. c.frames \o <<f>> = Append(c.frames, f)
      BY <1>1
    <3>3. \E g \in Frames : FramesFor(a, e) = <<g>> /\ t.frames = Append(frames, g)
      BY <2>1, <2>2, <3>1, <3>2
    <3> HIDE DEF frames, role, t
    <3>4. QED
      BY <1>2, <1>3, <2>1, <3>3 DEF frames, role, t
  <2>6. QED
    BY <2>3, <2>4, <2>5
<1>6. QED
  BY <1>4, <1>5

Said(frames) == Places(frames, "content") \cup Places(frames, "tool")

\* A role frame is written with the first text or tool frame, before it.
Led(frames, started) ==
    LET roles == Places(frames, "role")
    IN  IF started
        THEN Said(frames) # {} /\ \E i \in Nat : roles = {i} /\ \A j \in Said(frames) : i < j
        ELSE Said(frames) = {} /\ roles = {}

\* The frames that lead and say, when one more frame is written.
LEMMA SaidOn ==
  ASSUME NEW frames \in Seq(Frames), NEW f
  PROVE  LET t == Append(frames, f)
         IN  /\ Places(t, "role") = Places(frames, "role")
                                       \cup (IF f.type = "role" THEN {Len(frames) + 1} ELSE {})
             /\ Said(t) = Said(frames) \cup (IF f.type \in {"content", "tool"}
                                            THEN {Len(frames) + 1} ELSE {})
             /\ Said(frames) \subseteq 1..Len(frames)
             /\ Places(frames, "role") \subseteq 1..Len(frames)
             /\ Len(frames) \in Nat
<1> DEFINE t == Append(frames, f)
<1>1. ASSUME NEW type
      PROVE  /\ Places(t, type) = Places(frames, type)
                                    \cup (IF f.type = type THEN {Len(frames) + 1} ELSE {})
             /\ Places(frames, type) \subseteq 1..Len(frames)
  BY PlacesOn
<1> HIDE DEF t
<1>2. /\ Places(t, "role") = Places(frames, "role") \cup (IF f.type = "role" THEN {Len(frames) + 1} ELSE {})
      /\ Places(frames, "role") \subseteq 1..Len(frames)
  BY <1>1
<1>3. /\ Places(t, "content") = Places(frames, "content") \cup (IF f.type = "content" THEN {Len(frames) + 1} ELSE {})
      /\ Places(frames, "content") \subseteq 1..Len(frames)
  BY <1>1
<1>4. /\ Places(t, "tool") = Places(frames, "tool") \cup (IF f.type = "tool" THEN {Len(frames) + 1} ELSE {})
      /\ Places(frames, "tool") \subseteq 1..Len(frames)
  BY <1>1
<1>5. Len(frames) \in Nat
  OBVIOUS
<1>6. QED
  BY <1>2, <1>3, <1>4, <1>5 DEF Said, t

\* What becomes of the role frame when one more frame is written.
LEMMA LedOn ==
  ASSUME NEW frames \in Seq(Frames), NEW f \in Frames, NEW started \in BOOLEAN,
         Led(frames, started)
  PROVE  /\ f.type \notin {"role", "content", "tool"} => Led(Append(frames, f), started)
         /\ f.type \in {"content", "tool"} /\ started => Led(Append(frames, f), started)
         /\ f.type \in {"content", "tool"} /\ ~started =>
               Led(Append(Append(frames, RoleFrame), f), TRUE)
<1> DEFINE t == Append(frames, f)
<1>1. /\ Places(t, "role") = Places(frames, "role") \cup (IF f.type = "role" THEN {Len(frames) + 1} ELSE {})
      /\ Said(t) = Said(frames) \cup (IF f.type \in {"content", "tool"} THEN {Len(frames) + 1} ELSE {})
      /\ Said(frames) \subseteq 1..Len(frames) /\ Places(frames, "role") \subseteq 1..Len(frames)
      /\ Len(frames) \in Nat
  BY SaidOn
<1>3. CASE f.type \notin {"role", "content", "tool"}
  BY <1>1, <1>3 DEF Led
<1>4. CASE f.type \in {"content", "tool"} /\ started
  <2>1. Said(t) = Said(frames) \cup {Len(frames) + 1} /\ Places(t, "role") = Places(frames, "role")
    BY <1>1, <1>4
  <2>2. PICK i \in Nat : Places(frames, "role") = {i} /\ \A j \in Said(frames) : i < j
    BY <1>4 DEF Led
  <2>3. i < Len(frames) + 1
    <3>1. i \in 1..Len(frames)
      BY <1>1, <2>2
    <3>2. QED
      BY <1>1, <3>1
  <2> HIDE DEF t
  <2>4. Said(t) # {} /\ Places(t, "role") = {i} /\ \A j \in Said(t) : i < j
    BY <2>1, <2>2, <2>3
  <2>5. Led(t, started)
    BY <1>4, <2>4 DEF Led
  <2>6. QED
    BY <1>4, <2>5 DEF t
<1>5. CASE f.type \in {"content", "tool"} /\ ~started
  <2> DEFINE r == Append(frames, RoleFrame)
             u == Append(r, f)
  <2>1. RoleFrame \in Frames /\ RoleFrame.type = "role"
    BY DEF RoleFrame, Frames
  <2>2. r \in Seq(Frames) /\ Len(r) = Len(frames) + 1
    BY <2>1
  <2>3. Places(r, "role") = {Len(r)} /\ Said(r) = {}
    <3>1. Places(frames, "role") = {} /\ Said(frames) = {}
      BY <1>5 DEF Led
    <3>2. Places(r, "role") = Places(frames, "role") \cup {Len(frames) + 1} /\ Said(r) = Said(frames)
      BY <2>1, SaidOn
    <3>3. QED
      BY <2>2, <3>1, <3>2
  <2> HIDE DEF r
  <2>4. Places(u, "role") = {Len(r)} /\ Said(u) = {Len(r) + 1}
    <3>1. Places(u, "role") = Places(r, "role") /\ Said(u) = Said(r) \cup {Len(r) + 1}
      BY <1>5, <2>2, SaidOn
    <3>2. QED
      BY <1>5, <2>3, <3>1
  <2>5. Len(r) \in Nat
    BY <2>2
  <2> HIDE DEF u
  <2>6. Led(u, TRUE)
    BY <2>4, <2>5 DEF Led
  <2>7. QED
    BY <1>5, <2>6 DEF u, r
<1>6. QED
  BY <1>3, <1>4, <1>5

\* No event of a stream is a role frame, and its text and tool calls start
\* the message.
LEMMA EventsSay ==
  ASSUME NEW e \in Events, NEW f, FramesFor("chat", e) = <<f>>
  PROVE  f.type # "role" /\ (f.type \in {"content", "tool"} <=> StartsMessage(e))
<1>1. f = IF e.type = "error" THEN FinishFrame("error") ELSE FrameOf(e)
  <2> DEFINE g == IF e.type = "error" THEN FinishFrame("error") ELSE FrameOf(e)
  <2>1. <<g>> = <<f>>
    BY DEF FramesFor
  <2> HIDE DEF g
  <2>2. g = f
    BY <2>1
  <2>3. QED
    BY <2>2 DEF g
<1>2. CASE e.type \in {"error", "done"}
  BY <1>1, <1>2 DEF FrameOf, FinishFrame, StartsMessage
<1>3. CASE e.type \notin {"error", "done"}
  <2>1. f = e
    BY <1>1, <1>3 DEF FrameOf
  <2>2. e.type # "role"
    BY DEF Events, ParserEvents, Content, Error
  <2>3. QED
    BY <2>1, <2>2 DEF StartsMessage
<1>4. QED
  BY <1>2, <1>3

\* A chat stream is led by its role frame, whatever the events.
LEMMA ToldLed ==
  ASSUME NEW x \in Seq(Events)
  PROVE  LET t == Told("chat", NothingTold, x)
         IN  Led(t.frames, t.firstChunkEmitted)
<1> DEFINE told(s) == Told("chat", NothingTold, s)
           P == {s \in Seq(Events) : Led(told(s).frames, told(s).firstChunkEmitted)}
<1>0. NothingTold \in Clients
  BY DEF NothingTold, Clients
<1>1. <<>> \in P
  <2>1. <<>> \in Seq(Events)
    OBVIOUS
  <2>2. told(<<>>) = NothingTold
    BY <1>0, <2>1, WrittenSteps
  <2>3. Led(NothingTold.frames, NothingTold.firstChunkEmitted)
    BY DEF Led, Said, Places, NothingTold
  <2>4. QED
    <3> HIDE DEF told
    <3>1. QED
      BY <2>1, <2>2, <2>3
<1>2. ASSUME NEW s \in Seq(Events), NEW e \in Events, s \in P
      PROVE  Append(s, e) \in P
  <2> DEFINE c == told(s)
             t == Written("chat", c, e)
             role == ~c.firstChunkEmitted /\ StartsMessage(e)
             frames == IF role THEN Append(c.frames, RoleFrame) ELSE c.frames
  <2>1. told(Append(s, e)) = t /\ c \in Clients
    BY <1>0, WrittenSteps
  <2>2. Led(c.frames, c.firstChunkEmitted)
    BY <1>2
  <2> HIDE DEF told
  <2>3. Led(t.frames, t.firstChunkEmitted)
    <3>1. CASE c.broken
      BY <2>2, <3>1 DEF Written
    <3>2. CASE ~c.broken
      <4>1. /\ t.firstChunkEmitted = (c.firstChunkEmitted \/ StartsMessage(e))
            /\ \/ FramesFor("chat", e) = <<>> /\ t.frames = frames /\ ~role
               \/ \E f \in Frames : FramesFor("chat", e) = <<f>> /\ t.frames = Append(frames, f)
        <5> HIDE DEF c
        <5>1. QED
          BY <2>1, <3>2, FramesAdded
      <4>2. FramesFor("chat", e) # <<>>
        BY DEF FramesFor
      <4>3. PICK f \in Frames : FramesFor("chat", e) = <<f>> /\ t.frames = Append(frames, f)
        BY <4>1, <4>2
      <4>4. f.type # "role" /\ (f.type \in {"content", "tool"} <=> StartsMessage(e))
        BY <4>3, EventsSay
      <4>5. c.frames \in Seq(Frames) /\ c.firstChunkEmitted \in BOOLEAN
        BY <2>1 DEF Clients
      <4> HIDE DEF c, t
      <4>6. CASE ~StartsMessage(e)
        <5>1. t.frames = Append(c.frames, f) /\ t.firstChunkEmitted = c.firstChunkEmitted
          BY <4>1, <4>3, <4>5, <4>6
        <5>2. QED
          BY <2>2, <4>4, <4>5, <4>6, <5>1, LedOn
      <4>7. CASE StartsMessage(e) /\ c.firstChunkEmitted
        <5>1. t.frames = Append(c.frames, f) /\ t.firstChunkEmitted = c.firstChunkEmitted
          BY <4>1, <4>3, <4>5, <4>7
        <5>2. QED
          BY <2>2, <4>4, <4>5, <4>7, <5>1, LedOn
      <4>8. CASE StartsMessage(e) /\ ~c.firstChunkEmitted
        <5>1. t.frames = Append(Append(c.frames, RoleFrame), f) /\ t.firstChunkEmitted = TRUE
          BY <4>1, <4>3, <4>5, <4>8
        <5>2. QED
          BY <2>2, <4>4, <4>5, <4>8, <5>1, LedOn
      <4>9. QED
        BY <4>6, <4>7, <4>8
    <3>3. QED
      BY <3>1, <3>2
  <2>4. Append(s, e) \in Seq(Events)
    OBVIOUS
  <2>5. QED
    <3> HIDE DEF c, t
    <3>1. QED
      BY <2>1, <2>3, <2>4 DEF told
<1>3. Seq(Events) \subseteq P
  <2> HIDE DEF P
  <2>1. QED
    BY <1>1, <1>2, AllSequences
<1>4. QED
  BY <1>3

\* The end of the stream is no frame of another type.
LEMMA DoneFrame ==
  ASSUME NEW frames \in Seq(Frames), NEW type, type # "[DONE]"
  PROVE  /\ Places(Append(frames, [type |-> "[DONE]"]), type) = Places(frames, type)
         /\ \A i \in Places(frames, type) : Append(frames, [type |-> "[DONE]"])[i] = frames[i]
<1> DEFINE f == [type |-> "[DONE]"]
<1>1. f.type # type
  OBVIOUS
<1> HIDE DEF f
<1>2. /\ Places(Append(frames, f), type) = Places(frames, type)
      /\ \A i \in Places(frames, type) : Append(frames, f)[i] = frames[i]
  <2> DEFINE t == Append(frames, f)
  <2>1. /\ Places(t, type) = Places(frames, type) \cup (IF f.type = type THEN {Len(frames) + 1} ELSE {})
        /\ \A i \in Places(frames, type) : t[i] = frames[i] /\ frames[i].type = type
    BY PlacesOn
  <2> HIDE DEF t
  <2>2. Places(t, type) = Places(frames, type)
    BY <1>1, <2>1
  <2>3. QED
    BY <2>1, <2>2 DEF t
<1>3. QED
  BY <1>2 DEF f

\* The frames of the client are those of the events, but for the end.
LEMMA ClientFrames ==
  ASSUME SInv, NEW type, type # "[DONE]"
  PROVE  LET told == Told(api, NothingTold, out)
         IN  /\ told \in Clients /\ out \in Seq(Events)
             /\ Places(client.frames, type) = Places(told.frames, type)
             /\ \A i \in Places(told.frames, type) : client.frames[i] = told.frames[i]
<1> DEFINE told == Told(api, NothingTold, out)
<1>1. out \in Seq(Events) /\ NothingTold \in Clients
  BY DEF SInv, ClientInv, NothingTold, Clients
<1>2. told \in Clients
  BY <1>1, WrittenSteps
<1>3. client = told \/ client = [told EXCEPT !.frames = Append(@, [type |-> "[DONE]"])]
  BY DEF SInv, ClientInv
<1> HIDE DEF told
<1>4. told.frames \in Seq(Frames)
  BY <1>2 DEF Clients
<1>5. client.frames = told.frames \/ client.frames = Append(told.frames, [type |-> "[DONE]"])
  BY <1>2, <1>3 DEF Clients
<1>6. /\ Places(client.frames, type) = Places(told.frames, type)
      /\ \A i \in Places(told.frames, type) : client.frames[i] = told.frames[i]
  BY <1>4, <1>5, DoneFrame
<1>7. QED
  BY <1>1, <1>2, <1>6 DEF told

\* A chat stream has one role frame, before its first text or tool frame, and
\* none if it has neither: also one that starts with a tool call, or fails.
THEOREM RoleComesFirst == Spec => []RoleFirst
<1>1. ASSUME SInv PROVE RoleFirst
  <2> SUFFICES ASSUME api = "chat" PROVE RoleFirst
    BY DEF RoleFirst
  <2> DEFINE told == Told("chat", NothingTold, out)
             roles == Places(client.frames, "role")
             said == Places(client.frames, "content") \cup Places(client.frames, "tool")
  <2>1. /\ roles = Places(told.frames, "role") /\ said = Said(told.frames)
        /\ out \in Seq(Events) /\ told \in Clients
    <3> HIDE DEF told
    <3>1. ASSUME NEW type, type # "[DONE]"
          PROVE  Places(client.frames, type) = Places(told.frames, type)
      BY <1>1, <3>1, ClientFrames DEF told
    <3>2. out \in Seq(Events) /\ told \in Clients
      <4>1. "role" # "[DONE]"
        OBVIOUS
      <4>2. QED
        BY <1>1, <4>1, ClientFrames DEF told
    <3>3. QED
      BY <3>1, <3>2 DEF Said
  <2>2. Led(told.frames, told.firstChunkEmitted)
    BY <2>1, ToldLed
  <2>3. \/ said # {} /\ \E i \in Nat : roles = {i} /\ \A j \in said : i < j
        \/ roles = {} /\ said = {}
    <3>1. Led(client.frames, told.firstChunkEmitted)
      <4>1. said = Said(client.frames)
        BY DEF Said
      <4> HIDE DEF told
      <4>2. QED
        BY <2>1, <2>2, <4>1 DEF Led
    <3>2. QED
      BY <3>1 DEF Led, Said
  <2>4. /\ Cardinality(roles) = IF said = {} THEN 0 ELSE 1
        /\ \A i \in roles, j \in said : i < j
    <3> HIDE DEF roles, said
    <3>1. Cardinality({}) = 0 /\ \A i \in Nat : Cardinality({i}) = 1
      BY FS_EmptySet, FS_Singleton
    <3>2. QED
      BY <2>3, <3>1
  <2>5. QED
    BY <2>4 DEF RoleFirst
<1>2. QED
  BY <1>1, StreamsInvariant, PTL

-----------------------------------------------------------------------------
(* The parts of what a line yields. *)

\* A line that finishes the completion, and one that starts tool calls.
Finishes(m) == m.type \in {"chunk", "message_delta"} /\ m.finish # Unfinished
MakesCall(m) ==
    \/ m.type = "chunk" /\ m.tools # <<>>
    \/ m.type = "content_block_start" /\ m.tool

\* The text, the tool call events, the usage and the finish of a line.
Speaks(m) ==
    \/ m.type = "chunk" /\ m.text
    \/ m.type = "content_block_delta" /\ ~m.json
ToolsOf(d, m, mem) ==
    IF m.type = "chunk"
    THEN [i \in DOMAIN m.tools |->
             Tool(m.tools[i].call, IF d = "openai" THEN m.tools[i].call ELSE i - 1,
                  d = "openai" => m.tools[i].first)]
    ELSE IF m.type = "content_block_start"
    THEN When(m.tool, Tool(m.block, Ordinal(m.block, Append(mem.tools, m.block)), TRUE))
    ELSE When(m.type = "content_block_delta" /\ m.json /\ Contains(mem.tools, m.block),
              Tool(m.block, Ordinal(m.block, mem.tools), FALSE))
Counted(d, m) ==
    /\ m.type \in {"chunk", "message_start", "message_delta"}
    /\ m.usage # NoUsage
    /\ d = "ollama" => m.finish # Unfinished
InputOf(m, mem) == IF m.type = "message_delta" THEN InputCount(m.usage, mem) ELSE Count(m.usage)
ReasonOf(d, m, mem) ==
    IF d = "openai" THEN mapFinishReason(m.finish)
    ELSE IF d = "anthropic" THEN mapStopReason(m.finish)
    ELSE mapOllamaFinishReason(HasToolCalls(m, mem), m.finish)

\* Every line yields its text, its tool calls, its usage and its finish, each
\* if it has it, in this order.
LEMMA LineParts ==
  ASSUME NEW d \in Parsed, NEW m \in LinesOf(d), NEW mem \in Memories
  PROVE  /\ ToolsOf(d, m, mem) \in Seq([type : {"tool"}, call : Nat, index : Int, named : BOOLEAN])
         /\ Counted(d, m) => Usage(InputOf(m, mem)) \in ParserEvents
         /\ Finishes(m) => Done(ReasonOf(d, m, mem)) \in ParserEvents
         /\ LineEvents(d, m, mem) =
               When(Speaks(m), Content)
               \o (ToolsOf(d, m, mem)
                   \o (When(Counted(d, m), Usage(InputOf(m, mem)))
                       \o When(Finishes(m), Done(ReasonOf(d, m, mem)))))
<1> DEFINE Tools == [type : {"tool"}, call : Nat, index : Int, named : BOOLEAN]
           A == When(Speaks(m), Content)
           T == ToolsOf(d, m, mem)
           U == When(Counted(d, m), Usage(InputOf(m, mem)))
           D == When(Finishes(m), Done(ReasonOf(d, m, mem)))
<1>0. /\ \A c \in Nat, i \in Int, n \in BOOLEAN : Tool(c, i, n) \in Tools
      /\ Content \in ParserEvents
  BY DEF Tool, Content, ParserEvents
<1>1. mem.tools \in Seq(Nat) /\ mem.usage \in Tokens \cup {Uncounted}
  BY DEF Memories
<1>2. Finishes(m) => Done(ReasonOf(d, m, mem)) \in ParserEvents
  BY DEF ReasonOf, mapFinishReason, mapStopReason, mapOllamaFinishReason, Done, ParserEvents
<1>3. Counted(d, m) => Usage(InputOf(m, mem)) \in ParserEvents
  <2>1. Counted(d, m) => m.usage \in Counts
    BY DEF Counted, LinesOf, BlockLines, ChunkLines, Junk, Parsed, Translated
  <2>2. \A u \in Counts : Count(u) \in Nat /\ InputCount(u, mem) \in Nat
    <3>1. \A u \in Counts : u \in Int
      BY StreamsAssumption DEF StreamsAssumption, Counts, Uncounted, NoUsage
    <3>2. \A u \in Int : Count(u) \in Nat
      BY DEF Count
    <3>3. mem.usage \in Counts
      BY <1>1 DEF Counts
    <3>4. QED
      BY <3>1, <3>2, <3>3 DEF InputCount
  <2>3. QED
    BY <2>1, <2>2 DEF InputOf, Usage, ParserEvents
<1>4. CASE m \in ChunkLines /\ d \in {"openai", "ollama"}
  <2>1. m.type = "chunk" /\ m.tools \in Seq(Fragments)
    BY <1>4 DEF ChunkLines
  <2> DEFINE index(i) == IF d = "openai" THEN m.tools[i].call ELSE i - 1
             named(i) == d = "openai" => m.tools[i].first
             event(i) == Tool(m.tools[i].call, index(i), named(i))
  <2>2. \A i \in DOMAIN m.tools : event(i) \in Tools
    <3>1. ASSUME NEW i \in DOMAIN m.tools
          PROVE  m.tools[i].call \in Nat /\ index(i) \in Int /\ named(i) \in BOOLEAN
      <4>1. m.tools[i] \in Fragments /\ i \in Int
        BY <2>1
      <4>2. QED
        BY <4>1 DEF Fragments
    <3>2. QED
      <4> HIDE DEF index, named
      <4>1. QED
        BY <1>0, <3>1
  <2>3. T = [i \in DOMAIN m.tools |-> event(i)]
    BY <2>1 DEF ToolsOf
  <2>4. T \in Seq(Tools)
    <3>1. DOMAIN m.tools = 1..Len(m.tools) /\ Len(m.tools) \in Nat
      BY <2>1
    <3> HIDE DEF event, T, Tools
    <3>2. QED
      BY <2>2, <2>3, <3>1
  <2>5. LineEvents(d, m, mem) = ((When(m.text, Content) \o T) \o U) \o D
    <3>1. CASE d = "openai"
      <4>1. T = [i \in DOMAIN m.tools |->
                   Tool(m.tools[i].call, m.tools[i].call, m.tools[i].first)]
        <5>1. \A i \in DOMAIN m.tools : m.tools[i].first \in BOOLEAN
          <6>1. \A i \in DOMAIN m.tools : m.tools[i] \in Fragments
            BY <2>1
          <6>2. QED
            BY <6>1 DEF Fragments
        <5>2. \A i \in DOMAIN m.tools :
                 event(i) = Tool(m.tools[i].call, m.tools[i].call, m.tools[i].first)
          BY <3>1, <5>1
        <5> HIDE DEF event, T
        <5>3. QED
          BY <2>3, <5>2
      <4>2. U = When(m.usage # NoUsage, Usage(Count(m.usage)))
            /\ D = When(m.finish # Unfinished, Done(mapFinishReason(m.finish)))
        BY <2>1, <3>1 DEF Counted, InputOf, Finishes, ReasonOf, When
      <4> HIDE DEF T, U, D
      <4>3. QED
        BY <2>1, <3>1, <4>1, <4>2 DEF LineEvents, OpenAiEvents
    <3>2. CASE d = "ollama"
      <4>1. T = [i \in DOMAIN m.tools |-> Tool(m.tools[i].call, i - 1, TRUE)]
        <5>1. \A i \in DOMAIN m.tools : event(i) = Tool(m.tools[i].call, i - 1, TRUE)
          BY <3>2
        <5> HIDE DEF event, T
        <5>2. QED
          BY <2>3, <5>1
      <4>2. U = When(m.finish # Unfinished /\ m.usage # NoUsage, Usage(Count(m.usage)))
            /\ D = When(m.finish # Unfinished,
                        Done(mapOllamaFinishReason(HasToolCalls(m, mem), m.finish)))
        BY <2>1, <3>2 DEF Counted, InputOf, Finishes, ReasonOf, When
      <4> HIDE DEF T, U, D
      <4>3. QED
        BY <2>1, <3>2, <4>1, <4>2 DEF LineEvents, OllamaEvents
    <3>3. QED
      BY <1>4, <3>1, <3>2
  <2>6. Speaks(m) <=> m.text
    <3>1. m.type # "content_block_delta"
      BY <2>1
    <3>2. QED
      BY <2>1, <3>1 DEF Speaks
  <2>7. A = When(m.text, Content)
    BY <2>6 DEF When
  <2>8. A \in Seq(ParserEvents) /\ U \in Seq(ParserEvents) /\ D \in Seq(ParserEvents)
    BY <1>0, <1>2, <1>3, WhenIsSeq
  <2>9. T \in Seq(ParserEvents)
    <3>1. Tools \subseteq ParserEvents
      BY DEF ParserEvents
    <3> HIDE DEF T, Tools
    <3>2. QED
      BY <2>4, <3>1
  <2> HIDE DEF A, T, U, D, Tools
  <2>10. LineEvents(d, m, mem) = A \o (T \o (U \o D))
    <3> DEFINE x == T \o U
    <3>1. x \in Seq(ParserEvents)
      BY <2>8, <2>9
    <3>2. (A \o T) \o U = A \o x
      BY <2>8, <2>9
    <3>3. x \o D = T \o (U \o D)
      BY <2>8, <2>9
    <3> HIDE DEF x
    <3>4. (A \o x) \o D = A \o (x \o D)
      BY <2>8, <3>1
    <3>5. QED
      BY <2>5, <2>7, <3>2, <3>3, <3>4
  <2>11. QED
    BY <1>2, <1>3, <2>4, <2>10 DEF A, T, U, D, Tools
<1>5. ASSUME m.type # "chunk"
      PROVE  T \in Seq(Tools)
  <2>1. CASE m.type = "content_block_start"
    <3>1. m.block \in Nat
      BY <2>1 DEF LinesOf, BlockLines, ChunkLines, Junk, Parsed, Translated
    <3>2. Append(mem.tools, m.block) \in Seq(Nat)
      BY <1>1, <3>1
    <3>3. Tool(m.block, Ordinal(m.block, Append(mem.tools, m.block)), TRUE) \in Tools
      BY <1>0, <3>1, <3>2, OrdinalIsFirst
    <3>4. QED
      BY <2>1, <3>3, WhenIsSeq DEF ToolsOf
  <2>2. CASE m.type = "content_block_delta"
    <3>1. m.block \in Nat
      BY <2>2 DEF LinesOf, BlockLines, ChunkLines, Junk, Parsed, Translated
    <3>2. Tool(m.block, Ordinal(m.block, mem.tools), FALSE) \in Tools
      BY <1>0, <1>1, <3>1, OrdinalIsFirst
    <3>3. QED
      BY <2>2, <3>2, WhenIsSeq DEF ToolsOf
  <2>3. CASE m.type \notin {"content_block_start", "content_block_delta"}
    BY <1>5, <2>3 DEF ToolsOf, When
  <2>4. QED
    BY <2>1, <2>2, <2>3
<1>6. ASSUME NEW x, x \in Seq(ParserEvents) \/ x \in Seq(Tools)
      PROVE  <<>> \o x = x /\ x \o <<>> = x
  BY <1>6
<1>7. CASE m = Junk
  <2>1. m.type = "junk"
    BY <1>7 DEF Junk
  <2>2. LineEvents(d, m, mem) = <<>>
    BY <2>1 DEF LineEvents, OpenAiEvents, AnthropicEvents, OllamaEvents, Parsed
  <2>3. A = <<>> /\ T = <<>> /\ U = <<>> /\ D = <<>>
    BY <2>1 DEF Speaks, ToolsOf, Counted, Finishes, When
  <2>4. <<>> = <<>> \o (<<>> \o (<<>> \o <<>>))
    OBVIOUS
  <2> HIDE DEF A, T, U, D, Tools
  <2>5. T \in Seq(Tools) /\ LineEvents(d, m, mem) = A \o (T \o (U \o D))
    BY <1>5, <2>1, <2>2, <2>3, <2>4
  <2>6. QED
    BY <1>2, <1>3, <2>5 DEF A, T, U, D, Tools
<1>8. CASE m \in BlockLines /\ d = "anthropic"
  <2>1. LineEvents(d, m, mem) = AnthropicEvents(m, mem)
    BY <1>8 DEF LineEvents
  <2>2. m.type # "chunk"
    BY <1>8 DEF BlockLines
  <2>3. /\ A \in Seq(ParserEvents) /\ U \in Seq(ParserEvents) /\ D \in Seq(ParserEvents)
        /\ T \in Seq(Tools)
    BY <1>0, <1>2, <1>3, <1>5, <2>2, WhenIsSeq
  <2>4. LineEvents(d, m, mem) = A \o (T \o (U \o D))
    <3>1. CASE m.type = "message_start"
      <4>1. A = <<>> /\ T = <<>> /\ D = <<>>
        BY <3>1 DEF Speaks, ToolsOf, Finishes, When
      <4>2. U = When(m.usage # NoUsage, Usage(Count(m.usage)))
        BY <1>8, <3>1 DEF Counted, InputOf, When
      <4>3. AnthropicEvents(m, mem) = When(m.usage # NoUsage, Usage(Count(m.usage)))
        BY <3>1 DEF AnthropicEvents
      <4> HIDE DEF A, T, U, D, Tools
      <4>4. <<>> \o (<<>> \o (U \o <<>>)) = U
        BY <2>3
      <4>5. QED
        BY <2>1, <4>1, <4>2, <4>3, <4>4
    <3>2. CASE m.type = "content_block_start"
      <4>1. A = <<>> /\ U = <<>> /\ D = <<>>
        BY <3>2 DEF Speaks, Counted, Finishes, When
      <4>2. T = When(m.tool, Tool(m.block, Ordinal(m.block, Append(mem.tools, m.block)), TRUE))
        BY <3>2 DEF ToolsOf
      <4>3. AnthropicEvents(m, mem) = T
        <5> HIDE DEF T
        <5>1. QED
          BY <3>2, <4>2 DEF AnthropicEvents
      <4> HIDE DEF A, T, U, D, Tools
      <4>4. <<>> \o (T \o (<<>> \o <<>>)) = T
        BY <2>3
      <4>5. QED
        BY <2>1, <4>1, <4>3, <4>4
    <3>3. CASE m.type = "content_block_delta" /\ m.json
      <4>1. A = <<>> /\ U = <<>> /\ D = <<>>
        BY <3>3 DEF Speaks, Counted, Finishes, When
      <4>2. T = When(Contains(mem.tools, m.block),
                     Tool(m.block, Ordinal(m.block, mem.tools), FALSE))
        BY <3>3 DEF ToolsOf, When
      <4>3. AnthropicEvents(m, mem) = T
        <5> HIDE DEF T
        <5>1. QED
          BY <3>3, <4>2 DEF AnthropicEvents
      <4> HIDE DEF A, T, U, D, Tools
      <4>4. <<>> \o (T \o (<<>> \o <<>>)) = T
        BY <2>3
      <4>5. QED
        BY <2>1, <4>1, <4>3, <4>4
    <3>4. CASE m.type = "content_block_delta" /\ ~m.json
      <4>1. T = <<>> /\ U = <<>> /\ D = <<>>
        BY <3>4 DEF ToolsOf, Counted, Finishes, When
      <4>2. A = <<Content>>
        BY <3>4 DEF Speaks, When
      <4>3. AnthropicEvents(m, mem) = <<Content>>
        BY <3>4 DEF AnthropicEvents
      <4> HIDE DEF A, T, U, D, Tools
      <4>4. A \o (<<>> \o (<<>> \o <<>>)) = A
        BY <2>3
      <4>5. QED
        BY <2>1, <4>1, <4>2, <4>3, <4>4
    <3>5. CASE m.type = "message_delta"
      <4>1. A = <<>> /\ T = <<>>
        BY <3>5 DEF Speaks, ToolsOf, When
      <4>2. U = When(m.usage # NoUsage, Usage(InputCount(m.usage, mem)))
            /\ D = When(m.finish # Unfinished, Done(mapStopReason(m.finish)))
        BY <1>8, <3>5 DEF Counted, InputOf, Finishes, ReasonOf, When
      <4>3. AnthropicEvents(m, mem) = U \o D
        <5> HIDE DEF U, D
        <5>1. QED
          BY <3>5, <4>2 DEF AnthropicEvents
      <4> HIDE DEF A, T, U, D, Tools
      <4>4. <<>> \o (<<>> \o (U \o D)) = U \o D
        BY <2>3
      <4>5. QED
        BY <2>1, <4>1, <4>3, <4>4
    <3>6. QED
      BY <1>8, <3>1, <3>2, <3>3, <3>4, <3>5 DEF BlockLines
  <2> HIDE DEF A, T, U, D, Tools
  <2>5. QED
    BY <1>2, <1>3, <2>3, <2>4 DEF A, T, U, D, Tools
<1>9. QED
  BY <1>4, <1>7, <1>8 DEF LinesOf, Parsed, Translated

\* The places of a type in two sequences put together.
LEMMA PlacesOfConcat ==
  ASSUME NEW S, NEW x \in Seq(S), NEW z \in Seq(S), NEW type
  PROVE  /\ x \o z \in Seq(S) /\ Len(x \o z) = Len(x) + Len(z)
         /\ \A i \in 1..Len(x) : (x \o z)[i] = x[i]
         /\ \A j \in 1..Len(z) : (x \o z)[Len(x) + j] = z[j]
         /\ Places(x, type) \subseteq 1..Len(x)
         /\ Places(z, type) \subseteq 1..Len(z)
         /\ \A i \in 1..Len(x) : i \in Places(x \o z, type) <=> i \in Places(x, type)
         /\ \A j \in 1..Len(z) : Len(x) + j \in Places(x \o z, type) <=> j \in Places(z, type)
         /\ \A i \in Places(x \o z, type) : i \in 1..Len(x) \/ i - Len(x) \in 1..Len(z)
<1> DEFINE y == x \o z
<1>1. /\ y \in Seq(S) /\ Len(y) = Len(x) + Len(z) /\ Len(x) \in Nat /\ Len(z) \in Nat
      /\ DOMAIN x = 1..Len(x) /\ DOMAIN z = 1..Len(z) /\ DOMAIN y = 1..Len(x) + Len(z)
      /\ \A i \in 1..Len(x) : y[i] = x[i]
      /\ \A j \in 1..Len(z) : y[Len(x) + j] = z[j]
  OBVIOUS
<1> HIDE DEF y
<1>2. Places(x, type) \subseteq 1..Len(x) /\ Places(z, type) \subseteq 1..Len(z)
  BY <1>1 DEF Places
<1>3. \A i \in 1..Len(x) : i \in DOMAIN y /\ (i \in Places(y, type) <=> i \in Places(x, type))
  BY <1>1 DEF Places
<1>4. ASSUME NEW j \in 1..Len(z)
      PROVE  Len(x) + j \in Places(y, type) <=> j \in Places(z, type)
  <2>1. Len(x) + j \in DOMAIN y /\ y[Len(x) + j] = z[j]
    BY <1>1
  <2>2. QED
    BY <1>1, <2>1 DEF Places
<1>5. \A i \in Places(y, type) : i \in 1..Len(x) \/ i - Len(x) \in 1..Len(z)
  <2>1. \A i \in 1..Len(x) + Len(z) : i \in 1..Len(x) \/ i - Len(x) \in 1..Len(z)
    BY <1>1
  <2>2. QED
    BY <1>1, <2>1 DEF Places
<1>6. QED
  BY <1>1, <1>2, <1>3, <1>4, <1>5 DEF y

\* y is x and more events, none of them of a type.
Kept(x, y, type) ==
    /\ Places(y, type) = Places(x, type)
    /\ \A i \in Places(x, type) : y[i] = x[i]

\* y is x and more events, among which one of a type, if b, which is e.
Gained(x, y, type, b, e) ==
    /\ \A i \in Places(x, type) : y[i] = x[i]
    /\ IF b
       THEN \E p \in Nat : /\ \A i \in Places(x, type) : i < p
                           /\ Places(y, type) = Places(x, type) \cup {p}
                           /\ y[p] = e
       ELSE Places(y, type) = Places(x, type)

\* What an event of another type leaves alone, and what its own gains.
LEMMA GainedWhen ==
  ASSUME NEW S, NEW x \in Seq(S), NEW b \in BOOLEAN, NEW e, b => e \in S, NEW type
  PROVE  LET y == x \o When(b, e)
         IN  /\ y \in Seq(S)
             /\ e.type = type => Gained(x, y, type, b, e)
             /\ e.type # type => Kept(x, y, type)
<1> DEFINE y == x \o When(b, e)
<1>1. CASE ~b
  <2>1. When(b, e) = <<>>
    BY <1>1 DEF When
  <2>2. y = x
    BY <2>1
  <2> HIDE DEF y
  <2>3. QED
    BY <1>1, <2>2 DEF Gained, Kept, y
<1>2. CASE b
  <2>1. y = Append(x, e)
    BY <1>2 DEF When
  <2>2. /\ Places(y, type) = Places(x, type) \cup (IF e.type = type THEN {Len(x) + 1} ELSE {})
        /\ Places(x, type) \subseteq 1..Len(x)
        /\ \A i \in Places(x, type) : y[i] = x[i]
        /\ y[Len(x) + 1] = e
    <3> HIDE DEF y
    <3>1. /\ Places(Append(x, e), type)
                = Places(x, type) \cup (IF e.type = type THEN {Len(x) + 1} ELSE {})
          /\ Places(x, type) \subseteq 1..Len(x)
          /\ \A i \in Places(x, type) : Append(x, e)[i] = x[i]
          /\ Append(x, e)[Len(x) + 1] = e
      BY PlacesOn
    <3>2. QED
      BY <2>1, <3>1
  <2>3. y \in Seq(S) /\ Len(x) + 1 \in Nat /\ Len(x) \in Nat
    <3> HIDE DEF y
    <3>1. e \in S
      BY <1>2
    <3>2. QED
      BY <2>1, <3>1
  <2> HIDE DEF y
  <2>4. CASE e.type = type
    <3>1. \A i \in Places(x, type) : i < Len(x) + 1
      BY <2>2, <2>3
    <3>2. Gained(x, y, type, b, e)
      BY <1>2, <2>2, <2>3, <2>4, <3>1 DEF Gained, Kept
    <3>3. QED
      BY <2>3, <2>4, <3>2 DEF y
  <2>5. CASE e.type # type
    BY <2>2, <2>3, <2>5 DEF Gained, Kept, y
  <2>6. QED
    BY <2>4, <2>5
<1>3. QED
  BY <1>1, <1>2

\* What a sequence of tool call events adds.
LEMMA GainedTools ==
  ASSUME NEW S, NEW x \in Seq(S), NEW z \in Seq(S), NEW type,
         \A i \in 1..Len(z) : z[i].type = "tool"
  PROVE  LET y == x \o z
         IN  /\ y \in Seq(S)
             /\ type # "tool" => Kept(x, y, type)
             /\ type = "tool" => (Places(y, type) = {} <=> Places(x, type) = {} /\ z = <<>>)
<1> DEFINE y == x \o z
<1>1. Len(x) \in Nat /\ Len(z) \in Nat /\ (Len(z) = 0 => z = <<>>) /\ (z = <<>> => Len(z) = 0)
  OBVIOUS
<1>2. /\ y \in Seq(S)
      /\ \A i \in 1..Len(x) : y[i] = x[i]
      /\ Places(x, type) \subseteq 1..Len(x)
      /\ \A i \in 1..Len(x) : i \in Places(y, type) <=> i \in Places(x, type)
      /\ \A j \in 1..Len(z) : Len(x) + j \in Places(y, type) <=> j \in Places(z, type)
      /\ \A i \in Places(y, type) : i \in 1..Len(x) \/ i - Len(x) \in 1..Len(z)
  BY PlacesOfConcat
<1>3. \A j \in 1..Len(z) : j \in Places(z, type) <=> type = "tool"
  BY DEF Places
<1> HIDE DEF y
<1>4. ASSUME type # "tool"
      PROVE  Places(y, type) = Places(x, type)
  <2>1. ASSUME NEW i \in Places(y, type), i \notin 1..Len(x)
        PROVE  FALSE
    <3>1. i - Len(x) \in 1..Len(z)
      BY <1>2, <2>1
    <3> DEFINE j == i - Len(x)
    <3>2. i \in Int /\ i = Len(x) + j
      <4>1. DOMAIN y = 1..Len(y) /\ Len(y) \in Nat
        BY <1>2
      <4>2. i \in Int
        BY <4>1 DEF Places
      <4>3. QED
        BY <1>1, <4>2
    <3> HIDE DEF j
    <3>3. j \in Places(z, type)
      BY <1>2, <3>1, <3>2 DEF j
    <3>4. QED
      BY <1>3, <1>4, <3>1, <3>3 DEF j
  <2>2. QED
    BY <1>2, <2>1
<1>5. ASSUME type = "tool"
      PROVE  Places(y, type) = {} <=> Places(x, type) = {} /\ z = <<>>
  <2>1. Places(x, type) \subseteq Places(y, type)
    BY <1>2
  <2>2. ASSUME z # <<>>
        PROVE  Places(y, type) # {}
    <3>1. 1 \in 1..Len(z)
      BY <1>1, <2>2
    <3>2. QED
      BY <1>2, <1>3, <1>5, <3>1
  <2>3. ASSUME z = <<>>
        PROVE  Places(y, type) \subseteq Places(x, type)
    <3>1. Len(z) = 0
      BY <1>1, <2>3
    <3>2. QED
      BY <1>2, <3>1
  <2>4. QED
    BY <2>1, <2>2, <2>3
<1>6. QED
  BY <1>2, <1>4, <1>5 DEF Gained, Kept, y

\* What is gained of a type in two steps, one of which gains nothing of it.
LEMMA GainedTwice ==
  ASSUME NEW x, NEW y, NEW z, NEW type, NEW b, NEW e
  PROVE  /\ Kept(x, y, type) /\ Kept(y, z, type) => Kept(x, z, type)
         /\ Kept(x, y, type) /\ Gained(y, z, type, b, e) => Gained(x, z, type, b, e)
         /\ Gained(x, y, type, b, e) /\ Kept(y, z, type) => Gained(x, z, type, b, e)
  BY DEF Kept, Gained

\* What a line adds to the events before it.
LEMMA LineAdds ==
  ASSUME NEW d \in Parsed, NEW m \in LinesOf(d), NEW mem \in Memories,
         NEW x \in Seq(ParserEvents)
  PROVE  LET y == x \o LineEvents(d, m, mem)
         IN  /\ Gained(x, y, "done", Finishes(m), Done(ReasonOf(d, m, mem)))
             /\ Gained(x, y, "usage", Counted(d, m), Usage(InputOf(m, mem)))
             /\ Places(y, "tool") = {} <=> Places(x, "tool") = {} /\ ToolsOf(d, m, mem) = <<>>
<1> DEFINE Tools == [type : {"tool"}, call : Nat, index : Int, named : BOOLEAN]
           A == When(Speaks(m), Content)
           T == ToolsOf(d, m, mem)
           u == Usage(InputOf(m, mem))
           U == When(Counted(d, m), u)
           e == Done(ReasonOf(d, m, mem))
           D == When(Finishes(m), e)
           x1 == x \o A
           x2 == x1 \o T
           x3 == x2 \o U
           x4 == x3 \o D
<1>1. /\ T \in Seq(Tools) /\ (Counted(d, m) => u \in ParserEvents)
      /\ (Finishes(m) => e \in ParserEvents)
      /\ LineEvents(d, m, mem) = A \o (T \o (U \o D))
  BY LineParts
<1>2. Content \in ParserEvents /\ Content.type = "content" /\ u.type = "usage" /\ e.type = "done"
  BY DEF Content, ParserEvents, Usage, Done
<1>3. Finishes(m) \in BOOLEAN /\ Counted(d, m) \in BOOLEAN
  BY DEF Finishes, Counted
<1>4. \A i \in 1..Len(T) : T[i].type = "tool"
  <2> HIDE DEF T, Tools
  <2>1. \A i \in 1..Len(T) : T[i] \in Tools
    BY <1>1
  <2>2. QED
    BY <2>1 DEF Tools
<1>5. T \in Seq(ParserEvents)
  <2>1. Tools \subseteq ParserEvents
    BY DEF ParserEvents
  <2> HIDE DEF T, Tools
  <2>2. QED
    BY <1>1, <2>1
<1>6. A \in Seq(ParserEvents) /\ U \in Seq(ParserEvents) /\ D \in Seq(ParserEvents)
  BY <1>1, <1>2, WhenIsSeq
<1> DEFINE speaks == IF Speaks(m) THEN TRUE ELSE FALSE
<1>7. speaks \in BOOLEAN /\ A = When(speaks, Content)
  BY DEF When
<1> HIDE DEF T, u, e, Tools, speaks
<1>8. /\ x1 \in Seq(ParserEvents)
      /\ \A type : type # "content" => Kept(x, x1, type)
  <2>1. ASSUME NEW type, type # "content"
        PROVE  x1 \in Seq(ParserEvents) /\ Kept(x, x1, type)
    <3> HIDE DEF A
    <3>1. QED
      BY <1>2, <1>7, <2>1, GainedWhen
  <2>2. "done" # "content"
    OBVIOUS
  <2> HIDE DEF x1
  <2>3. QED
    BY <2>1, <2>2
<1> HIDE DEF A, x1
<1>9. /\ x2 \in Seq(ParserEvents)
      /\ \A type : type # "tool" => Kept(x1, x2, type)
      /\ Places(x2, "tool") = {} <=> Places(x1, "tool") = {} /\ T = <<>>
  BY <1>4, <1>5, <1>8, GainedTools
<1> HIDE DEF x2
<1>10. /\ x3 \in Seq(ParserEvents)
       /\ Gained(x2, x3, "usage", Counted(d, m), u)
       /\ \A type : type # "usage" => Kept(x2, x3, type)
  BY <1>1, <1>2, <1>3, <1>9, GainedWhen
<1> HIDE DEF U, x3
<1>11. /\ Gained(x3, x4, "done", Finishes(m), e)
       /\ \A type : type # "done" => Kept(x3, x4, type)
  BY <1>1, <1>2, <1>3, <1>10, GainedWhen
<1>12. x \o LineEvents(d, m, mem) = x4
  <2> DEFINE z == T \o (U \o D)
             w == U \o D
  <2>1. w \in Seq(ParserEvents) /\ z \in Seq(ParserEvents)
    BY <1>5, <1>6 DEF U
  <2>2. x3 \o D = x2 \o w
    BY <1>6, <1>9 DEF x3, U
  <2> HIDE DEF w
  <2>3. x2 \o w = x1 \o (T \o w)
    BY <1>5, <1>8, <2>1 DEF x2
  <2>4. x1 \o (T \o w) = x \o (A \o (T \o w))
    <3> DEFINE v == T \o w
    <3>1. v \in Seq(ParserEvents)
      BY <1>5, <2>1
    <3> HIDE DEF v
    <3>2. x1 \o v = x \o (A \o v)
      BY <1>6, <3>1 DEF x1, A
    <3>3. QED
      BY <3>2 DEF v
  <2>5. QED
    BY <1>1, <2>2, <2>3, <2>4 DEF w
<1> HIDE DEF D, x4
<1>13. Gained(x, x4, "done", Finishes(m), e)
  <2>1. Kept(x, x2, "done")
    BY <1>8, <1>9, GainedTwice
  <2>2. Kept(x, x3, "done")
    BY <1>10, <2>1, GainedTwice
  <2>3. QED
    BY <1>3, <1>11, <2>2, GainedTwice
<1>14. Gained(x, x4, "usage", Counted(d, m), u)
  <2>1. Kept(x, x2, "usage")
    BY <1>8, <1>9, GainedTwice
  <2>2. Gained(x, x3, "usage", Counted(d, m), u)
    BY <1>3, <1>10, <2>1, GainedTwice
  <2>3. QED
    BY <1>3, <1>11, <2>2, GainedTwice
<1>15. Places(x4, "tool") = {} <=> Places(x, "tool") = {} /\ T = <<>>
  BY <1>8, <1>9, <1>10, <1>11 DEF Gained, Kept
<1>16. QED
  BY <1>12, <1>13, <1>14, <1>15 DEF T, u, e

-----------------------------------------------------------------------------
(* How a body finishes. *)

HasCalls(s) == IF dialect = "anthropic" THEN ToolStarts(s) # {} ELSE Begun(s) # {}

\* What has been sent when one more line is sent.
LEMMA CallsOn ==
  ASSUME dialect \in Parsed, NEW s \in Seq(LinesOf(dialect)), NEW m \in LinesOf(dialect)
  PROVE  /\ Finished(Append(s, m)) <=> Finished(s) \/ Finishes(m)
         /\ HasCalls(Append(s, m)) <=> HasCalls(s) \/ MakesCall(m)
<1>1. Finished(Append(s, m)) <=> Finished(s) \/ Finishes(m)
  <2>1. ToSet(Append(s, m)) = ToSet(s) \cup {m}
    BY BegunOn
  <2>2. QED
    BY <2>1 DEF Finished, Finishes
<1>2. ASSUME dialect # "anthropic"
      PROVE  HasCalls(Append(s, m)) <=> HasCalls(s) \/ MakesCall(m)
  <2>1. m = Junk \/ m \in ChunkLines
    BY <1>2 DEF LinesOf, Parsed, Translated
  <2>2. Begun(Append(s, m)) = Begun(s) \cup (IF m.type = "chunk" THEN CallsOf(m) ELSE {})
    BY BegunOn
  <2>3. CASE m = Junk
    BY <1>2, <2>2, <2>3 DEF Junk, MakesCall, HasCalls
  <2>4. CASE m \in ChunkLines
    <3>1. m.type = "chunk" /\ m.tools \in Seq(Fragments)
      BY <2>4 DEF ChunkLines
    <3>2. CallsOf(m) # {} <=> m.tools # <<>>
      <4>1. ASSUME m.tools # <<>> PROVE CallsOf(m) # {}
        <5>1. 1 \in DOMAIN m.tools
          BY <3>1, <4>1
        <5>2. QED
          BY <5>1 DEF CallsOf
      <4>2. ASSUME m.tools = <<>> PROVE CallsOf(m) = {}
        BY <4>2 DEF CallsOf
      <4>3. QED
        BY <4>1, <4>2
    <3>3. QED
      BY <1>2, <2>2, <3>1, <3>2 DEF MakesCall, HasCalls
  <2>5. QED
    BY <2>1, <2>3, <2>4
<1>3. ASSUME dialect = "anthropic"
      PROVE  HasCalls(Append(s, m)) <=> HasCalls(s) \/ MakesCall(m)
  <2> DEFINE t == Append(s, m)
             starts == Places(s, "content_block_start")
  <2>1. m.type # "chunk"
    BY <1>3 DEF LinesOf, BlockLines, Junk, Translated
  <2>2. /\ Places(t, "content_block_start")
              = starts \cup (IF m.type = "content_block_start" THEN {Len(s) + 1} ELSE {})
        /\ \A i \in starts : t[i] = s[i]
        /\ t[Len(s) + 1] = m
    BY PlacesOn
  <2> HIDE DEF t
  <2>3. ToolStarts(t) = ToolStarts(s) \cup (IF m.type = "content_block_start" /\ m.tool
                                          THEN {Len(s) + 1} ELSE {})
    BY <2>2 DEF ToolStarts
  <2>4. MakesCall(m) <=> m.type = "content_block_start" /\ m.tool
    BY <2>1 DEF MakesCall
  <2>5. ToolStarts(t) # {} <=> ToolStarts(s) # {} \/ MakesCall(m)
    BY <2>3, <2>4
  <2>6. QED
    BY <1>3, <2>5 DEF HasCalls, t
<1>4. QED
  BY <1>1, <1>2, <1>3

\* Nothing but usage follows the finish, and the finish says what came before.
LEMMA FinishSent ==
  ASSUME StreamsAssumption, dialect \in Parsed,
         NEW s \in Seq(LinesOf(dialect)), Sent(s),
         NEW m \in LinesOf(dialect), m \in Lines(s), NEW mem
  PROVE  /\ Finished(s) => ~Finishes(m) /\ ~MakesCall(m)
         /\ dialect # "ollama" /\ Finishes(m) =>
               /\ ~MakesCall(m)
               /\ ReasonOf(dialect, m, mem) = "tool_calls" => HasCalls(s)
               /\ ReasonOf(dialect, m, mem) = "stop" => ~HasCalls(s)
<1> DEFINE OnlyBefore == ~Finished(s)
           Fits == /\ ~MakesCall(m)
                   /\ ReasonOf(dialect, m, mem) = "tool_calls" => HasCalls(s)
                   /\ ReasonOf(dialect, m, mem) = "stop" => ~HasCalls(s)
<1>0. \A t, u, f : /\ Wordless(t, u, f).type = "chunk" /\ Wordless(t, u, f).tools = t
                   /\ Wordless(t, u, f).finish = f
  BY DEF Wordless, Chunk
<1>1. CASE m = Junk
  BY <1>1 DEF Junk, Finishes, MakesCall
<1>2. CASE dialect = "openai" /\ m # Junk
  <2>1. m \in OpenAiLines(s)
    BY <1>2 DEF Lines
  <2>2. CASE Finished(s)
    <3>1. \E u \in Tokens : m = Wordless(<<>>, u, Unfinished)
      BY <2>1, <2>2 DEF OpenAiLines
    <3>2. m.tools = <<>> /\ m.finish = Unfinished /\ m.type = "chunk"
      BY <1>0, <3>1
    <3>3. QED
      BY <3>2 DEF Finishes, MakesCall
  <2>3. CASE ~Finished(s)
    <3> DEFINE n == Cardinality(Begun(s))
    <3>1. n > 0 <=> Begun(s) # {}
      <4>1. PICK k \in 0..MaxCalls : Begun(s) = 0..k - 1
        BY <1>2, BegunIs
      <4>2. k \in Nat
        BY DEF StreamsAssumption
      <4>3. Cardinality(0..k - 1) = k
        BY <4>2, FS_Interval
      <4>4. 0..k - 1 # {} <=> k > 0
        <5>1. k > 0 => 0 \in 0..k - 1
          BY <4>2
        <5>2. ~(k > 0) => 0..k - 1 = {}
          BY <4>2
        <5>3. QED
          BY <5>1, <5>2
      <4>5. QED
        BY <4>1, <4>3, <4>4
    <3>2. ASSUME Finishes(m)
          PROVE  \E u, r : /\ m = Wordless(<<>>, u, r)
                           /\ r \in {"length", IF n > 0 THEN "tool_calls" ELSE "stop"}
      <4>1. \/ m = TextChunk
            \/ \E b \in Begun(s) : m = Wordless(<<MoreOf(b)>>, NoUsage, Unfinished)
            \/ \E k \in {j \in 1..2 : n + j <= MaxCalls} :
                  m = Wordless(NewCalls(n, k), NoUsage, Unfinished)
            \/ \E u \in Tokens \cup {NoUsage},
                  r \in {"length", IF n > 0 THEN "tool_calls" ELSE "stop"} :
                  m = Wordless(<<>>, u, r)
        BY <2>1, <2>3 DEF OpenAiLines
      <4>2. m # TextChunk
        BY <3>2 DEF TextChunk, Chunk, Finishes
      <4>3. \A t : m # Wordless(t, NoUsage, Unfinished)
        BY <1>0, <3>2 DEF Finishes
      <4>4. QED
        BY <4>1, <4>2, <4>3
    <3>3. ASSUME Finishes(m)
          PROVE  Fits
      <4>1. PICK u, r : /\ m = Wordless(<<>>, u, r)
                        /\ r \in {"length", IF n > 0 THEN "tool_calls" ELSE "stop"}
        BY <3>2, <3>3
      <4>2. m.type = "chunk" /\ m.tools = <<>> /\ m.finish = r
        BY <1>0, <4>1
      <4>3. ReasonOf(dialect, m, mem) = r
        BY <1>2, <4>1, <4>2 DEF ReasonOf, mapFinishReason
      <4>4. ~MakesCall(m)
        BY <4>2 DEF MakesCall
      <4>5. HasCalls(s) <=> n > 0
        BY <1>2, <3>1 DEF HasCalls
      <4> HIDE DEF n
      <4>6. QED
        BY <4>1, <4>3, <4>4, <4>5
    <3>4. QED
      BY <2>3, <3>3
  <2>4. QED
    BY <2>2, <2>3
<1>3. CASE dialect = "ollama" /\ m # Junk
  <2>1. m \in OllamaLines(s)
    BY <1>3 DEF Lines
  <2>2. ~Finished(s)
    BY <2>1 DEF OllamaLines
  <2>3. QED
    BY <1>3, <2>2
<1>4. CASE dialect = "anthropic" /\ m # Junk
  <2>1. m \in AnthropicLines(s)
    BY <1>4 DEF Lines
  <2> DEFINE k == Cardinality(ToolStarts(s))
             opened == Places(s, "message_start")
  <2>2. k > 0 <=> ToolStarts(s) # {}
    <3>1. IsFiniteSet(ToolStarts(s))
      <4>1. ToolStarts(s) \subseteq Places(s, "content_block_start")
        BY DEF ToolStarts
      <4>2. IsFiniteSet(Places(s, "content_block_start"))
        BY PlacesOn
      <4>3. QED
        BY <4>1, <4>2, FS_Subset
    <3>2. k \in Nat /\ (k = 0 <=> ToolStarts(s) = {})
      BY <3>1, FS_CardinalityType, FS_EmptySet
    <3>3. QED
      BY <3>2
  <2>3. CASE m.type # "message_delta" /\ ~MakesCall(m)
    <3>1. ~Finishes(m)
      BY <1>4, <2>3 DEF Finishes, LinesOf, BlockLines, Junk, Translated
    <3>2. QED
      BY <2>3, <3>1
  <2>4. CASE m.type = "message_delta" \/ MakesCall(m)
    <3>1. opened # {} /\ ~Finished(s)
      <4>1. \A u : MessageStart(u).type = "message_start"
        BY DEF MessageStart
      <4>2. m.type # "message_start"
        BY <2>4 DEF MakesCall
      <4>3. opened # {}
        BY <2>1, <4>1, <4>2 DEF AnthropicLines
      <4>4. ~Finished(s)
        BY <2>1, <4>3 DEF AnthropicLines
      <4>5. QED
        BY <4>3, <4>4
    <3>2. ASSUME Finishes(m)
          PROVE  \E u, r : /\ m = MessageDelta(u, r)
                           /\ r \in {"max_tokens", IF k > 0 THEN "tool_use" ELSE "end_turn"}
      <4>1. m.type = "message_delta"
        BY <1>4, <3>2 DEF Finishes, LinesOf, BlockLines, Junk, Translated
      <4>2. /\ \A b : TextBlock(b).type # "message_delta" /\ ToolBlock(b).type # "message_delta"
            /\ \A b : JsonDelta(b).type # "message_delta" /\ TextDelta(b).type # "message_delta"
        BY DEF TextBlock, ToolBlock, JsonDelta, TextDelta
      <4>3. \/ \E b : m \in {TextBlock(b), ToolBlock(b), JsonDelta(b), TextDelta(b)}
            \/ \E u, r : /\ m = MessageDelta(u, r)
                         /\ r \in {"max_tokens", IF k > 0 THEN "tool_use" ELSE "end_turn"}
        BY <2>1, <3>1 DEF AnthropicLines
      <4>4. QED
        BY <4>1, <4>2, <4>3
    <3>3. ASSUME Finishes(m)
          PROVE  Fits
      <4>1. PICK u, r : /\ m = MessageDelta(u, r)
                        /\ r \in {"max_tokens", IF k > 0 THEN "tool_use" ELSE "end_turn"}
        BY <3>2, <3>3
      <4>2. m.type = "message_delta" /\ m.finish = r
        BY <4>1 DEF MessageDelta
      <4>3. ReasonOf(dialect, m, mem) = mapStopReason(r)
        BY <1>4, <4>2 DEF ReasonOf
      <4>4. ~MakesCall(m)
        BY <4>2 DEF MakesCall
      <4>5. HasCalls(s) <=> k > 0
        BY <1>4, <2>2 DEF HasCalls
      <4> HIDE DEF k
      <4>6. QED
        BY <4>1, <4>3, <4>4, <4>5 DEF mapStopReason
    <3>4. QED
      BY <3>1, <3>3
  <2>5. QED
    BY <2>3, <2>4
<1>5. QED
  BY <1>1, <1>2, <1>3, <1>4 DEF Parsed

\* When a line yields tool calls, and what it leaves of them in memory.
LEMMA ToolsOfLine ==
  ASSUME dialect \in Parsed, NEW m \in LinesOf(dialect), NEW mem \in Memories
  PROVE  LET d == dialect
             after == Remembered(d, m, mem)
         IN  /\ MakesCall(m) => ToolsOf(d, m, mem) # <<>>
             /\ ToolsOf(d, m, mem) # <<>> => MakesCall(m) \/ (d = "anthropic" /\ mem.tools # <<>>)
             /\ d = "ollama" => (after.seenToolCalls <=> mem.seenToolCalls \/ MakesCall(m))
             /\ d = "anthropic" => (after.tools # <<>> <=> mem.tools # <<>> \/ MakesCall(m))
<1> DEFINE d == dialect
           after == Remembered(d, m, mem)
           Tools == [type : {"tool"}, call : Nat, index : Int, named : BOOLEAN]
<1>1. mem.tools \in Seq(Nat) /\ mem.seenToolCalls \in BOOLEAN
  BY DEF Memories
<1>2. CASE m = Junk
  <2>1. m.type = "junk"
    BY <1>2 DEF Junk
  <2>2. ToolsOf(d, m, mem) = <<>> /\ ~MakesCall(m) /\ after = mem
    BY <2>1 DEF ToolsOf, MakesCall, Remembered, TakesOrdinal, When
  <2>3. QED
    BY <2>2
<1>3. CASE m \in ChunkLines /\ d # "anthropic"
  <2>1. m.type = "chunk" /\ m.tools \in Seq(Fragments)
    BY <1>3 DEF ChunkLines
  <2>2. MakesCall(m) <=> m.tools # <<>>
    BY <2>1 DEF MakesCall
  <2>3. m.tools # <<>> <=> DOMAIN m.tools # {}
    <3>1. m.tools # <<>> => 1 \in DOMAIN m.tools
      BY <2>1
    <3>2. QED
      BY <2>1, <3>1
  <2>4. DOMAIN ToolsOf(d, m, mem) = DOMAIN m.tools
    BY <2>1 DEF ToolsOf
  <2>5. ToolsOf(d, m, mem) # <<>> <=> m.tools # <<>>
    <3> DEFINE T == ToolsOf(d, m, mem)
    <3>1. T \in Seq(Tools)
      BY LineParts
    <3>2. T # <<>> => 1 \in DOMAIN T
      <4> HIDE DEF T, Tools
      <4>1. QED
        BY <3>1
    <3>3. QED
      BY <2>3, <2>4, <3>2
  <2>6. d = "ollama" => after = [mem EXCEPT !.seenToolCalls = HasToolCalls(m, mem)]
    BY <2>1 DEF Remembered, TakesOrdinal
  <2>7. d = "ollama" => after.seenToolCalls = (mem.seenToolCalls \/ m.tools # <<>>)
    BY <2>6 DEF HasToolCalls, Memories
  <2>8. QED
    BY <1>3, <2>2, <2>5, <2>7
<1>4. CASE m \in BlockLines /\ d = "anthropic"
  <2>1. CASE m.type = "content_block_start"
    <3>1. MakesCall(m) <=> m.tool
      BY <2>1 DEF MakesCall
    <3>2. ToolsOf(d, m, mem) # <<>> <=> m.tool
      BY <2>1 DEF ToolsOf, When
    <3>3. after = IF m.tool THEN [mem EXCEPT !.tools = Append(@, m.block)] ELSE mem
      BY <1>4, <2>1 DEF Remembered, TakesOrdinal
    <3>4. Append(mem.tools, m.block) # <<>>
      <4>1. m.block \in Nat
        BY <1>4, <2>1 DEF BlockLines
      <4>2. QED
        BY <1>1, <4>1
    <3>5. after.tools = IF m.tool THEN Append(mem.tools, m.block) ELSE mem.tools
      BY <3>3 DEF Memories
    <3>6. QED
      BY <1>4, <3>1, <3>2, <3>4, <3>5
  <2>2. CASE m.type # "content_block_start"
    <3>1. ~MakesCall(m)
      BY <1>4, <2>2 DEF MakesCall, BlockLines
    <3>2. ToolsOf(d, m, mem) # <<>> => Contains(mem.tools, m.block)
      BY <1>4, <2>2 DEF ToolsOf, When, BlockLines
    <3>3. Contains(mem.tools, m.block) => mem.tools # <<>>
      BY DEF Contains
    <3>4. after.tools = mem.tools
      BY <1>4, <2>2 DEF Remembered, TakesOrdinal, Memories, BlockLines
    <3>5. QED
      BY <1>4, <3>1, <3>2, <3>3, <3>4
  <2>3. QED
    BY <2>1, <2>2
<1>5. QED
  BY <1>2, <1>3, <1>4 DEF LinesOf, Parsed, Translated

\* What a parser makes of a body fits the body: it tells of calls if there are
\* any, it finishes once the body does, and with a reason that fits the calls.
Fits(s, p) ==
    LET done == Places(p.events, "done")
    IN  /\ Places(p.events, "tool") # {} <=> HasCalls(s)
        /\ dialect = "ollama" => (p.memory.seenToolCalls <=> HasCalls(s))
        /\ dialect = "anthropic" => (p.memory.tools # <<>> <=> HasCalls(s))
        /\ IF Finished(s)
           THEN \E i \in Nat : /\ done = {i}
                               /\ p.events[i].reason = "tool_calls" => HasCalls(s)
                               /\ p.events[i].reason = "stop" => ~HasCalls(s)
           ELSE done = {}

\* It still does after one more line.
LEMMA FitsOn ==
  ASSUME StreamsAssumption, dialect \in Parsed,
         NEW s \in Seq(LinesOf(dialect)), Sent(s),
         NEW m \in LinesOf(dialect), m \in Lines(s),
         NEW p \in Progress, Fits(s, p)
  PROVE  Fits(Append(s, m), Processed(dialect, p, m))
<1> DEFINE t == Append(s, m)
           q == Processed(dialect, p, m)
           mem == p.memory
           reason == ReasonOf(dialect, m, mem)
           e == Done(reason)
<1>1. mem \in Memories /\ p.events \in Seq(ParserEvents)
  BY DEF Progress
<1>2. /\ q.events = p.events \o LineEvents(dialect, m, mem)
      /\ q.memory = Remembered(dialect, m, mem)
  BY ProcessedParts
<1>3. /\ Gained(p.events, q.events, "done", Finishes(m), e)
      /\ Places(q.events, "tool") = {} <=>
            Places(p.events, "tool") = {} /\ ToolsOf(dialect, m, mem) = <<>>
  <2> HIDE DEF mem, e, q
  <2>1. QED
    BY <1>1, <1>2, LineAdds DEF e, reason
<1>4. /\ Finished(t) <=> Finished(s) \/ Finishes(m)
      /\ HasCalls(t) <=> HasCalls(s) \/ MakesCall(m)
  BY CallsOn
<1>5. /\ MakesCall(m) => ToolsOf(dialect, m, mem) # <<>>
      /\ ToolsOf(dialect, m, mem) # <<>> =>
            MakesCall(m) \/ (dialect = "anthropic" /\ mem.tools # <<>>)
      /\ dialect = "ollama" => (q.memory.seenToolCalls <=> mem.seenToolCalls \/ MakesCall(m))
      /\ dialect = "anthropic" => (q.memory.tools # <<>> <=> mem.tools # <<>> \/ MakesCall(m))
  <2> HIDE DEF mem, q
  <2>1. QED
    BY <1>1, <1>2, ToolsOfLine
<1>6. /\ Finished(s) => ~Finishes(m) /\ ~MakesCall(m)
      /\ dialect # "ollama" /\ Finishes(m) =>
            /\ ~MakesCall(m)
            /\ reason = "tool_calls" => HasCalls(s)
            /\ reason = "stop" => ~HasCalls(s)
  BY FinishSent
<1>7. /\ Places(p.events, "tool") # {} <=> HasCalls(s)
      /\ dialect = "ollama" => (mem.seenToolCalls <=> HasCalls(s))
      /\ dialect = "anthropic" => (mem.tools # <<>> <=> HasCalls(s))
  BY DEF Fits
<1>8. dialect = "ollama" /\ Finishes(m) =>
         /\ reason = "tool_calls" => HasCalls(t)
         /\ reason = "stop" => ~HasCalls(t)
  <2> SUFFICES ASSUME dialect = "ollama", Finishes(m)
               PROVE  /\ reason = "tool_calls" => HasCalls(t)
                      /\ reason = "stop" => ~HasCalls(t)
    OBVIOUS
  <2>1. m \in ChunkLines
    BY DEF Finishes, LinesOf, Junk, Translated
  <2>2. MakesCall(m) <=> m.tools # <<>>
    BY <2>1 DEF MakesCall, ChunkLines
  <2>3. HasToolCalls(m, mem) <=> HasCalls(t)
    BY <1>4, <1>7, <2>2 DEF HasToolCalls
  <2>4. reason = mapOllamaFinishReason(HasToolCalls(m, mem), m.finish)
    BY DEF ReasonOf
  <2>5. HasToolCalls(m, mem) => reason = "tool_calls"
    BY <2>4 DEF mapOllamaFinishReason
  <2>6. ~HasToolCalls(m, mem) => reason \in {"length", "stop"}
    BY <2>4 DEF mapOllamaFinishReason
  <2> HIDE DEF reason
  <2>7. QED
    BY <2>3, <2>5, <2>6
<1>9. e.type = "done" /\ e.reason = reason
  BY DEF Done
<1> HIDE DEF t, q, mem, reason, e
<1>10. Finishes(m) =>
          /\ reason = "tool_calls" => HasCalls(t)
          /\ reason = "stop" => ~HasCalls(t)
  BY <1>4, <1>6, <1>8
<1>11. IF Finished(t)
       THEN \E i \in Nat : /\ Places(q.events, "done") = {i}
                           /\ q.events[i].reason = "tool_calls" => HasCalls(t)
                           /\ q.events[i].reason = "stop" => ~HasCalls(t)
       ELSE Places(q.events, "done") = {}
  <2>1. CASE Finished(s)
    <3>1. PICK i \in Nat : /\ Places(p.events, "done") = {i}
                           /\ p.events[i].reason = "tool_calls" => HasCalls(s)
                           /\ p.events[i].reason = "stop" => ~HasCalls(s)
      BY <2>1 DEF Fits
    <3>2. ~Finishes(m) /\ ~MakesCall(m)
      BY <1>6, <2>1
    <3>3. Places(q.events, "done") = {i} /\ q.events[i] = p.events[i]
      BY <1>3, <3>1, <3>2 DEF Gained
    <3>4. Finished(t) /\ (HasCalls(t) <=> HasCalls(s))
      BY <1>4, <2>1, <3>2
    <3>5. QED
      BY <3>1, <3>3, <3>4
  <2>2. CASE ~Finished(s) /\ Finishes(m)
    <3>1. Places(p.events, "done") = {}
      BY <2>2 DEF Fits
    <3>2. PICK i \in Nat : Places(q.events, "done") = {i} /\ q.events[i] = e
      BY <1>3, <2>2, <3>1 DEF Gained
    <3>3. q.events[i].reason = reason
      BY <1>9, <3>2
    <3>4. Finished(t)
      BY <1>4, <2>2
    <3>5. QED
      BY <1>10, <2>2, <3>2, <3>3, <3>4
  <2>3. CASE ~Finished(s) /\ ~Finishes(m)
    <3>1. Places(p.events, "done") = {}
      BY <2>3 DEF Fits
    <3>2. QED
      BY <1>3, <1>4, <2>3, <3>1 DEF Gained
  <2>4. QED
    BY <2>1, <2>2, <2>3
<1>12. Places(q.events, "tool") # {} <=> HasCalls(t)
  BY <1>3, <1>4, <1>5, <1>7
<1>13. /\ dialect = "ollama" => (q.memory.seenToolCalls <=> HasCalls(t))
       /\ dialect = "anthropic" => (q.memory.tools # <<>> <=> HasCalls(t))
  BY <1>4, <1>5, <1>7
<1>14. Fits(t, q)
  BY <1>11, <1>12, <1>13 DEF Fits
<1>15. QED
  BY <1>14 DEF t, q

\* What a parser makes of any body fits it.
LEMMA ParsedFits ==
  ASSUME StreamsAssumption, dialect \in Parsed,
         NEW b \in Seq(LinesOf(dialect)), Sent(b)
  PROVE  Fits(b, ParseLines(dialect, b))
<1> DEFINE P == {s \in Seq(LinesOf(dialect)) : Fits(s, ParseLines(dialect, s))}
<1>1. <<>> \in P
  <2>1. <<>> \in Seq(LinesOf(dialect))
    OBVIOUS
  <2>2. ParseLines(dialect, <<>>) = Start
    BY <2>1, ParseLinesSteps
  <2>3. Start.events = <<>> /\ Start.memory.tools = <<>> /\ Start.memory.seenToolCalls = FALSE
    BY DEF Start, NoMemory
  <2>4. ToSet(<<>>) = {} /\ \A type : Places(<<>>, type) = {}
    BY DEF ToSet, Places
  <2>5. ~Finished(<<>>) /\ ~HasCalls(<<>>)
    BY <2>4 DEF Finished, HasCalls, Begun, ToolStarts
  <2> HIDE DEF Start
  <2>6. Fits(<<>>, Start)
    BY <2>3, <2>4, <2>5 DEF Fits
  <2>7. QED
    BY <2>1, <2>2, <2>6
<1>2. ASSUME NEW s \in Seq(LinesOf(dialect)), NEW m \in LinesOf(dialect),
             Sent(s), m \in Lines(s), s \in P
      PROVE  Append(s, m) \in P
  <2>1. /\ ParseLines(dialect, s) \in Progress
        /\ ParseLines(dialect, Append(s, m)) = Processed(dialect, ParseLines(dialect, s), m)
    BY ParseLinesSteps
  <2>2. Fits(Append(s, m), Processed(dialect, ParseLines(dialect, s), m))
    BY <1>2, <2>1, FitsOn
  <2>3. QED
    BY <2>1, <2>2
<1> HIDE DEF P
<1>3. b \in P
  BY <1>1, <1>2, AllBodies
<1>4. QED
  BY <1>3 DEF P

-----------------------------------------------------------------------------
(* What the frames tell of a completion. *)

IsSuccess(f) == f.type = "response.completed" \/ (f.type = "finish" /\ f.reason # "error")
SuccessesIn(frames) ==
    Places(frames, "response.completed")
    \cup {i \in Places(frames, "finish") : frames[i].reason # "error"}

\* The frame of an event is a success if the event is done, and its reason is
\* that of the event.
LEMMA FrameSays ==
  ASSUME NEW a \in {"chat", "responses"}, NEW e \in Events
  PROVE  /\ \A f : FramesFor(a, e) = <<f>> =>
               /\ IsSuccess(f) <=> e.type = "done"
               /\ f.type = "finish" /\ f.reason # "error" => f.reason = e.reason
               /\ f.type = "finish" => a = "chat"
               /\ f.type = "tool" <=> a = "chat" /\ e.type = "tool"
         /\ FramesFor(a, e) = <<>> => e.type # "done" /\ a # "chat"
<1> DEFINE Reasons == {"stop", "length", "tool_calls", "content_filter"}
<1>0. \A f, g : <<f>> = <<g>> => f = g
  <2>1. ASSUME NEW f, NEW g, <<f>> = <<g>> PROVE f = g
    <3>1. <<f>>[1] = f /\ <<g>>[1] = g
      OBVIOUS
    <3>2. QED
      BY <2>1, <3>1
  <2>2. QED
    BY <2>1
<1>1. \A f : <<f>> # <<>>
  OBVIOUS
<1>2. /\ FinishFrame("error").type = "finish" /\ FinishFrame("error").reason = "error"
      /\ \A r : FinishFrame(r).type = "finish" /\ FinishFrame(r).reason = r
      /\ Error.type = "error" /\ Content.type = "content"
      /\ [type |-> "response.completed"].type = "response.completed"
  BY DEF FinishFrame, Error, Content
<1>3. /\ e.type \in {"content", "tool", "usage", "done", "error"}
      /\ e.type = "done" => e.reason \in Reasons
  BY DEF Events, ParserEvents, Error, Content
<1>4. e.type = "done" => FrameOf(e) = FinishFrame(e.reason)
  BY <1>3 DEF FrameOf, toOpenAiFinishReason
<1>5. e.type \notin {"done", "error"} => FrameOf(e) = e
  BY DEF FrameOf
<1>6. CASE a = "chat"
  <2> DEFINE g == IF e.type = "error" THEN FinishFrame("error") ELSE FrameOf(e)
  <2>1. FramesFor(a, e) = <<g>>
    BY <1>6 DEF FramesFor
  <2>2. \A f : FramesFor(a, e) = <<f>> => f = g
    <3> HIDE DEF g
    <3>1. QED
      BY <1>0, <2>1
  <2>3. CASE e.type = "error"
    <3>1. g = FinishFrame("error")
      BY <2>3
    <3> HIDE DEF g
    <3>2. QED
      BY <1>1, <1>2, <1>6, <2>1, <2>2, <2>3, <3>1 DEF IsSuccess
  <2>4. CASE e.type = "done"
    <3>1. g = FinishFrame(e.reason) /\ e.reason # "error"
      BY <1>3, <1>4, <2>4
    <3> HIDE DEF g
    <3>2. QED
      BY <1>1, <1>2, <1>6, <2>1, <2>2, <2>4, <3>1 DEF IsSuccess
  <2>5. CASE e.type \notin {"done", "error"}
    <3>1. g = e
      BY <1>5, <2>5
    <3> HIDE DEF g
    <3>2. QED
      BY <1>1, <1>3, <1>6, <2>1, <2>2, <2>5, <3>1 DEF IsSuccess
  <2>6. QED
    BY <2>3, <2>4, <2>5
<1>7. CASE a # "chat"
  <2>1. FramesFor(a, e) = ResponsesFrames(e)
    BY <1>7 DEF FramesFor
  <2>2. CASE e.type = "error"
    <3>1. FramesFor(a, e) = <<Error>>
      BY <2>1, <2>2 DEF ResponsesFrames
    <3>2. \A f : FramesFor(a, e) = <<f>> => f = Error
      BY <1>0, <3>1
    <3>3. QED
      BY <1>1, <1>2, <1>7, <2>2, <3>1, <3>2 DEF IsSuccess
  <2>3. CASE e.type = "done"
    <3> DEFINE g == [type |-> "response.completed"]
    <3>1. FramesFor(a, e) = <<g>>
      BY <2>1, <2>3 DEF ResponsesFrames
    <3>2. \A f : FramesFor(a, e) = <<f>> => f = g
      <4> HIDE DEF g
      <4>1. QED
        BY <1>0, <3>1
    <3>3. g.type = "response.completed"
      OBVIOUS
    <3> HIDE DEF g
    <3>4. QED
      BY <1>1, <1>7, <2>3, <3>1, <3>2, <3>3 DEF IsSuccess
  <2>4. CASE e.type = "content"
    <3>1. FramesFor(a, e) = <<Content>>
      BY <2>1, <2>4 DEF ResponsesFrames
    <3>2. \A f : FramesFor(a, e) = <<f>> => f = Content
      BY <1>0, <3>1
    <3>3. QED
      BY <1>1, <1>2, <1>7, <2>4, <3>1, <3>2 DEF IsSuccess
  <2>5. CASE e.type \in {"tool", "usage"}
    <3>1. FramesFor(a, e) = <<>>
      BY <2>1, <2>5 DEF ResponsesFrames
    <3>2. QED
      BY <1>1, <1>7, <2>5, <3>1
  <2>6. QED
    BY <1>3, <2>2, <2>3, <2>4, <2>5
<1>8. QED
  BY <1>6, <1>7

\* One more frame.
LEMMA SuccessesOn ==
  ASSUME NEW frames \in Seq(Frames), NEW f \in Frames
  PROVE  LET t == Append(frames, f)
         IN  /\ SuccessesIn(t) = SuccessesIn(frames)
                                    \cup (IF IsSuccess(f) THEN {Len(frames) + 1} ELSE {})
             /\ SuccessesIn(frames) \subseteq 1..Len(frames) /\ Len(frames) \in Nat
             /\ IsFiniteSet(SuccessesIn(frames))
             /\ Places(t, "tool") # {} <=> Places(frames, "tool") # {} \/ f.type = "tool"
             /\ \A i \in Places(t, "finish") :
                   \/ i \in Places(frames, "finish") /\ t[i] = frames[i]
                   \/ t[i] = f /\ f.type = "finish"
<1> DEFINE t == Append(frames, f)
           n == Len(frames) + 1
           On(type) == /\ Places(t, type) = Places(frames, type)
                                              \cup (IF f.type = type THEN {n} ELSE {})
                       /\ Places(frames, type) \subseteq 1..Len(frames)
                       /\ IsFiniteSet(Places(frames, type))
                       /\ \A i \in Places(frames, type) : t[i] = frames[i]
                       /\ t[n] = f
<1>1. \A type : On(type)
  BY PlacesOn
<1>2. Len(frames) \in Nat
  OBVIOUS
<1>3. On("response.completed") /\ On("finish") /\ On("tool")
  <2> HIDE DEF On
  <2>1. QED
    BY <1>1
<1> HIDE DEF t, n
<1>4. SuccessesIn(t) = SuccessesIn(frames) \cup (IF IsSuccess(f) THEN {n} ELSE {})
  <2>1. \A i \in Places(frames, "finish") : t[i].reason = frames[i].reason
    BY <1>3
  <2>2. {i \in Places(t, "finish") : t[i].reason # "error"}
           = {i \in Places(frames, "finish") : frames[i].reason # "error"}
             \cup (IF f.type = "finish" /\ f.reason # "error" THEN {n} ELSE {})
    BY <1>3, <2>1
  <2>3. QED
    BY <1>3, <2>2 DEF SuccessesIn, IsSuccess
<1>5. SuccessesIn(frames) \subseteq 1..Len(frames)
  BY <1>3 DEF SuccessesIn
<1>6. IsFiniteSet(SuccessesIn(frames))
  <2>1. IsFiniteSet(1..Len(frames))
    BY <1>2, FS_Interval
  <2>2. QED
    BY <1>5, <2>1, FS_Subset
<1>7. Places(t, "tool") # {} <=> Places(frames, "tool") # {} \/ f.type = "tool"
  BY <1>3
<1>8. \A i \in Places(t, "finish") :
         \/ i \in Places(frames, "finish") /\ t[i] = frames[i]
         \/ t[i] = f /\ f.type = "finish"
  BY <1>3
<1>9. QED
  BY <1>2, <1>4, <1>5, <1>6, <1>7, <1>8 DEF t, n

\* One more event: a success if it is done, with its reason; a call if it is
\* one of a call.
LEMMA EventTold ==
  ASSUME NEW a \in {"chat", "responses"}, NEW c \in Clients, NEW e \in Events, ~c.broken
  PROVE  LET t == Written(a, c, e)
         IN  /\ IF e.type = "done"
                THEN \E p : p \notin SuccessesIn(c.frames)
                            /\ SuccessesIn(t.frames) = SuccessesIn(c.frames) \cup {p}
                ELSE SuccessesIn(t.frames) = SuccessesIn(c.frames)
             /\ IsFiniteSet(SuccessesIn(c.frames))
             /\ Places(t.frames, "tool") # {} <=>
                   Places(c.frames, "tool") # {} \/ (a = "chat" /\ e.type = "tool")
             /\ \A i \in Places(t.frames, "finish") :
                   \/ i \in Places(c.frames, "finish") /\ t.frames[i] = c.frames[i]
                   \/ a = "chat" /\ t.frames[i].reason = "error"
                   \/ a = "chat" /\ e.type = "done" /\ t.frames[i].reason = e.reason
<1> DEFINE t == Written(a, c, e)
           role == a = "chat" /\ ~c.firstChunkEmitted /\ StartsMessage(e)
           frames == IF role THEN Append(c.frames, RoleFrame) ELSE c.frames
<1>1. /\ frames \in Seq(Frames)
      /\ t \in Clients
      /\ \/ FramesFor(a, e) = <<>> /\ t.frames = frames /\ ~role
         \/ \E f \in Frames : FramesFor(a, e) = <<f>> /\ t.frames = Append(frames, f)
  BY FramesAdded
<1> HIDE DEF t
<1>2. c.frames \in Seq(Frames) /\ RoleFrame \in Frames /\ RoleFrame.type = "role"
  BY DEF Clients, Frames, RoleFrame
<1>3. /\ SuccessesIn(frames) = SuccessesIn(c.frames)
      /\ IsFiniteSet(SuccessesIn(c.frames))
      /\ Places(frames, "tool") # {} <=> Places(c.frames, "tool") # {}
      /\ \A i \in Places(frames, "finish") :
            i \in Places(c.frames, "finish") /\ frames[i] = c.frames[i]
  <2> DEFINE r == Append(c.frames, RoleFrame)
  <2>1. /\ SuccessesIn(r) = SuccessesIn(c.frames)
        /\ IsFiniteSet(SuccessesIn(c.frames))
        /\ Places(r, "tool") # {} <=> Places(c.frames, "tool") # {}
        /\ \A i \in Places(r, "finish") :
              i \in Places(c.frames, "finish") /\ r[i] = c.frames[i]
    <3>1. ~IsSuccess(RoleFrame)
      BY <1>2 DEF IsSuccess
    <3>2. RoleFrame.type # "tool" /\ RoleFrame.type # "finish"
      BY <1>2
    <3>3. /\ SuccessesIn(r) = SuccessesIn(c.frames)
                                 \cup (IF IsSuccess(RoleFrame) THEN {Len(c.frames) + 1} ELSE {})
          /\ IsFiniteSet(SuccessesIn(c.frames))
          /\ Places(r, "tool") # {} <=> Places(c.frames, "tool") # {} \/ RoleFrame.type = "tool"
          /\ \A i \in Places(r, "finish") :
                \/ i \in Places(c.frames, "finish") /\ r[i] = c.frames[i]
                \/ r[i] = RoleFrame /\ RoleFrame.type = "finish"
      BY <1>2, SuccessesOn
    <3> HIDE DEF r
    <3>4. QED
      BY <3>1, <3>2, <3>3
  <2> HIDE DEF r
  <2>2. frames = r \/ frames = c.frames
    BY DEF r
  <2> HIDE DEF frames
  <2>3. QED
    BY <2>1, <2>2
<1>4. e.type \in {"content", "tool", "usage", "done", "error"}
  BY DEF Events, ParserEvents, Error, Content
<1> HIDE DEF frames, role
<1>5. CASE FramesFor(a, e) = <<>> /\ t.frames = frames
  <2>1. e.type # "done" /\ a # "chat"
    BY <1>5, FrameSays
  <2>2. QED
    BY <1>3, <1>5, <2>1 DEF t
<1>6. ASSUME NEW f \in Frames, FramesFor(a, e) = <<f>>, t.frames = Append(frames, f)
      PROVE  /\ IF e.type = "done"
                THEN \E p : p \notin SuccessesIn(c.frames)
                            /\ SuccessesIn(t.frames) = SuccessesIn(c.frames) \cup {p}
                ELSE SuccessesIn(t.frames) = SuccessesIn(c.frames)
             /\ Places(t.frames, "tool") # {} <=>
                   Places(c.frames, "tool") # {} \/ (a = "chat" /\ e.type = "tool")
             /\ \A i \in Places(t.frames, "finish") :
                   \/ i \in Places(c.frames, "finish") /\ t.frames[i] = c.frames[i]
                   \/ a = "chat" /\ t.frames[i].reason = "error"
                   \/ a = "chat" /\ e.type = "done" /\ t.frames[i].reason = e.reason
  <2>1. /\ IsSuccess(f) <=> e.type = "done"
        /\ f.type = "finish" /\ f.reason # "error" => f.reason = e.reason
        /\ f.type = "finish" => a = "chat"
        /\ f.type = "tool" <=> a = "chat" /\ e.type = "tool"
    BY <1>6, FrameSays
  <2>2. /\ SuccessesIn(t.frames) = SuccessesIn(frames)
                                     \cup (IF IsSuccess(f) THEN {Len(frames) + 1} ELSE {})
        /\ SuccessesIn(frames) \subseteq 1..Len(frames) /\ Len(frames) \in Nat
        /\ Places(t.frames, "tool") # {} <=> Places(frames, "tool") # {} \/ f.type = "tool"
        /\ \A i \in Places(t.frames, "finish") :
              \/ i \in Places(frames, "finish") /\ t.frames[i] = frames[i]
              \/ t.frames[i] = f /\ f.type = "finish"
    BY <1>1, <1>6, SuccessesOn
  <2>3. Len(frames) + 1 \notin SuccessesIn(c.frames)
    BY <1>3, <2>2
  <2>4. ASSUME NEW i \in Places(t.frames, "finish")
        PROVE  \/ i \in Places(c.frames, "finish") /\ t.frames[i] = c.frames[i]
               \/ a = "chat" /\ t.frames[i].reason = "error"
               \/ a = "chat" /\ e.type = "done" /\ t.frames[i].reason = e.reason
    <3>1. CASE i \in Places(frames, "finish") /\ t.frames[i] = frames[i]
      BY <1>3, <3>1
    <3>2. CASE t.frames[i] = f /\ f.type = "finish"
      BY <2>1, <3>2 DEF IsSuccess
    <3>3. QED
      BY <2>2, <3>1, <3>2
  <2>5. QED
    BY <1>3, <2>1, <2>2, <2>3, <2>4
<1>7. QED
  BY <1>1, <1>3, <1>5, <1>6 DEF t

\* The frames tell what the events of a parser say: as many successes as the
\* completion is done, tool calls if there are any, and no other reasons.
Faithful(a, x, t) ==
    /\ Cardinality(SuccessesIn(t.frames)) = Cardinality(Places(x, "done"))
    /\ IsFiniteSet(SuccessesIn(t.frames))
    /\ Places(t.frames, "tool") # {} <=> a = "chat" /\ Places(x, "tool") # {}
    /\ \A i \in Places(t.frames, "finish") :
          /\ a = "chat"
          /\ \/ t.frames[i].reason = "error"
             \/ \E j \in Places(x, "done") : t.frames[i].reason = x[j].reason

\* So it is with whatever a parser yields.
LEMMA ToldFaithful ==
  ASSUME NEW a \in {"chat", "responses"}, NEW x \in Seq(ParserEvents)
  PROVE  Faithful(a, x, Told(a, NothingTold, x))
<1> DEFINE P == {y \in Seq(ParserEvents) : Faithful(a, y, Told(a, NothingTold, y))}
<1>0. NothingTold \in Clients /\ NothingTold.frames = <<>>
  BY DEF NothingTold, Clients
<1>1. <<>> \in P
  <2>1. <<>> \in Seq(ParserEvents) /\ <<>> \in Seq(Events)
    OBVIOUS
  <2>2. Told(a, NothingTold, <<>>) = NothingTold
    BY <1>0, <2>1, WrittenSteps
  <2>3. \A type : Places(<<>>, type) = {}
    BY DEF Places
  <2>4. SuccessesIn(<<>>) = {}
    BY <2>3 DEF SuccessesIn
  <2>5. Faithful(a, <<>>, NothingTold)
    BY <1>0, <2>3, <2>4, FS_EmptySet DEF Faithful
  <2>6. QED
    BY <2>1, <2>2, <2>5
<1>2. ASSUME NEW y \in Seq(ParserEvents), NEW e \in ParserEvents, y \in P
      PROVE  Append(y, e) \in P
  <2> DEFINE c == Told(a, NothingTold, y)
             t == Told(a, NothingTold, Append(y, e))
             z == Append(y, e)
  <2>1. y \in Seq(Events) /\ e \in Events /\ e.type # "error"
    BY ParserEventsAreEvents DEF Events, ParserEvents, Content
  <2>2. c \in Clients /\ t = Written(a, c, e)
    BY <1>0, <2>1, WrittenSteps
  <2>3. ~c.broken
    BY NotBroken
  <2>4. Faithful(a, y, c)
    BY <1>2
  <2> HIDE DEF c, t
  <2>5. /\ IF e.type = "done"
           THEN \E p : p \notin SuccessesIn(c.frames)
                       /\ SuccessesIn(t.frames) = SuccessesIn(c.frames) \cup {p}
           ELSE SuccessesIn(t.frames) = SuccessesIn(c.frames)
        /\ IsFiniteSet(SuccessesIn(c.frames))
        /\ Places(t.frames, "tool") # {} <=>
                Places(c.frames, "tool") # {} \/ (a = "chat" /\ e.type = "tool")
        /\ \A i \in Places(t.frames, "finish") :
              \/ i \in Places(c.frames, "finish") /\ t.frames[i] = c.frames[i]
              \/ a = "chat" /\ t.frames[i].reason = "error"
              \/ a = "chat" /\ e.type = "done" /\ t.frames[i].reason = e.reason
    <3> DEFINE w == Written(a, c, e)
    <3>1. /\ IF e.type = "done"
             THEN \E p : p \notin SuccessesIn(c.frames)
                         /\ SuccessesIn(w.frames) = SuccessesIn(c.frames) \cup {p}
             ELSE SuccessesIn(w.frames) = SuccessesIn(c.frames)
          /\ IsFiniteSet(SuccessesIn(c.frames))
          /\ Places(w.frames, "tool") # {} <=>
                Places(c.frames, "tool") # {} \/ (a = "chat" /\ e.type = "tool")
          /\ \A i \in Places(w.frames, "finish") :
                \/ i \in Places(c.frames, "finish") /\ w.frames[i] = c.frames[i]
                \/ a = "chat" /\ w.frames[i].reason = "error"
                \/ a = "chat" /\ e.type = "done" /\ w.frames[i].reason = e.reason
      BY <2>1, <2>2, <2>3, EventTold
    <3> HIDE DEF w
    <3>2. QED
      BY <2>2, <3>1 DEF w
  <2> DEFINE On(type) == /\ Places(z, type) = Places(y, type)
                                              \cup (IF e.type = type THEN {Len(y) + 1} ELSE {})
                         /\ IsFiniteSet(Places(y, type))
                         /\ \A i \in Places(y, type) : z[i] = y[i]
                         /\ z[Len(y) + 1] = e /\ Len(y) + 1 \notin Places(y, type)
  <2>6. On("done") /\ On("tool")
    <3>1. \A type : On(type)
      BY PlacesOn
    <3> HIDE DEF On
    <3>2. QED
      BY <3>1
  <2>7. z \in Seq(ParserEvents)
    OBVIOUS
  <2> HIDE DEF z
  <2>8. /\ Cardinality(SuccessesIn(t.frames)) = Cardinality(Places(z, "done"))
        /\ IsFiniteSet(SuccessesIn(t.frames))
    <3>1. Cardinality(SuccessesIn(c.frames)) = Cardinality(Places(y, "done"))
      BY <2>4 DEF Faithful
    <3>2. CASE e.type = "done"
      <4>1. PICK p : p \notin SuccessesIn(c.frames)
                     /\ SuccessesIn(t.frames) = SuccessesIn(c.frames) \cup {p}
        BY <2>5, <3>2
      <4>2. /\ Cardinality(SuccessesIn(t.frames)) = Cardinality(SuccessesIn(c.frames)) + 1
            /\ IsFiniteSet(SuccessesIn(t.frames))
        BY <2>5, <4>1, FS_AddElement
      <4>3. Places(z, "done") = Places(y, "done") \cup {Len(y) + 1}
            /\ Len(y) + 1 \notin Places(y, "done") /\ IsFiniteSet(Places(y, "done"))
        BY <2>6, <3>2
      <4>4. Cardinality(Places(z, "done")) = Cardinality(Places(y, "done")) + 1
        BY <4>3, FS_AddElement
      <4>5. QED
        BY <3>1, <4>2, <4>4
    <3>3. CASE e.type # "done"
      <4>1. Places(z, "done") = Places(y, "done")
        BY <2>6, <3>3
      <4>2. QED
        BY <2>5, <3>1, <3>3, <4>1
    <3>4. QED
      BY <3>2, <3>3
  <2>9. Places(t.frames, "tool") # {} <=> a = "chat" /\ Places(z, "tool") # {}
    BY <2>4, <2>5, <2>6 DEF Faithful
  <2>10. ASSUME NEW i \in Places(t.frames, "finish")
         PROVE  /\ a = "chat"
                /\ \/ t.frames[i].reason = "error"
                   \/ \E j \in Places(z, "done") : t.frames[i].reason = z[j].reason
    <3>1. CASE i \in Places(c.frames, "finish") /\ t.frames[i] = c.frames[i]
      <4>1. /\ a = "chat"
            /\ \/ c.frames[i].reason = "error"
               \/ \E j \in Places(y, "done") : c.frames[i].reason = y[j].reason
        BY <2>4, <3>1 DEF Faithful
      <4>2. \A j \in Places(y, "done") : j \in Places(z, "done") /\ z[j] = y[j]
        BY <2>6
      <4>3. QED
        BY <3>1, <4>1, <4>2
    <3>2. CASE a = "chat" /\ t.frames[i].reason = "error"
      BY <3>2
    <3>3. CASE a = "chat" /\ e.type = "done" /\ t.frames[i].reason = e.reason
      <4>1. Len(y) + 1 \in Places(z, "done") /\ z[Len(y) + 1] = e
        BY <2>6, <3>3
      <4>2. QED
        BY <3>3, <4>1
    <3>4. QED
      BY <2>5, <3>1, <3>2, <3>3
  <2>11. Faithful(a, z, t)
    BY <2>8, <2>9, <2>10 DEF Faithful
  <2>12. QED
    BY <2>7, <2>11 DEF z, t
<1> HIDE DEF P
<1>3. Seq(ParserEvents) \subseteq P
  BY <1>1, <1>2, AllSequences
<1>4. x \in P
  BY <1>3
<1>5. QED
  BY <1>4 DEF P

\* An error that follows adds nothing but itself.
LEMMA ErrorFaithful ==
  ASSUME NEW a \in {"chat", "responses"}, NEW x \in Seq(ParserEvents)
  PROVE  Faithful(a, x, Told(a, NothingTold, x \o <<Error>>))
<1> DEFINE c == Told(a, NothingTold, x)
           t == Told(a, NothingTold, x \o <<Error>>)
<1>0. x \in Seq(Events)
  BY ParserEventsAreEvents
<1>1. x \in Seq(Events) /\ Error \in Events /\ Error.type = "error"
  BY ParserEventsAreEvents DEF Events, Error
<1>2. x \o <<Error>> = Append(x, Error)
  BY <1>1
<1>3. NothingTold \in Clients
  BY DEF NothingTold, Clients
<1>4. c \in Clients /\ t = Written(a, c, Error)
  <2>1. c \in Clients /\ Told(a, NothingTold, Append(x, Error)) = Written(a, c, Error)
    <3>1. /\ c \in Clients
          /\ \A e \in Events : Told(a, NothingTold, Append(x, e)) = Written(a, c, e)
      BY <1>0, <1>3, WrittenSteps
    <3>2. QED
      BY <1>1, <3>1
  <2>2. QED
    BY <1>2, <2>1
<1>5. ~c.broken
  BY NotBroken
<1>6. Faithful(a, x, c)
  BY ToldFaithful
<1> HIDE DEF c, t
<1>7. /\ SuccessesIn(t.frames) = SuccessesIn(c.frames)
      /\ Places(t.frames, "tool") # {} <=> Places(c.frames, "tool") # {}
      /\ \A i \in Places(t.frames, "finish") :
            \/ i \in Places(c.frames, "finish") /\ t.frames[i] = c.frames[i]
            \/ a = "chat" /\ t.frames[i].reason = "error"
  <2> DEFINE e == Error
             w == Written(a, c, e)
  <2>1. e \in Events /\ e.type = "error" /\ c \in Clients
    BY <1>1, <1>4
  <2> HIDE DEF e
  <2>2. /\ IF e.type = "done"
           THEN \E p : p \notin SuccessesIn(c.frames)
                       /\ SuccessesIn(w.frames) = SuccessesIn(c.frames) \cup {p}
           ELSE SuccessesIn(w.frames) = SuccessesIn(c.frames)
        /\ IsFiniteSet(SuccessesIn(c.frames))
        /\ Places(w.frames, "tool") # {} <=>
                Places(c.frames, "tool") # {} \/ (a = "chat" /\ e.type = "tool")
        /\ \A i \in Places(w.frames, "finish") :
              \/ i \in Places(c.frames, "finish") /\ w.frames[i] = c.frames[i]
              \/ a = "chat" /\ w.frames[i].reason = "error"
              \/ a = "chat" /\ e.type = "done" /\ w.frames[i].reason = e.reason
    BY <1>5, <2>1, EventTold
  <2>3. t = w
    BY <1>4 DEF e
  <2> HIDE DEF w
  <2>4. QED
    BY <2>1, <2>2, <2>3
<1>8. Faithful(a, x, t)
  BY <1>6, <1>7 DEF Faithful
<1>9. QED
  BY <1>8 DEF t

\* What has been yielded of a parsed body is what the parser makes of some of
\* its first lines, and maybe an error; in the end it is that of all of them.
LEMMA OutOfBody ==
  ASSUME StreamsAssumption, SInv, dialect \in Parsed
  PROVE  \E s, x :
            /\ s \in Seq(LinesOf(dialect)) /\ Sent(s)
            /\ \E k \in 0..Len(script) : s = SubSeq(script, 1, k)
            /\ x \in Seq(ParserEvents) /\ x = ParseLines(dialect, s).events
            /\ Fits(s, ParseLines(dialect, s))
            /\ out = x \/ out = x \o <<Error>>
            /\ ToSet(s) \subseteq ToSet(Legible)
            /\ ended /\ ending = "closed" => s = Legible /\ out = x
<1> DEFINE n == (size + 1) \div 3
           X(k) == ParseLines(dialect, SubSeq(script, 1, k)).events
<1>1. BodyInv /\ OutInv
  BY DEF SInv
<1>2. /\ script \in Seq(LinesOf(dialect)) /\ ended \in BOOLEAN /\ Sent(script)
      /\ ending \in {"open", "closed", "broken"}
  BY <1>1 DEF BodyInv
<1>3. /\ at \div 3 \in 0..Len(script) /\ n \in 0..Len(script) /\ 0 \in 0..Len(script)
      /\ at \div 3 <= n
  BY <1>1, <1>2 DEF BodyInv
<1>4. Legible = SubSeq(script, 1, n)
  BY DEF Legible
<1>5. Taken.events = X(at \div 3) /\ Batch = X(n)
  BY <1>4 DEF Taken, Batch, Sofar
<1> HIDE DEF n
<1>6. ASSUME NEW k \in 0..Len(script), k <= n
      PROVE  LET s == SubSeq(script, 1, k)
             IN  /\ s \in Seq(LinesOf(dialect)) /\ Sent(s)
                 /\ X(k) \in Seq(ParserEvents)
                 /\ Fits(s, ParseLines(dialect, s))
                 /\ ToSet(s) \subseteq ToSet(Legible)
  <2> DEFINE s == SubSeq(script, 1, k)
  <2>1. s \in Seq(LinesOf(dialect)) /\ Sent(s)
    BY <1>2, SentPrefix
  <2>2. ToSet(s) \subseteq ToSet(Legible)
    <3>1. /\ DOMAIN s = 1..k /\ \A i \in 1..k : s[i] = script[i]
          /\ DOMAIN Legible = 1..n /\ \A i \in 1..n : Legible[i] = script[i]
      BY <1>2, <1>3, <1>4
    <3>2. 1..k \subseteq 1..n
      BY <1>3, <1>6
    <3> HIDE DEF s
    <3>3. QED
      BY <3>1, <3>2 DEF ToSet
  <2> HIDE DEF s
  <2>3. Fits(s, ParseLines(dialect, s)) /\ ParseLines(dialect, s) \in Progress
    BY <2>1, ParsedFits, ParseLinesSteps
  <2>4. ParseLines(dialect, s).events \in Seq(ParserEvents)
    BY <2>3 DEF Progress
  <2>5. QED
    BY <2>1, <2>2, <2>3, <2>4 DEF s
<1>7. ASSUME NEW k \in 0..Len(script), k <= n,
             out = X(k) \/ out = X(k) \o <<Error>>,
             ended /\ ending = "closed" => k = n /\ out = X(k)
      PROVE  \E s, x :
                /\ s \in Seq(LinesOf(dialect)) /\ Sent(s)
                /\ \E j \in 0..Len(script) : s = SubSeq(script, 1, j)
                /\ x \in Seq(ParserEvents) /\ x = ParseLines(dialect, s).events
                /\ Fits(s, ParseLines(dialect, s))
                /\ out = x \/ out = x \o <<Error>>
                /\ ToSet(s) \subseteq ToSet(Legible)
                /\ ended /\ ending = "closed" => s = Legible /\ out = x
  <2> DEFINE s == SubSeq(script, 1, k)
             x == X(k)
  <2>1. /\ s \in Seq(LinesOf(dialect)) /\ Sent(s)
        /\ x \in Seq(ParserEvents)
        /\ Fits(s, ParseLines(dialect, s))
        /\ ToSet(s) \subseteq ToSet(Legible)
    BY <1>6, <1>7
  <2>2. x = ParseLines(dialect, s).events
    OBVIOUS
  <2>3. out = x \/ out = x \o <<Error>>
    BY <1>7
  <2>4. ended /\ ending = "closed" => s = Legible /\ out = x
    BY <1>4, <1>7
  <2>5. \E j \in 0..Len(script) : s = SubSeq(script, 1, j)
    OBVIOUS
  <2> HIDE DEF s, x
  <2>6. QED
    BY <2>1, <2>2, <2>3, <2>4, <2>5
<1> HIDE DEF X
<1>8. CASE ~ended
  <2>1. out = X(at \div 3)
    BY <1>1, <1>5, <1>8 DEF OutInv
  <2>2. QED
    BY <1>3, <1>7, <1>8, <2>1
<1>9. CASE ended /\ ending = "open"
  <2>1. script = <<>> /\ out = <<Error>> /\ at \div 3 = 0
    BY <1>1, <1>9 DEF OutInv, BodyInv
  <2>2. X(0) = <<>>
    <3>1. X(0) = Sofar(dialect, script, 0).events
      BY DEF X, Sofar
    <3>2. QED
      BY <1>2, <3>1, SofarSteps DEF Start
  <2>3. out = X(0) \o <<Error>>
    BY <2>1, <2>2
  <2>4. 0 <= n
    BY <1>3, <2>1
  <2>5. QED
    BY <1>3, <1>7, <1>9, <2>3, <2>4
<1>10. CASE ended /\ ending = "closed"
  <2>1. out = X(n)
    BY <1>1, <1>5, <1>10 DEF OutInv
  <2>2. n <= n
    BY <1>3
  <2>3. QED
    BY <1>3, <1>7, <2>1, <2>2
<1>11. CASE ended /\ ending = "broken"
  <2>1. out = X(at \div 3) \o <<Error>>
    BY <1>1, <1>5, <1>11 DEF OutInv
  <2>2. QED
    BY <1>3, <1>7, <1>11, <2>1
<1>12. QED
  BY <1>2, <1>8, <1>9, <1>10, <1>11

\* The frames of the client tell faithfully what a parser made of these lines.
LEMMA ClientFaithful ==
  ASSUME StreamsAssumption, SInv, dialect \in Parsed
  PROVE  \E s, x :
            /\ s \in Seq(LinesOf(dialect))
            /\ x = ParseLines(dialect, s).events
            /\ Fits(s, ParseLines(dialect, s))
            /\ Faithful(api, x, Told(api, NothingTold, out))
            /\ ToSet(s) \subseteq ToSet(Legible)
            /\ ended /\ ending = "closed" => s = Legible
<1>1. PICK s, x :
            /\ s \in Seq(LinesOf(dialect)) /\ Sent(s)
            /\ \E k \in 0..Len(script) : s = SubSeq(script, 1, k)
            /\ x \in Seq(ParserEvents) /\ x = ParseLines(dialect, s).events
            /\ Fits(s, ParseLines(dialect, s))
            /\ out = x \/ out = x \o <<Error>>
            /\ ToSet(s) \subseteq ToSet(Legible)
            /\ ended /\ ending = "closed" => s = Legible /\ out = x
  BY OutOfBody
<1>2. api \in {"chat", "responses"}
  BY DEF SInv, BodyInv
<1>3. Faithful(api, x, Told(api, NothingTold, out))
  <2>1. CASE out = x
    BY <1>1, <1>2, <2>1, ToldFaithful
  <2>2. CASE out = x \o <<Error>>
    <3>1. x \in Seq(ParserEvents)
      BY <1>1
    <3>2. Faithful(api, x, Told(api, NothingTold, x \o <<Error>>))
      BY <1>2, <3>1, ErrorFaithful
    <3>3. QED
      BY <2>2, <3>2
  <2>3. QED
    BY <1>1, <2>1, <2>2
<1>4. QED
  BY <1>1, <1>3

\* The client's frames of a success, of calls and of a finish are those told.
LEMMA ClientSuccesses ==
  ASSUME SInv
  PROVE  LET told == Told(api, NothingTold, out)
         IN  /\ Successes = SuccessesIn(told.frames)
             /\ Places(client.frames, "tool") = Places(told.frames, "tool")
             /\ Places(client.frames, "finish") = Places(told.frames, "finish")
             /\ \A i \in Places(told.frames, "finish") : client.frames[i] = told.frames[i]
<1> DEFINE told == Told(api, NothingTold, out)
           Same(type) == /\ Places(client.frames, type) = Places(told.frames, type)
                         /\ \A i \in Places(told.frames, type) : client.frames[i] = told.frames[i]
<1>1. \A type : type # "[DONE]" => Same(type)
  BY ClientFrames
<1> HIDE DEF told
<1>2. Same("finish") /\ Same("tool") /\ Same("response.completed")
  <2> HIDE DEF Same
  <2>1. QED
    BY <1>1
<1>3. Successes = SuccessesIn(told.frames)
  BY <1>2 DEF Successes, SuccessesIn
<1>4. QED
  BY <1>2, <1>3 DEF told

\* A chat stream of a parser finishes with "tool_calls" only after tool calls,
\* and with "stop" only without.
THEOREM FinishesMatchCalls == Spec => []FinishMatchesCalls
<1>1. ASSUME SInv PROVE FinishMatchesCalls
  <2> DEFINE told == Told(api, NothingTold, out)
  <2> SUFFICES ASSUME dialect \in Parsed, NEW i \in Places(client.frames, "finish")
               PROVE  /\ client.frames[i].reason = "tool_calls" => Places(client.frames, "tool") # {}
                      /\ client.frames[i].reason = "stop" => Places(client.frames, "tool") = {}
    BY DEF FinishMatchesCalls
  <2>1. PICK s, x :
            /\ s \in Seq(LinesOf(dialect))
            /\ x = ParseLines(dialect, s).events
            /\ Fits(s, ParseLines(dialect, s))
            /\ Faithful(api, x, told)
    BY <1>1, StreamsAssumption, ClientFaithful
  <2>2. /\ Places(client.frames, "tool") = Places(told.frames, "tool")
        /\ i \in Places(told.frames, "finish") /\ client.frames[i] = told.frames[i]
    BY <1>1, ClientSuccesses
  <2> HIDE DEF told
  <2>3. /\ api = "chat"
        /\ \/ told.frames[i].reason = "error"
           \/ \E j \in Places(x, "done") : told.frames[i].reason = x[j].reason
        /\ Places(told.frames, "tool") # {} <=> Places(x, "tool") # {}
    BY <2>1, <2>2 DEF Faithful
  <2>4. \A j \in Places(x, "done") :
           /\ x[j].reason = "tool_calls" => Places(x, "tool") # {}
           /\ x[j].reason = "stop" => Places(x, "tool") = {}
    BY <2>1 DEF Fits
  <2>5. QED
    BY <2>2, <2>3, <2>4
<1>2. QED
  BY <1>1, StreamsInvariant, PTL

-----------------------------------------------------------------------------
(* A translated stream: its successes are those of the events read. *)

FromUpstream(m) == m.type = "nova_done" /\ m.completion = "upstream"

\* Before its last event a client was told of no success; after it of one, if
\* the upstream completed; llamactl never tells of one otherwise.
NovaInv ==
    LET told == SuccessesIn(Told(api, NothingTold, out).frames)
    IN  dialect \in Translated =>
            /\ ending = "open" => told = {}
            /\ ending # "open" /\ at < size => ~ended /\ told = {}
            /\ ending # "open" /\ (\E i \in DOMAIN script : FromUpstream(script[i])) =>
                  at < size \/ Cardinality(told) = 1
            /\ dialect = "llamactl" /\ told # {} => \E i \in DOMAIN script : FromUpstream(script[i])

\* Only the last event of a nova stream ends it.
LEMMA LastOfNova ==
  ASSUME BodyInv, dialect \in Translated, NEW i \in 1..Len(script) - 1
  PROVE  script[i].type \in {"nova_text", "nova_tool"}
<1>1. script \in Seq(NovaLineSet) /\ Sent(script)
  BY DEF BodyInv, LinesOf
<1>2. i \in 1..Len(script) /\ i + 1 \in DOMAIN script /\ (i + 1) - 1 = i
  BY <1>1
<1>3. script[i + 1] \in Lines(SubSeq(script, 1, i))
  BY <1>1, <1>2 DEF Sent
<1>4. script[i] \in ToSet(SubSeq(script, 1, i))
  <2>1. i \in DOMAIN SubSeq(script, 1, i) /\ SubSeq(script, 1, i)[i] = script[i]
    BY <1>1, <1>2
  <2>2. QED
    BY <2>1 DEF ToSet
<1>5. script[i + 1] \in NovaLines(SubSeq(script, 1, i))
  BY <1>3 DEF Lines, Translated
<1>6. script[i].type \notin {"nova_done", "nova_error"}
  BY <1>4, <1>5 DEF NovaLines
<1>7. QED
  BY <1>1, <1>2, <1>6 DEF NovaLineSet

\* What one event is made of, if it is not the last, and if the upstream
\* completed.
LEMMA NovaYields ==
  ASSUME dialect \in Translated, NEW m \in NovaLineSet
  PROVE  /\ NovaEvents(m) = <<>> \/ \E e \in Events : NovaEvents(m) = <<e>>
         /\ m.type \in {"nova_text", "nova_tool"} =>
               /\ ~Returns(m)
               /\ \A e : NovaEvents(m) = <<e>> => e.type \notin {"done", "error"}
         /\ FromUpstream(m) => NovaEvents(m) # <<>>
                               /\ \A e : NovaEvents(m) = <<e>> => e.type = "done"
         /\ dialect = "llamactl" =>
               \A e : NovaEvents(m) = <<e>> /\ e.type = "done" => FromUpstream(m)
<1>0. \A f, g : <<f>> = <<g>> => f = g
  <2>1. ASSUME NEW f, NEW g, <<f>> = <<g>> PROVE f = g
    <3>1. <<f>>[1] = f /\ <<g>>[1] = g
      OBVIOUS
    <3>2. QED
      BY <2>1, <3>1
  <2>2. QED
    BY <2>1
<1>1. \A f : <<f>> # <<>>
  OBVIOUS
<1>2. /\ Done("stop") \in Events /\ Content \in Events /\ Error \in Events
      /\ Done("stop").type = "done" /\ Content.type = "content" /\ Error.type = "error"
  BY DEF Done, Content, Error, Events, ParserEvents
<1>3. dialect = "llamactl" \/ dialect = "fromfile"
  BY DEF Translated
<1> DEFINE ev == NovaEvents(m)
<1>4. CASE m.type = "nova_text"
  <2>1. ev = <<Content>>
    BY <1>4 DEF NovaEvents, LlamactlEvents, FromFileEvents
  <2>2. ~Returns(m) /\ ~FromUpstream(m)
    BY <1>4 DEF Returns, FromUpstream
  <2> HIDE DEF ev
  <2>3. \A e : ev = <<e>> => e = Content
    BY <1>0, <2>1
  <2>4. QED
    BY <1>2, <2>1, <2>2, <2>3 DEF ev
<1>5. CASE m.type = "nova_tool"
  <2>1. ev = <<>>
    BY <1>5 DEF NovaEvents, LlamactlEvents, FromFileEvents
  <2>2. ~Returns(m) /\ ~FromUpstream(m)
    BY <1>5 DEF Returns, FromUpstream
  <2> HIDE DEF ev
  <2>3. \A e : ev # <<e>>
    BY <1>1, <2>1
  <2>4. QED
    BY <2>1, <2>2, <2>3 DEF ev
<1>6. CASE m.type = "nova_error"
  <2>1. ev = <<Error>>
    BY <1>6 DEF NovaEvents, LlamactlEvents, FromFileEvents
  <2>2. ~FromUpstream(m)
    BY <1>6 DEF FromUpstream
  <2> HIDE DEF ev
  <2>3. \A e : ev = <<e>> => e = Error
    BY <1>0, <2>1
  <2>4. QED
    BY <1>2, <1>6, <2>1, <2>2, <2>3 DEF ev
<1>7. CASE m.type = "nova_done"
  <2>1. m.finish = "stop"
    BY <1>7 DEF NovaLineSet
  <2>2. CASE FromUpstream(m)
    <3>1. ev = <<Done("stop")>>
      BY <1>7, <2>1, <2>2 DEF NovaEvents, LlamactlEvents, FromFileEvents, LlamactlDone, FromUpstream
    <3> HIDE DEF ev
    <3>2. \A e : ev = <<e>> => e = Done("stop")
      BY <1>0, <3>1
    <3>3. ev # <<>>
      BY <1>1, <3>1
    <3>4. QED
      BY <1>2, <1>7, <2>2, <3>1, <3>2, <3>3 DEF ev
  <2>3. CASE ~FromUpstream(m) /\ dialect = "llamactl"
    <3>1. ev = <<Error>>
      BY <1>7, <2>3 DEF NovaEvents, LlamactlEvents, LlamactlDone, FromUpstream
    <3> HIDE DEF ev
    <3>2. \A e : ev = <<e>> => e = Error
      BY <1>0, <3>1
    <3>3. QED
      BY <1>2, <1>7, <2>3, <3>1, <3>2 DEF ev
  <2>4. CASE ~FromUpstream(m) /\ dialect = "fromfile"
    <3>1. ev = <<Done("stop")>> /\ dialect # "llamactl"
      BY <1>7, <2>1, <2>4 DEF NovaEvents, FromFileEvents
    <3> HIDE DEF ev
    <3>2. QED
      BY <1>2, <1>7, <2>4, <3>1 DEF ev
  <2>5. QED
    BY <1>3, <2>2, <2>3, <2>4
<1>8. QED
  BY <1>4, <1>5, <1>6, <1>7 DEF NovaLineSet

\* What is told of an event, or of none, after those told before.
LEMMA OneMoreTold ==
  ASSUME NEW a \in {"chat", "responses"}, NEW x \in Seq(Events), NEW ev,
         ev = <<>> \/ \E e \in Events : ev = <<e>>,
         ~Told(a, NothingTold, x).broken
  PROVE  LET c == Told(a, NothingTold, x)
             t == Told(a, NothingTold, x \o ev)
         IN  /\ ev = <<>> => t = c
             /\ \A e : ev = <<e>> =>
                   /\ t.broken <=> e.type = "error"
                   /\ IF e.type = "done"
                      THEN \E p : p \notin SuccessesIn(c.frames)
                                  /\ SuccessesIn(t.frames) = SuccessesIn(c.frames) \cup {p}
                      ELSE SuccessesIn(t.frames) = SuccessesIn(c.frames)
<1> DEFINE c == Told(a, NothingTold, x)
           t == Told(a, NothingTold, x \o ev)
<1>1. NothingTold \in Clients
  BY DEF NothingTold, Clients
<1>2. CASE ev = <<>>
  <2>1. x \o ev = x /\ \A e : ev # <<e>>
    BY <1>2
  <2>2. QED
    BY <2>1
<1>3. ASSUME NEW e \in Events, ev = <<e>>
      PROVE  /\ t.broken <=> e.type = "error"
             /\ IF e.type = "done"
                THEN \E p : p \notin SuccessesIn(c.frames)
                            /\ SuccessesIn(t.frames) = SuccessesIn(c.frames) \cup {p}
                ELSE SuccessesIn(t.frames) = SuccessesIn(c.frames)
  <2> DEFINE w == Written(a, c, e)
  <2>1. x \o ev = Append(x, e)
    BY <1>3
  <2>2. c \in Clients /\ Told(a, NothingTold, Append(x, e)) = w
    BY <1>1, WrittenSteps
  <2>3. t = w
    BY <2>1, <2>2
  <2> HIDE DEF c, t
  <2>4. ~c.broken
    BY DEF c
  <2>5. IF e.type = "done"
        THEN \E p : p \notin SuccessesIn(c.frames)
                    /\ SuccessesIn(w.frames) = SuccessesIn(c.frames) \cup {p}
        ELSE SuccessesIn(w.frames) = SuccessesIn(c.frames)
    BY <2>2, <2>4, EventTold
  <2>6. w.broken = (e.type = "error")
    BY <2>2, <2>4, FramesAdded
  <2> HIDE DEF w
  <2>7. QED
    BY <2>3, <2>5, <2>6
<1>4. \A e, f : <<e>> = <<f>> => e = f
  <2>1. ASSUME NEW f, NEW g, <<f>> = <<g>> PROVE f = g
    <3>1. <<f>>[1] = f /\ <<g>>[1] = g
      OBVIOUS
    <3>2. QED
      BY <2>1, <3>1
  <2>2. QED
    BY <2>1
<1>5. \A e : <<e>> # <<>>
  OBVIOUS
<1> HIDE DEF c, t
<1>6. CASE ev # <<>>
  <2>1. PICK e \in Events : ev = <<e>>
    BY <1>6
  <2>2. \A f : ev = <<f>> => f = e
    BY <1>4, <2>1
  <2>3. QED
    BY <1>3, <1>6, <2>1, <2>2 DEF c, t
<1>7. QED
  BY <1>2, <1>6

\* A step of a translated stream keeps to what it may tell.
LEMMA TakeNovaInv ==
  ASSUME SInv, NovaInv, Take
  PROVE  NovaInv'
<1> USE StreamsAssumption
<1> DEFINE told == Told(api, NothingTold, out)
           next == Told(api, NothingTold, out \o NovaEvents(script[at + 1]))
           m == script[at + 1]
           Upstream == \E i \in DOMAIN script : FromUpstream(script[i])
<1>1. BodyInv /\ ClientInv
  BY DEF SInv
<1>2. /\ dialect \in Translated /\ dialect \notin Parsed /\ ending # "open" /\ ~ended
      /\ UNCHANGED <<dialect, api, script, ending, size>>
      /\ at < size /\ at' = at + 1
      /\ Yield(NovaEvents(m), Returns(m))
  BY DEF Take, bodyVars, Translated, Parsed
<1>3. /\ script \in Seq(NovaLineSet) /\ size = Len(script) /\ at \in Nat /\ size \in Nat
      /\ DOMAIN script = 1..size /\ api \in {"chat", "responses"}
  BY <1>1, <1>2 DEF BodyInv, LinesOf
<1>4. m \in NovaLineSet /\ at + 1 \in 1..Len(script)
  BY <1>2, <1>3
<1>5. NovaEvents(m) \in Seq(Events) /\ Returns(m) \in BOOLEAN
  BY <1>1, <1>2, <1>4, NovaTyped
<1>6. out' = out \o NovaEvents(m) /\ ended' = (Returns(m) \/ next.broken)
  <2> HIDE DEF m
  <2>1. LET t == Told(api, NothingTold, out \o NovaEvents(m))
        IN  out' = out \o NovaEvents(m) /\ ended' = (Returns(m) \/ t.broken)
    BY <1>1, <1>2, <1>5, YieldTells
  <2>2. QED
    BY <2>1 DEF m
<1>7. out \in Seq(Events) /\ ~told.broken
  BY <1>1, <1>2 DEF ClientInv
<1>8. SuccessesIn(told.frames) = {}
  BY <1>2 DEF NovaInv
<1> HIDE DEF m
<1>9. /\ NovaEvents(m) = <<>> \/ \E e \in Events : NovaEvents(m) = <<e>>
      /\ m.type \in {"nova_text", "nova_tool"} =>
            /\ ~Returns(m)
            /\ \A e : NovaEvents(m) = <<e>> => e.type \notin {"done", "error"}
      /\ FromUpstream(m) => NovaEvents(m) # <<>>
                            /\ \A e : NovaEvents(m) = <<e>> => e.type = "done"
      /\ dialect = "llamactl" =>
            \A e : NovaEvents(m) = <<e>> /\ e.type = "done" => FromUpstream(m)
  BY <1>2, <1>4, NovaYields
<1>10. /\ NovaEvents(m) = <<>> => next = told
       /\ \A e : NovaEvents(m) = <<e>> =>
             /\ next.broken <=> e.type = "error"
             /\ IF e.type = "done"
                THEN \E p : p \notin SuccessesIn(told.frames)
                            /\ SuccessesIn(next.frames) = SuccessesIn(told.frames) \cup {p}
                ELSE SuccessesIn(next.frames) = SuccessesIn(told.frames)
  <2> DEFINE ev == NovaEvents(m)
  <2>1. ev = <<>> \/ \E e \in Events : ev = <<e>>
    BY <1>9
  <2> HIDE DEF ev
  <2>2. LET c == Told(api, NothingTold, out)
            t == Told(api, NothingTold, out \o ev)
        IN  /\ ev = <<>> => t = c
            /\ \A e : ev = <<e>> =>
                  /\ t.broken <=> e.type = "error"
                  /\ IF e.type = "done"
                     THEN \E p : p \notin SuccessesIn(c.frames)
                                 /\ SuccessesIn(t.frames) = SuccessesIn(c.frames) \cup {p}
                     ELSE SuccessesIn(t.frames) = SuccessesIn(c.frames)
    BY <1>3, <1>7, <2>1, OneMoreTold
  <2>3. QED
    BY <2>2 DEF ev, m
<1> HIDE DEF told, next
<1>11. at + 1 < size =>
          ~Returns(m) /\ ~next.broken /\ SuccessesIn(next.frames) = {}
  <2> SUFFICES ASSUME at + 1 < size
               PROVE  ~Returns(m) /\ ~next.broken /\ SuccessesIn(next.frames) = {}
    OBVIOUS
  <2>1. at + 1 \in 1..Len(script) - 1
    BY <1>3
  <2>2. m.type \in {"nova_text", "nova_tool"}
    BY <1>1, <1>2, <2>1, LastOfNova DEF m
  <2>3. ~Returns(m) /\ \A e : NovaEvents(m) = <<e>> => e.type \notin {"done", "error"}
    BY <1>9, <2>2
  <2>4. QED
    BY <1>7, <1>8, <1>9, <1>10, <2>3
<1>12. Upstream => at + 1 < size \/ Cardinality(SuccessesIn(next.frames)) = 1
  <2> SUFFICES ASSUME Upstream, ~(at + 1 < size)
               PROVE  Cardinality(SuccessesIn(next.frames)) = 1
    OBVIOUS
  <2>1. at + 1 = size
    BY <1>2, <1>3
  <2>2. PICK i \in DOMAIN script : FromUpstream(script[i])
    OBVIOUS
  <2>3. i = size
    <3>1. i \in 1..size
      BY <1>3
    <3>2. i \notin 1..Len(script) - 1
      BY <1>1, <1>2, <2>2, LastOfNova DEF FromUpstream
    <3>3. QED
      BY <1>3, <3>1, <3>2
  <2>4. FromUpstream(m)
    BY <2>1, <2>2, <2>3 DEF m
  <2>5. PICK e \in Events : NovaEvents(m) = <<e>> /\ e.type = "done"
    BY <1>9, <2>4
  <2>6. \E p : SuccessesIn(next.frames) = {p}
    BY <1>8, <1>10, <2>5
  <2>7. QED
    BY <2>6, FS_Singleton
<1>13. dialect = "llamactl" /\ SuccessesIn(next.frames) # {} => FromUpstream(m)
  BY <1>8, <1>9, <1>10
<1>14. FromUpstream(m) => Upstream
  BY <1>3, <1>4 DEF m
<1>15. Told(api', NothingTold, out') = next
  BY <1>2, <1>6 DEF next, m
<1>16. ended' = (Returns(m) \/ next.broken)
  BY <1>6
<1> HIDE DEF Upstream
<1>17. /\ at' < size' => ~ended' /\ SuccessesIn(next.frames) = {}
       /\ Upstream => at' < size' \/ Cardinality(SuccessesIn(next.frames)) = 1
       /\ dialect' = "llamactl" /\ SuccessesIn(next.frames) # {} => Upstream
  BY <1>2, <1>11, <1>12, <1>13, <1>14, <1>16
<1>18. Upstream <=> \E i \in DOMAIN script' : FromUpstream(script'[i])
  BY <1>2 DEF Upstream
<1>19. ending' # "open"
  BY <1>2
<1>20. QED
  BY <1>15, <1>17, <1>18, <1>19 DEF NovaInv, FromUpstream

\* So does its end.
LEMMA TakeEndNovaInv ==
  ASSUME SInv, NovaInv, TakeEnd
  PROVE  NovaInv'
<1> DEFINE told == Told(api, NothingTold, out)
           next == Told(api, NothingTold, out \o NovaEnd)
<1>1. BodyInv /\ ClientInv
  BY DEF SInv
<1>2. /\ dialect \in Translated /\ ending # "open" /\ ~ended
      /\ UNCHANGED <<dialect, api, script, ending, size, at>>
      /\ Yield(NovaEnd, TRUE) /\ at = size
  BY DEF TakeEnd, bodyVars, parserVars
<1>3. out' = out \o NovaEnd
  BY <1>2 DEF Yield
<1>4. out \in Seq(Events) /\ ~told.broken /\ api \in {"chat", "responses"}
  BY <1>1, <1>2 DEF ClientInv, BodyInv
<1>5. Error \in Events /\ Error.type = "error"
  BY DEF Events, Error
<1>6. NovaEnd = <<>> \/ NovaEnd = <<Error>>
  BY DEF NovaEnd
<1>7. SuccessesIn(next.frames) = SuccessesIn(told.frames)
  <2> DEFINE ev == NovaEnd
  <2>1. ev = <<>> \/ \E e \in Events : ev = <<e>>
    BY <1>5, <1>6
  <2> HIDE DEF ev
  <2>2. LET c == Told(api, NothingTold, out)
            t == Told(api, NothingTold, out \o ev)
        IN  /\ ev = <<>> => t = c
            /\ \A e : ev = <<e>> =>
                  /\ t.broken <=> e.type = "error"
                  /\ IF e.type = "done"
                     THEN \E p : p \notin SuccessesIn(c.frames)
                                 /\ SuccessesIn(t.frames) = SuccessesIn(c.frames) \cup {p}
                     ELSE SuccessesIn(t.frames) = SuccessesIn(c.frames)
    BY <1>4, <2>1, OneMoreTold
  <2> HIDE DEF told, next
  <2>3. QED
    BY <1>5, <1>6, <2>2 DEF told, next, ev
<1>8. Told(api', NothingTold, out') = next
  BY <1>2, <1>3
<1> HIDE DEF told, next
<1>9. NovaInv => /\ (\E i \in DOMAIN script : FromUpstream(script[i])) =>
                       at < size \/ Cardinality(SuccessesIn(told.frames)) = 1
                 /\ dialect = "llamactl" /\ SuccessesIn(told.frames) # {} =>
                       \E i \in DOMAIN script : FromUpstream(script[i])
  BY <1>2 DEF NovaInv, told
<1>10. ~(at < size)
  BY <1>1, <1>2 DEF BodyInv
<1>11. QED
  BY <1>2, <1>7, <1>8, <1>9, <1>10 DEF NovaInv, FromUpstream

\* Every step does.
LEMMA NextNovaInv ==
  ASSUME SInv, NovaInv, [Next]_vars
  PROVE  NovaInv'
<1> DEFINE told == SuccessesIn(Told(api, NothingTold, out).frames)
<1>1. CASE UNCHANGED vars
  BY <1>1 DEF vars, bodyVars, parserVars, NovaInv, FromUpstream
<1>2. ASSUME NEW m, Send(m)
      PROVE  NovaInv'
  <2>1. UNCHANGED <<dialect, api, ending, size, out>> /\ ending = "open"
    BY <1>2 DEF Send
  <2>2. told' = told
    BY <2>1
  <2> HIDE DEF told
  <2>3. dialect \in Translated => told = {}
    BY <2>1 DEF NovaInv, told
  <2>4. dialect' \in Translated => told' = {} /\ ending' = "open"
    BY <2>1, <2>2, <2>3
  <2>5. QED
    BY <2>4 DEF NovaInv, told, FromUpstream
<1>3. ASSUME NEW how \in {"closed", "broken"}, NEW cut \in 0..2, EndBody(how, cut)
      PROVE  NovaInv'
  <2>1. UNCHANGED <<dialect, api, script, at, out, ended>> /\ ending = "open" /\ ~ended
    BY <1>3 DEF EndBody, parserVars
  <2>2. told' = told
    BY <2>1
  <2> HIDE DEF told
  <2>3. dialect \in Translated => told = {}
    BY <2>1 DEF NovaInv, told
  <2>4. dialect \in Translated => size' = Len(script)
    BY <1>3 DEF EndBody, Parsed, Translated
  <2>5. at = 0 /\ DOMAIN script = 1..Len(script) /\ Len(script) \in Nat
    BY <2>1 DEF SInv, BodyInv
  <2>6. ending' # "open"
    BY <1>3 DEF EndBody
  <2>7. dialect \in Translated => (\A i \in DOMAIN script : at' < size')
    BY <2>1, <2>4, <2>5
  <2>8. dialect' \in Translated =>
           /\ told' = {} /\ ~ended' /\ ending' # "open"
           /\ \A i \in DOMAIN script' : at' < size'
    BY <2>1, <2>2, <2>3, <2>6, <2>7
  <2>9. QED
    BY <2>8 DEF NovaInv, told, FromUpstream
<1>4. CASE dialect \in Parsed /\ dialect' = dialect
  BY <1>4 DEF NovaInv, Parsed, Translated
<1>5. ASSUME NEW n, Read(n) PROVE NovaInv'
  BY <1>4, <1>5 DEF Read, bodyVars
<1>6. CASE Refuse \/ ReadEnd
  BY <1>4, <1>6 DEF Refuse, ReadEnd, bodyVars
<1>7. QED
  BY <1>1, <1>2, <1>3, <1>5, <1>6, TakeNovaInv, TakeEndNovaInv DEF Next

\* Both hold in every state.
LEMMA NovaInvariant == Spec => [](SInv /\ NovaInv)
<1>1. Init => NovaInv
  <2> SUFFICES ASSUME Init PROVE NovaInv
    OBVIOUS
  <2>1. Told(api, NothingTold, out) = NothingTold
    <3>1. NothingTold \in Clients /\ <<>> \in Seq(Events)
      BY DEF NothingTold, Clients
    <3>2. QED
      BY <3>1, WrittenSteps DEF Init
  <2>2. SuccessesIn(<<>>) = {}
    BY DEF SuccessesIn, Places
  <2>3. SuccessesIn(Told(api, NothingTold, out).frames) = {} /\ ending = "open"
    BY <2>1, <2>2 DEF NothingTold, Init
  <2>4. QED
    BY <2>3 DEF NovaInv
<1>2. SInv /\ NovaInv /\ [Next]_vars => (SInv /\ NovaInv)'
  BY NextSInv, NextNovaInv
<1>3. QED
  BY <1>1, <1>2, InitSInv, PTL DEF Spec

\* What it is for a body of each kind to be complete.
LEMMA CompletedIs ==
  ASSUME SInv
  PROVE  /\ dialect \in Parsed => (Completed <=> Finished(Legible))
         /\ dialect \in Translated /\ ending # "open" =>
               (Completed <=> \E i \in DOMAIN script : FromUpstream(script[i]))
<1>1. BodyInv /\ script \in Seq(LinesOf(dialect))
  BY DEF SInv, BodyInv
<1>2. ASSUME dialect \in Parsed PROVE Completed <=> Finished(Legible)
  <2> DEFINE n == (size + 1) \div 3
  <2>1. n \in 0..Len(script) /\ Legible = SubSeq(script, 1, n)
    BY <1>1, <1>2 DEF BodyInv, Legible
  <2> HIDE DEF n
  <2>2. Legible \in Seq(LinesOf(dialect))
    BY <1>1, <2>1
  <2>3. ToSet(Legible) \subseteq LinesOf(dialect)
    BY <2>2 DEF ToSet
  <2>4. \A m \in LinesOf(dialect) : m.type # "nova_done"
    BY <1>2 DEF LinesOf, Parsed, Translated, Junk, ChunkLines, BlockLines
  <2>5. QED
    BY <2>3, <2>4 DEF Completed, Finished
<1>3. ASSUME dialect \in Translated, ending # "open"
      PROVE  Completed <=> \E i \in DOMAIN script : FromUpstream(script[i])
  <2>1. dialect \notin Parsed
    BY <1>3 DEF Parsed, Translated
  <2>2. size = Len(script)
    BY <1>1, <1>3, <2>1 DEF BodyInv
  <2>3. Legible = script
    <3>1. Legible = SubSeq(script, 1, Len(script))
      BY <2>1, <2>2 DEF Legible
    <3>2. QED
      BY <1>1, <3>1
  <2>4. script \in Seq(NovaLineSet)
    BY <1>1, <1>3 DEF LinesOf
  <2>5. \A i \in DOMAIN script : script[i].type \notin {"chunk", "message_delta"}
    <3>1. \A i \in DOMAIN script : script[i] \in NovaLineSet
      BY <2>4
    <3>2. \A m \in NovaLineSet : m.type \notin {"chunk", "message_delta"}
      BY DEF NovaLineSet
    <3>3. QED
      BY <3>1, <3>2
  <2>6. ToSet(Legible) = {script[i] : i \in DOMAIN script}
    BY <2>3 DEF ToSet
  <2>7. QED
    BY <2>5, <2>6 DEF Completed, FromUpstream
<1>4. QED
  BY <1>2, <1>3

\* A client is told that its completion is complete only if the upstream said
\* so: a stream that was cut short is an error or just ends.  That a from-file
\* provider does otherwise is the finding of the run MCStreamsFromFile.
THEOREM TruncationNeverTold ==
  ASSUME "fromfile" \notin Dialects
  PROVE  Spec => []TruncationIsNoSuccess
<1>1. ASSUME SInv, NovaInv PROVE TruncationIsNoSuccess
  <2> DEFINE told == Told(api, NothingTold, out)
  <2> SUFFICES ASSUME Successes # {} PROVE Completed
    BY DEF TruncationIsNoSuccess
  <2>1. SuccessesIn(told.frames) # {}
    BY <1>1, ClientSuccesses
  <2>2. CASE dialect \in Parsed
    <3>1. PICK s, x :
              /\ s \in Seq(LinesOf(dialect))
              /\ x = ParseLines(dialect, s).events
              /\ Fits(s, ParseLines(dialect, s))
              /\ Faithful(api, x, told)
              /\ ToSet(s) \subseteq ToSet(Legible)
      BY <1>1, <2>2, StreamsAssumption, ClientFaithful
    <3> HIDE DEF told
    <3>2. Cardinality(SuccessesIn(told.frames)) # 0
      BY <2>1, <3>1, FS_EmptySet DEF Faithful
    <3>3. Places(x, "done") # {}
      BY <3>1, <3>2, FS_EmptySet DEF Faithful
    <3>4. Finished(s)
      BY <3>1, <3>3 DEF Fits
    <3>5. Finished(Legible)
      BY <3>1, <3>4 DEF Finished
    <3>6. QED
      BY <1>1, <2>2, <3>5, CompletedIs
  <2>3. CASE dialect \in Translated
    <3>1. dialect = "llamactl"
      BY <1>1, <2>3 DEF SInv, BodyInv, Translated
    <3>2. ending # "open"
      BY <1>1, <2>1, <2>3 DEF NovaInv
    <3>3. \E i \in DOMAIN script : FromUpstream(script[i])
      BY <1>1, <2>1, <2>3, <3>1 DEF NovaInv
    <3>4. QED
      BY <1>1, <2>3, <3>2, <3>3, CompletedIs
  <2>4. QED
    BY <1>1, <2>2, <2>3, StreamsAssumption DEF StreamsAssumption, SInv, BodyInv
<1>2. QED
  BY <1>1, NovaInvariant, PTL

\* When a body was closed and is read, a client is told once if its completion
\* is complete, also if that was its last line, without a newline.
THEOREM CompletionsAreTold == Spec => []CompletionIsTold
<1>1. ASSUME SInv, NovaInv PROVE CompletionIsTold
  <2> DEFINE told == Told(api, NothingTold, out)
  <2> SUFFICES ASSUME ended, ending = "closed", Completed
               PROVE  Cardinality(Successes) = 1
    BY DEF CompletionIsTold
  <2>1. Successes = SuccessesIn(told.frames)
    BY <1>1, ClientSuccesses
  <2>2. CASE dialect \in Parsed
    <3>1. PICK s, x :
              /\ x = ParseLines(dialect, s).events
              /\ Fits(s, ParseLines(dialect, s))
              /\ Faithful(api, x, told)
              /\ ended /\ ending = "closed" => s = Legible
      BY <1>1, <2>2, StreamsAssumption, ClientFaithful
    <3> HIDE DEF told
    <3>2. Finished(s)
      BY <1>1, <2>2, <3>1, CompletedIs
    <3>3. \E i \in Nat : Places(x, "done") = {i}
      BY <3>1, <3>2 DEF Fits
    <3>4. Cardinality(Places(x, "done")) = 1
      BY <3>3, FS_Singleton
    <3>5. QED
      BY <2>1, <3>1, <3>4 DEF Faithful
  <2>3. CASE dialect \in Translated
    <3>1. \E i \in DOMAIN script : FromUpstream(script[i])
      BY <1>1, <2>3, CompletedIs
    <3>2. ~(at < size)
      BY <1>1, <2>3 DEF NovaInv
    <3>3. QED
      BY <1>1, <2>1, <2>3, <3>1, <3>2 DEF NovaInv
  <2>4. QED
    BY <1>1, <2>2, <2>3, StreamsAssumption DEF StreamsAssumption, SInv, BodyInv
<1>2. QED
  BY <1>1, NovaInvariant, PTL

-----------------------------------------------------------------------------
(* The input counts of a body. *)

UsageTypes == {"chunk", "message_start", "message_delta"}
CountsOf(s) == {m.usage : m \in {n \in ToSet(s) : n.type \in UsageTypes}}

\* Which lines have a usage: one of the chunks, the start and the last delta.
LEMMA UsageOfLine ==
  ASSUME StreamsAssumption, dialect \in Parsed,
         NEW s \in Seq(LinesOf(dialect)), NEW m \in LinesOf(dialect), m \in Lines(s),
         m.type \in UsageTypes
  PROVE  /\ m.usage \in Counts
         /\ dialect # "anthropic" =>
               /\ m.type = "chunk"
               /\ m.usage # NoUsage =>
                     IF Finished(s) THEN dialect = "openai" /\ ~UsageSent(s) ELSE Finishes(m)
         /\ dialect = "anthropic" =>
               \/ m.type = "message_start" /\ Places(s, "message_start") = {}
               \/ /\ m.type = "message_delta" /\ Places(s, "message_start") # {}
                  /\ ~Finished(s) /\ Finishes(m)
                  /\ m.usage \in Tokens =>
                        \A i \in Places(s, "message_start") : m.usage >= Count(s[i].usage)
<1>1. m.usage \in Counts /\ m # Junk
  BY DEF LinesOf, Parsed, Translated, Junk, ChunkLines, BlockLines, UsageTypes
<1>2. \A t, u, f : /\ Wordless(t, u, f).type = "chunk" /\ Wordless(t, u, f).usage = u
                   /\ Wordless(t, u, f).finish = f
  BY DEF Wordless, Chunk
<1>3. CASE dialect = "openai"
  <2>1. m \in OpenAiLines(s) /\ m.type = "chunk"
    BY <1>1, <1>3 DEF Lines, LinesOf, Translated, ChunkLines
  <2>2. CASE Finished(s)
    <3>1. ~UsageSent(s)
      BY <2>1, <2>2 DEF OpenAiLines
    <3>2. QED
      BY <1>1, <1>3, <2>1, <2>2, <3>1
  <2>3. CASE ~Finished(s)
    <3> DEFINE n == Cardinality(Begun(s))
    <3>1. ASSUME m.usage # NoUsage PROVE Finishes(m)
      <4>1. \/ m = TextChunk
            \/ \E b \in Begun(s) : m = Wordless(<<MoreOf(b)>>, NoUsage, Unfinished)
            \/ \E k \in {j \in 1..2 : n + j <= MaxCalls} :
                  m = Wordless(NewCalls(n, k), NoUsage, Unfinished)
            \/ \E u \in Tokens \cup {NoUsage},
                  r \in {"length", IF n > 0 THEN "tool_calls" ELSE "stop"} :
                  m = Wordless(<<>>, u, r)
        BY <2>1, <2>3 DEF OpenAiLines
      <4>2. m # TextChunk
        BY <3>1 DEF TextChunk, Chunk
      <4>3. \A t : m # Wordless(t, NoUsage, Unfinished)
        BY <1>2, <3>1
      <4>4. PICK r \in {"length", IF n > 0 THEN "tool_calls" ELSE "stop"} :
                   \E u : m = Wordless(<<>>, u, r)
        BY <4>1, <4>2, <4>3
      <4>5. m.finish = r
        BY <1>2, <4>4
      <4> HIDE DEF n
      <4>6. QED
        BY <2>1, <4>4, <4>5 DEF Finishes, Unfinished
    <3>2. QED
      BY <1>1, <1>3, <2>1, <2>3, <3>1
  <2>4. QED
    BY <2>2, <2>3
<1>4. CASE dialect = "ollama"
  <2>1. m \in OllamaLines(s) /\ m.type = "chunk"
    BY <1>1, <1>4 DEF Lines, LinesOf, Translated, ChunkLines
  <2>2. ~Finished(s)
    BY <2>1 DEF OllamaLines
  <2> DEFINE n == Cardinality(Begun(s))
  <2>3. \/ \E k \in 0..MaxCalls - n : m = Chunk(k = 0, NewCalls(n, k), NoUsage, Unfinished)
        \/ \E k \in 0..MaxCalls - n, u \in Tokens \cup {NoUsage, Uncounted},
              r \in {"stop", "length"} : m = Wordless(NewCalls(n, k), u, r)
    BY <2>1, <2>2 DEF OllamaLines
  <2>4. ASSUME m.usage # NoUsage PROVE Finishes(m)
    <3>1. \A b, t : Chunk(b, t, NoUsage, Unfinished).usage = NoUsage
      BY DEF Chunk
    <3>2. PICK r \in {"stop", "length"} : \E t, u : m = Wordless(t, u, r)
      BY <2>3, <2>4, <3>1
    <3>3. m.finish = r
      BY <1>2, <3>2
    <3>4. QED
      BY <2>1, <3>2, <3>3 DEF Finishes, Unfinished
  <2>5. QED
    BY <1>1, <1>4, <2>1, <2>2, <2>4
<1>5. CASE dialect = "anthropic"
  <2> DEFINE opened == Places(s, "message_start")
  <2>1. m \in AnthropicLines(s) /\ m.type \in {"message_start", "message_delta"}
    BY <1>1, <1>5 DEF Lines, LinesOf, Translated, BlockLines, UsageTypes
  <2>2. CASE opened = {}
    <3>1. \E u : m = MessageStart(u)
      BY <2>1, <2>2 DEF AnthropicLines
    <3>2. m.type = "message_start"
      BY <3>1 DEF MessageStart
    <3>3. QED
      BY <1>1, <1>5, <2>2, <3>2
  <2>3. CASE opened # {}
    <3>1. ~Finished(s)
      BY <2>1, <2>3 DEF AnthropicLines
    <3>2. /\ \A b : TextBlock(b).type = "content_block_start" /\ ToolBlock(b).type = "content_block_start"
          /\ \A b : JsonDelta(b).type = "content_block_delta" /\ TextDelta(b).type = "content_block_delta"
      BY DEF TextBlock, ToolBlock, JsonDelta, TextDelta
    <3>3. \/ \E b : m \in {TextBlock(b), ToolBlock(b), JsonDelta(b), TextDelta(b)}
          \/ \E u \in {t \in Tokens : \A i \in opened : t >= Count(s[i].usage)}
                         \cup {NoUsage, Uncounted}, r \in {"max_tokens", "tool_use", "end_turn"} :
                m = MessageDelta(u, r)
      BY <2>1, <2>3, <3>1 DEF AnthropicLines
    <3>4. PICK u \in {t \in Tokens : \A i \in opened : t >= Count(s[i].usage)}
                       \cup {NoUsage, Uncounted}, r \in {"max_tokens", "tool_use", "end_turn"} :
                m = MessageDelta(u, r)
      BY <2>1, <3>2, <3>3
    <3>5. m.type = "message_delta" /\ m.usage = u /\ m.finish = r
      BY <3>4 DEF MessageDelta
    <3>6. Finishes(m)
      BY <3>4, <3>5 DEF Finishes, Unfinished
    <3>7. NoUsage \notin Tokens /\ Uncounted \notin Tokens
      BY DEF StreamsAssumption, NoUsage, Uncounted
    <3>8. m.usage \in Tokens => \A i \in opened : m.usage >= Count(s[i].usage)
      BY <3>4, <3>5, <3>7
    <3>9. QED
      BY <1>1, <1>5, <2>3, <3>1, <3>5, <3>6, <3>8
  <2>4. QED
    BY <2>2, <2>3
<1>6. QED
  BY <1>3, <1>4, <1>5 DEF Parsed

\* v is the greatest of the counts, or 0.
Greatest(v, counts) == v \in counts \cup {0} /\ 0 <= v /\ \A c \in counts : c <= v

\* The last usage event has the greatest count of a body, and there is one if
\* the body has a usage; the anthropic parser remembers what was counted first.
UsageFits(s, p) ==
    LET told == Places(p.events, "usage")
        counts == CountsOf(s)
    IN  /\ told = {} => counts \subseteq {NoUsage}
        /\ dialect # "anthropic" /\ ~Finished(s) => counts \subseteq {NoUsage}
        /\ dialect = "anthropic" /\ Places(s, "message_start") = {} => counts = {}
        /\ dialect = "anthropic" /\ ~Finished(s) =>
              \A n \in ToSet(s) : n.type \in UsageTypes => n.type = "message_start"
        /\ \E v \in Nat :
              /\ Greatest(v, counts)
              /\ dialect = "anthropic" /\ ~Finished(s) => Count(p.memory.usage) = v
              /\ told # {} => \E i \in told : (\A j \in told : j <= i) /\ p.events[i].input = v

\* The counts of a body with one more line.
LEMMA CountsOn ==
  ASSUME NEW s \in Seq(LinesOf(dialect)), NEW m
  PROVE  CountsOf(Append(s, m)) = CountsOf(s) \cup (IF m.type \in UsageTypes THEN {m.usage} ELSE {})
<1>1. ToSet(Append(s, m)) = ToSet(s) \cup {m}
  BY BegunOn
<1>2. QED
  BY <1>1 DEF CountsOf

\* The count that a line adds is the greatest.
LEMMA CountAdded ==
  ASSUME StreamsAssumption, dialect \in Parsed,
         NEW s \in Seq(LinesOf(dialect)), NEW m \in LinesOf(dialect), m \in Lines(s),
         NEW p \in Progress, UsageFits(s, p), Counted(dialect, m)
  PROVE  LET v == InputOf(m, p.memory)
         IN  /\ v \in Nat
             /\ Greatest(v, CountsOf(s) \cup {m.usage})
             /\ dialect = "anthropic" /\ m.type = "message_start" => Count(m.usage) = v
<1> DEFINE v == InputOf(m, p.memory)
<1>1. m.type \in UsageTypes /\ m.usage # NoUsage /\ (dialect = "ollama" => m.finish # Unfinished)
  BY DEF Counted, UsageTypes
<1>2. /\ m.usage \in Counts
      /\ dialect # "anthropic" =>
            /\ m.type = "chunk"
            /\ IF Finished(s) THEN dialect = "openai" /\ ~UsageSent(s) ELSE Finishes(m)
      /\ dialect = "anthropic" =>
            \/ m.type = "message_start" /\ Places(s, "message_start") = {}
            \/ /\ m.type = "message_delta" /\ Places(s, "message_start") # {}
               /\ ~Finished(s) /\ Finishes(m)
               /\ m.usage \in Tokens =>
                     \A i \in Places(s, "message_start") : m.usage >= Count(s[i].usage)
  BY <1>1, UsageOfLine
<1>3. \A u \in Counts : u \in Int /\ u >= -2 /\ (u # NoUsage => u >= -1) /\ (u >= 0 => u \in Tokens)
  BY DEF StreamsAssumption, Counts, Uncounted, NoUsage
<1>4. \A u \in Int : Count(u) \in Nat /\ Count(u) >= u /\ (Count(u) = u \/ Count(u) = 0)
                     /\ (u >= 0 => Count(u) = u)
  BY DEF Count
<1>5. CASE CountsOf(s) \subseteq {NoUsage} /\ v = Count(m.usage)
  <2>1. \A c \in CountsOf(s) \cup {m.usage} : c <= v
    BY <1>2, <1>3, <1>4, <1>5 DEF NoUsage
  <2>2. v \in Nat /\ v \in {m.usage, 0}
    BY <1>2, <1>3, <1>4, <1>5
  <2> HIDE DEF v
  <2>3. Greatest(v, CountsOf(s) \cup {m.usage})
    BY <2>1, <2>2 DEF Greatest
  <2>4. QED
    BY <1>5, <2>2, <2>3 DEF v
<1>6. CASE dialect # "anthropic"
  <2>1. CountsOf(s) \subseteq {NoUsage}
    <3>1. CASE ~Finished(s)
      BY <1>6, <3>1 DEF UsageFits
    <3>2. CASE Finished(s)
      <4>1. \A n \in ToSet(s) : n.type = "chunk" => n.usage = NoUsage
        BY <1>2, <1>6, <3>2 DEF UsageSent
      <4>2. \A n \in ToSet(s) : n.type \in UsageTypes => n.type = "chunk"
        <5>1. \A n \in LinesOf(dialect) : n.type \in UsageTypes => n.type = "chunk"
          BY <1>6 DEF LinesOf, Parsed, Translated, Junk, ChunkLines, UsageTypes
        <5>2. ToSet(s) \subseteq LinesOf(dialect)
          BY DEF ToSet
        <5>3. QED
          BY <5>1, <5>2
      <4>3. QED
        BY <4>1, <4>2 DEF CountsOf
    <3>3. QED
      BY <3>1, <3>2
  <2>2. v = Count(m.usage)
    BY <1>2, <1>6 DEF InputOf
  <2>3. QED
    BY <1>5, <2>1, <2>2
<1>7. CASE dialect = "anthropic" /\ m.type = "message_start"
  <2>1. CountsOf(s) = {}
    BY <1>2, <1>7 DEF UsageFits
  <2>2. v = Count(m.usage)
    BY <1>7 DEF InputOf
  <2>3. QED
    BY <1>5, <2>1, <2>2
<1>8. CASE dialect = "anthropic" /\ m.type = "message_delta"
  <2>1. PICK w \in Nat : Greatest(w, CountsOf(s)) /\ Count(p.memory.usage) = w
    BY <1>2, <1>8 DEF UsageFits
  <2>2. v = Count(IF m.usage = Uncounted THEN p.memory.usage ELSE m.usage)
    BY <1>8 DEF InputOf, InputCount
  <2>3. CASE m.usage = Uncounted
    <3>1. v = w
      BY <2>1, <2>2, <2>3
    <3>2. m.usage <= w
      BY <2>1, <2>3 DEF Uncounted
    <3> HIDE DEF v
    <3>3. QED
      BY <1>8, <2>1, <3>1, <3>2 DEF Greatest, v
  <2>4. CASE m.usage # Uncounted
    <3>1. m.usage \in Tokens /\ m.usage \in Nat
      BY <1>1, <1>2, <2>4 DEF Counts, StreamsAssumption
    <3>2. v = m.usage
      BY <1>4, <2>2, <2>4, <3>1
    <3>3. w <= m.usage
      <4>1. CASE w = 0
        BY <3>1, <4>1
      <4>2. CASE w # 0
        <5>1. PICK n \in ToSet(s) : n.type \in UsageTypes /\ n.usage = w
          BY <2>1, <4>2 DEF Greatest, CountsOf
        <5>2. n.type = "message_start"
          BY <1>2, <1>8, <5>1 DEF UsageFits
        <5>3. PICK i \in DOMAIN s : s[i] = n
          BY <5>1 DEF ToSet
        <5>4. i \in Places(s, "message_start")
          BY <5>2, <5>3 DEF Places
        <5>5. m.usage >= Count(w)
          BY <1>2, <1>8, <3>1, <5>1, <5>3, <5>4
        <5>6. Count(w) = w
          BY <1>4
        <5>7. QED
          BY <3>1, <5>5, <5>6
      <4>3. QED
        BY <4>1, <4>2
    <3>4. \A c \in CountsOf(s) : c <= m.usage
      <4>1. \A c \in CountsOf(s) : c <= w /\ c \in Int
        <5>1. CountsOf(s) \subseteq Int
          <6>1. \A n \in LinesOf(dialect) : n.type \in UsageTypes => n.usage \in Counts
            BY DEF LinesOf, Parsed, Translated, Junk, ChunkLines, BlockLines, UsageTypes
          <6>2. ToSet(s) \subseteq LinesOf(dialect)
            BY DEF ToSet
          <6>3. QED
            BY <1>3, <6>1, <6>2 DEF CountsOf
        <5>2. QED
          BY <2>1, <5>1 DEF Greatest
      <4>2. QED
        BY <3>1, <3>3, <4>1
    <3> HIDE DEF v
    <3>5. QED
      BY <1>8, <3>1, <3>2, <3>4 DEF Greatest, v
  <2>5. QED
    BY <2>3, <2>4
<1>9. QED
  BY <1>1, <1>2, <1>6, <1>7, <1>8

\* Only the start of a message leaves a count in memory.
LEMMA UsageRemembered ==
  ASSUME NEW d \in Parsed, NEW m \in LinesOf(d), NEW mem \in Memories
  PROVE  Remembered(d, m, mem).usage =
            IF m.type = "message_start" /\ m.usage # NoUsage THEN m.usage ELSE mem.usage
<1>1. CASE m.type = "message_start" /\ m.usage # NoUsage
  BY <1>1 DEF Remembered, Memories, TakesOrdinal
<1>2. CASE ~(m.type = "message_start" /\ m.usage # NoUsage) /\ TakesOrdinal(m)
  BY <1>2 DEF Remembered, Memories, TakesOrdinal
<1>3. CASE ~(m.type = "message_start" /\ m.usage # NoUsage) /\ ~TakesOrdinal(m)
  BY <1>3 DEF Remembered, Memories
<1>4. QED
  BY <1>1, <1>2, <1>3

\* One more line keeps the usage events right.
LEMMA UsageFitsOn ==
  ASSUME StreamsAssumption, dialect \in Parsed,
         NEW s \in Seq(LinesOf(dialect)), NEW m \in LinesOf(dialect), m \in Lines(s),
         NEW p \in Progress, UsageFits(s, p)
  PROVE  UsageFits(Append(s, m), Processed(dialect, p, m))
<1> DEFINE t == Append(s, m)
           q == Processed(dialect, p, m)
           mem == p.memory
           v == InputOf(m, mem)
           e == Usage(v)
           sent == m.type \in UsageTypes
           opened == Places(s, "message_start")
<1>1. mem \in Memories /\ p.events \in Seq(ParserEvents)
  BY DEF Progress
<1>2. /\ q.events = p.events \o LineEvents(dialect, m, mem)
      /\ q.memory = Remembered(dialect, m, mem)
  BY ProcessedParts
<1>3. Gained(p.events, q.events, "usage", Counted(dialect, m), e)
  <2> HIDE DEF mem, e, q
  <2>1. QED
    BY <1>1, <1>2, LineAdds DEF e, v
<1>4. Finished(t) <=> Finished(s) \/ Finishes(m)
  BY CallsOn
<1>5. CountsOf(t) = CountsOf(s) \cup (IF sent THEN {m.usage} ELSE {})
  BY CountsOn
<1>6. ToSet(t) = ToSet(s) \cup {m}
  BY BegunOn
<1>7. Places(t, "message_start") = opened \cup (IF m.type = "message_start" THEN {Len(s) + 1} ELSE {})
  BY PlacesOn
<1>8. q.memory.usage = IF m.type = "message_start" /\ m.usage # NoUsage THEN m.usage ELSE mem.usage
  <2> HIDE DEF mem, q
  <2>1. QED
    BY <1>1, <1>2, UsageRemembered
<1>9. sent =>
         /\ m.usage \in Counts
         /\ dialect # "anthropic" =>
               /\ m.type = "chunk"
               /\ m.usage # NoUsage =>
                     IF Finished(s) THEN dialect = "openai" /\ ~UsageSent(s) ELSE Finishes(m)
         /\ dialect = "anthropic" =>
               \/ m.type = "message_start" /\ opened = {}
               \/ m.type = "message_delta" /\ opened # {} /\ ~Finished(s) /\ Finishes(m)
  BY UsageOfLine
<1>10. /\ Counted(dialect, m) <=>
             sent /\ m.usage # NoUsage /\ (dialect = "ollama" => m.finish # Unfinished)
       /\ Finishes(m) => sent /\ m.finish # Unfinished
       /\ e.type = "usage" /\ e.input = v
  BY DEF Counted, UsageTypes, Finishes, Usage
<1>11. ~Counted(dialect, m) /\ sent => m.usage = NoUsage
  BY <1>9, <1>10
<1>12. Counted(dialect, m) =>
          /\ v \in Nat
          /\ Greatest(v, CountsOf(s) \cup {m.usage})
          /\ dialect = "anthropic" /\ m.type = "message_start" => Count(m.usage) = v
  BY CountAdded
<1>13. m.type = "message_start" => sent
  BY DEF UsageTypes
<1> HIDE DEF t, q, mem, v, e, sent, opened
<1>14. Places(q.events, "usage") = {} => CountsOf(t) \subseteq {NoUsage}
  <2> SUFFICES ASSUME Places(q.events, "usage") = {} PROVE CountsOf(t) \subseteq {NoUsage}
    OBVIOUS
  <2>1. ~Counted(dialect, m) /\ Places(p.events, "usage") = {}
    BY <1>3 DEF Gained
  <2>2. CountsOf(s) \subseteq {NoUsage}
    BY <2>1 DEF UsageFits
  <2>3. QED
    BY <1>5, <1>11, <2>1, <2>2
<1>15. dialect # "anthropic" /\ ~Finished(t) => CountsOf(t) \subseteq {NoUsage}
  <2> SUFFICES ASSUME dialect # "anthropic", ~Finished(t) PROVE CountsOf(t) \subseteq {NoUsage}
    OBVIOUS
  <2>1. CountsOf(s) \subseteq {NoUsage}
    BY <1>4 DEF UsageFits
  <2>2. sent => m.usage = NoUsage
    BY <1>4, <1>9
  <2>3. QED
    BY <1>5, <2>1, <2>2
<1>16. dialect = "anthropic" /\ Places(t, "message_start") = {} => CountsOf(t) = {}
  <2> SUFFICES ASSUME dialect = "anthropic", Places(t, "message_start") = {} PROVE CountsOf(t) = {}
    OBVIOUS
  <2>1. opened = {} /\ m.type # "message_start"
    BY <1>7
  <2>2. CountsOf(s) = {}
    BY <2>1 DEF UsageFits, opened
  <2>3. ~sent
    BY <1>9, <2>1
  <2>4. QED
    BY <1>5, <2>2, <2>3
<1>17. dialect = "anthropic" /\ ~Finished(t) =>
          \A n \in ToSet(t) : n.type \in UsageTypes => n.type = "message_start"
  <2> SUFFICES ASSUME dialect = "anthropic", ~Finished(t)
               PROVE  \A n \in ToSet(t) : n.type \in UsageTypes => n.type = "message_start"
    OBVIOUS
  <2>1. \A n \in ToSet(s) : n.type \in UsageTypes => n.type = "message_start"
    BY <1>4 DEF UsageFits
  <2>2. m.type \in UsageTypes => m.type = "message_start"
    BY <1>4, <1>9 DEF sent
  <2>3. QED
    BY <1>6, <2>1, <2>2
<1> DEFINE Newest(w) ==
              /\ Greatest(w, CountsOf(t))
              /\ dialect = "anthropic" /\ ~Finished(t) => Count(q.memory.usage) = w
              /\ Places(q.events, "usage") # {} =>
                    \E i \in Places(q.events, "usage") :
                       /\ \A j \in Places(q.events, "usage") : j <= i
                       /\ q.events[i].input = w
<1>18. CASE ~Counted(dialect, m)
  <2>1. PICK w \in Nat :
            /\ Greatest(w, CountsOf(s))
            /\ dialect = "anthropic" /\ ~Finished(s) => Count(mem.usage) = w
            /\ Places(p.events, "usage") # {} =>
                  \E i \in Places(p.events, "usage") :
                     /\ \A j \in Places(p.events, "usage") : j <= i
                     /\ p.events[i].input = w
    BY DEF UsageFits, mem
  <2>2. Greatest(w, CountsOf(t))
    <3>1. sent => m.usage = NoUsage /\ NoUsage <= w
      BY <1>11, <1>18 DEF NoUsage
    <3>2. QED
      BY <1>5, <2>1, <3>1 DEF Greatest
  <2>3. q.memory.usage = mem.usage
    BY <1>8, <1>11, <1>13, <1>18
  <2>4. /\ Places(q.events, "usage") = Places(p.events, "usage")
        /\ \A i \in Places(p.events, "usage") : q.events[i] = p.events[i]
    BY <1>3, <1>18 DEF Gained
  <2>5. Newest(w)
    BY <1>4, <2>1, <2>2, <2>3, <2>4
  <2>6. QED
    BY <1>14, <1>15, <1>16, <1>17, <2>5 DEF UsageFits, t, q
<1>19. CASE Counted(dialect, m)
  <2>1. v \in Nat /\ Greatest(v, CountsOf(t))
    BY <1>5, <1>10, <1>12, <1>19
  <2>2. dialect = "anthropic" /\ ~Finished(t) => Count(q.memory.usage) = v
    BY <1>4, <1>8, <1>9, <1>10, <1>12, <1>19
  <2>3. PICK i \in Nat : /\ \A j \in Places(p.events, "usage") : j < i
                         /\ Places(q.events, "usage") = Places(p.events, "usage") \cup {i}
                         /\ q.events[i] = e
    BY <1>3, <1>19 DEF Gained
  <2>4. \A j \in Places(q.events, "usage") : j <= i
    <3>1. Places(p.events, "usage") \subseteq 1..Len(p.events) /\ Len(p.events) \in Nat
      <4>1. DOMAIN p.events = 1..Len(p.events) /\ Len(p.events) \in Nat
        BY <1>1
      <4>2. QED
        BY <4>1 DEF Places
    <3>2. QED
      BY <2>3, <3>1
  <2>5. Newest(v)
    BY <1>10, <2>1, <2>2, <2>3, <2>4
  <2>6. QED
    BY <1>14, <1>15, <1>16, <1>17, <2>1, <2>5 DEF UsageFits, t, q
<1>20. QED
  BY <1>18, <1>19

\* What a parser makes of any body has its usage right.
LEMMA UsageOfBody ==
  ASSUME StreamsAssumption, dialect \in Parsed,
         NEW b \in Seq(LinesOf(dialect)), Sent(b)
  PROVE  UsageFits(b, ParseLines(dialect, b))
<1> DEFINE P == {s \in Seq(LinesOf(dialect)) : UsageFits(s, ParseLines(dialect, s))}
<1>1. <<>> \in P
  <2>1. <<>> \in Seq(LinesOf(dialect))
    OBVIOUS
  <2>2. ParseLines(dialect, <<>>) = Start
    BY <2>1, ParseLinesSteps
  <2>3. Start.events = <<>> /\ Count(Start.memory.usage) = 0
    BY DEF Start, NoMemory, Count, Uncounted
  <2>4. ToSet(<<>>) = {} /\ \A type : Places(<<>>, type) = {}
    BY DEF ToSet, Places
  <2>5. CountsOf(<<>>) = {} /\ Greatest(0, {})
    BY <2>4 DEF CountsOf, Greatest
  <2> HIDE DEF Start
  <2>6. UsageFits(<<>>, Start)
    <3>1. 0 \in Nat /\ Places(Start.events, "usage") = {} /\ Places(<<>>, "message_start") = {}
      BY <2>3, <2>4
    <3> HIDE DEF Greatest
    <3>2. /\ \E v \in Nat : /\ Greatest(v, CountsOf(<<>>))
                            /\ Count(Start.memory.usage) = v
      BY <2>3, <2>5, <3>1
    <3>3. QED
      BY <2>4, <2>5, <3>1, <3>2 DEF UsageFits
  <2>7. QED
    BY <2>1, <2>2, <2>6
<1>2. ASSUME NEW s \in Seq(LinesOf(dialect)), NEW m \in LinesOf(dialect),
             Sent(s), m \in Lines(s), s \in P
      PROVE  Append(s, m) \in P
  <2>1. /\ ParseLines(dialect, s) \in Progress
        /\ ParseLines(dialect, Append(s, m)) = Processed(dialect, ParseLines(dialect, s), m)
    BY ParseLinesSteps
  <2>2. UsageFits(Append(s, m), Processed(dialect, ParseLines(dialect, s), m))
    BY <1>2, <2>1, UsageFitsOn
  <2>3. QED
    BY <2>1, <2>2
<1> HIDE DEF P
<1>3. b \in P
  BY <1>1, <1>2, AllBodies
<1>4. QED
  BY <1>3 DEF P

\* The greatest of some numbers is their maximum.
LEMMA MaxIs ==
  ASSUME NEW S, NEW v \in S, \A n \in S : n <= v, S \subseteq Int
  PROVE  Max(S) = v
<1>1. \A n \in S : v >= n
  OBVIOUS
<1>2. Max(S) \in S /\ \A n \in S : Max(S) >= n
  BY <1>1 DEF Max
<1> DEFINE w == Max(S)
<1>3. w \in S /\ w >= v
  BY <1>2
<1> HIDE DEF w
<1>4. w = v
  BY <1>1, <1>3
<1>5. QED
  BY <1>4 DEF w

\* When a body was closed and read, the last usage event has the greatest
\* input count of the body: that of a message's start is not lost, and that of
\* its end is not counted twice.
THEOREM UsageComesLast == Spec => []UsageIsComplete
<1>1. ASSUME SInv PROVE UsageIsComplete
  <2> DEFINE told == Places(out, "usage")
             counts == CountsOf(Legible)
  <2> SUFFICES ASSUME dialect \in Parsed, ended, ending = "closed", told # {}
               PROVE  out[Max(told)].input = Max(counts \cup {0})
    BY DEF UsageIsComplete, CountsOf, UsageTypes
  <2>1. PICK s, x :
            /\ s \in Seq(LinesOf(dialect)) /\ Sent(s)
            /\ x \in Seq(ParserEvents) /\ x = ParseLines(dialect, s).events
            /\ s = Legible /\ out = x
    BY <1>1, StreamsAssumption, OutOfBody
  <2>2. UsageFits(s, ParseLines(dialect, s))
    BY <2>1, StreamsAssumption, UsageOfBody
  <2>3. PICK v \in Nat, i \in told :
            /\ Greatest(v, counts)
            /\ \A j \in told : j <= i
            /\ out[i].input = v
    BY <2>1, <2>2 DEF UsageFits
  <2>4. told \subseteq Int
    <3>1. told \subseteq 1..Len(out)
      BY <2>1, PlacesOn
    <3>2. QED
      BY <3>1
  <2>5. counts \subseteq Int
    <3>1. \A n \in LinesOf(dialect) : n.type \in UsageTypes => n.usage \in Counts
      BY DEF LinesOf, Parsed, Translated, Junk, ChunkLines, BlockLines, UsageTypes
    <3>2. ToSet(Legible) \subseteq LinesOf(dialect)
      BY <2>1 DEF ToSet
    <3>3. Counts \subseteq Int
      BY StreamsAssumption DEF StreamsAssumption, Counts, Uncounted, NoUsage
    <3>4. QED
      BY <3>1, <3>2, <3>3 DEF CountsOf
  <2> HIDE DEF told, counts
  <2>6. Max(told) = i
    BY <2>3, <2>4, MaxIs
  <2>7. Max(counts \cup {0}) = v
    <3>1. v \in counts \cup {0} /\ (\A n \in counts \cup {0} : n <= v) /\ counts \cup {0} \subseteq Int
      BY <2>3, <2>5 DEF Greatest
    <3>2. QED
      BY <3>1, MaxIs
  <2>8. QED
    BY <2>3, <2>6, <2>7
<1>2. QED
  BY <1>1, StreamsInvariant, PTL

-----------------------------------------------------------------------------
(* The indexes of tool calls. *)

\* The indexes of the tool calls, and those before a place.
Indexes(f) == {f[j].index : j \in Places(f, "tool")}
Earlier(f, i) == {f[j].index : j \in {k \in Places(f, "tool") : k < i}}

\* The calls in the order of their indexes: every fragment is of the call of
\* its index, and an index starts with the named fragment, when all lower ones
\* have started.
Numbered(f, calls) ==
    LET tools == Places(f, "tool")
    IN  /\ \A a, b \in 1..Len(calls) : calls[a] = calls[b] => a = b
        /\ Indexes(f) = 0..Len(calls) - 1
        /\ \A i \in tools : f[i].call = calls[f[i].index + 1]
        /\ \A i \in tools :
              \E k \in Nat : /\ Earlier(f, i) = 0..k - 1
                             /\ IF f[i].named THEN f[i].index = k ELSE f[i].index \in 0..k - 1

\* The indexes before a place are those before it of the longer sequence.
LEMMA EarlierOn ==
  ASSUME NEW S, NEW f \in Seq(S), NEW e
  PROVE  LET t == Append(f, e)
             n == Len(f) + 1
         IN  /\ Places(t, "tool") = Places(f, "tool") \cup (IF e.type = "tool" THEN {n} ELSE {})
             /\ \A i \in Places(f, "tool") : t[i] = f[i] /\ Earlier(t, i) = Earlier(f, i)
             /\ t[n] = e
             /\ Earlier(t, n) = Indexes(f)
             /\ Indexes(t) = Indexes(f) \cup (IF e.type = "tool" THEN {e.index} ELSE {})
<1> DEFINE t == Append(f, e)
           n == Len(f) + 1
<1>1. /\ Places(t, "tool") = Places(f, "tool") \cup (IF e.type = "tool" THEN {n} ELSE {})
      /\ Places(f, "tool") \subseteq 1..Len(f)
      /\ \A i \in Places(f, "tool") : t[i] = f[i]
      /\ t[n] = e
  BY PlacesOn
<1>2. Len(f) \in Nat
  OBVIOUS
<1>3. \A i \in Places(f, "tool") : i < n /\ ~(n < i)
  BY <1>1, <1>2
<1> HIDE DEF t, n
<1>4. ASSUME NEW i \in Places(f, "tool")
      PROVE  Earlier(t, i) = Earlier(f, i)
  <2>1. {k \in Places(t, "tool") : k < i} = {k \in Places(f, "tool") : k < i}
    BY <1>1, <1>3
  <2>2. \A k \in {l \in Places(f, "tool") : l < i} : t[k].index = f[k].index
    BY <1>1
  <2>3. QED
    BY <2>1, <2>2 DEF Earlier
<1>5. Earlier(t, n) = Indexes(f)
  <2>1. ~(n < n)
    BY <1>2 DEF n
  <2>2. {k \in Places(t, "tool") : k < n} = Places(f, "tool")
    BY <1>1, <1>3, <2>1
  <2>3. \A k \in Places(f, "tool") : t[k].index = f[k].index
    BY <1>1
  <2>4. QED
    BY <2>2, <2>3 DEF Earlier, Indexes
<1>6. Indexes(t) = Indexes(f) \cup (IF e.type = "tool" THEN {e.index} ELSE {})
  <2>1. \A k \in Places(f, "tool") : t[k].index = f[k].index
    BY <1>1
  <2>2. t[n].index = e.index
    BY <1>1
  <2>3. QED
    BY <1>1, <2>1, <2>2 DEF Indexes
<1>7. QED
  BY <1>1, <1>4, <1>5, <1>6 DEF t, n

\* A frame that is of no call, or more of one, or of the next.
LEMMA NumberedOn ==
  ASSUME NEW S, NEW f \in Seq(S), NEW e, NEW calls \in Seq(Nat), Numbered(f, calls)
  PROVE  LET t == Append(f, e)
         IN  /\ e.type # "tool" => Numbered(t, calls)
             /\ /\ e.type = "tool" /\ e.named = FALSE
                /\ e.index \in 0..Len(calls) - 1 /\ e.call = calls[e.index + 1]
                => Numbered(t, calls)
             /\ /\ e.type = "tool" /\ e.named = TRUE
                /\ e.index = Len(calls) /\ e.call \in Nat
                /\ \A a \in 1..Len(calls) : calls[a] # e.call
                => Numbered(t, Append(calls, e.call))
<1> DEFINE t == Append(f, e)
           n == Len(f) + 1
           tools == Places(f, "tool")
           indexes == Indexes(f)
<1>1. /\ Places(t, "tool") = tools \cup (IF e.type = "tool" THEN {n} ELSE {})
      /\ \A i \in tools : t[i] = f[i] /\ Earlier(t, i) = Earlier(f, i)
      /\ t[n] = e
      /\ Earlier(t, n) = indexes
      /\ Indexes(t) = indexes \cup (IF e.type = "tool" THEN {e.index} ELSE {})
  BY EarlierOn
<1>2. /\ \A a, b \in 1..Len(calls) : calls[a] = calls[b] => a = b
      /\ indexes = 0..Len(calls) - 1
      /\ \A i \in tools : f[i].call = calls[f[i].index + 1]
      /\ \A i \in tools :
            \E k \in Nat : /\ Earlier(f, i) = 0..k - 1
                           /\ IF f[i].named THEN f[i].index = k ELSE f[i].index \in 0..k - 1
  BY DEF Numbered
<1>3. Len(calls) \in Nat
  OBVIOUS
<1>4. \A i \in tools : f[i].index \in indexes
  BY DEF Indexes
<1> HIDE DEF t, n, indexes, tools
<1>5. \A i \in tools :
         \E k \in Nat : /\ Earlier(t, i) = 0..k - 1
                        /\ IF t[i].named THEN t[i].index = k ELSE t[i].index \in 0..k - 1
  BY <1>1, <1>2
<1>6. ASSUME e.type # "tool" PROVE Numbered(t, calls)
  <2>1. Places(t, "tool") = tools /\ Indexes(t) = indexes
    BY <1>1, <1>6
  <2>2. \A i \in tools : t[i].call = calls[t[i].index + 1]
    BY <1>1, <1>2
  <2>3. QED
    BY <1>2, <1>5, <2>1, <2>2 DEF Numbered
<1>7. ASSUME e.type = "tool", e.named = FALSE,
             e.index \in 0..Len(calls) - 1, e.call = calls[e.index + 1]
      PROVE  Numbered(t, calls)
  <2>1. /\ Places(t, "tool") = tools \cup {n}
        /\ Indexes(t) = 0..Len(calls) - 1
    BY <1>1, <1>2, <1>7
  <2>2. \A i \in tools : t[i].call = calls[t[i].index + 1]
    BY <1>1, <1>2
  <2>3. t[n].call = calls[t[n].index + 1]
    BY <1>1, <1>7
  <2>4. \E k \in Nat : /\ Earlier(t, n) = 0..k - 1
                       /\ IF t[n].named THEN t[n].index = k ELSE t[n].index \in 0..k - 1
    BY <1>1, <1>2, <1>3, <1>7
  <2>5. QED
    BY <1>2, <1>5, <2>1, <2>2, <2>3, <2>4 DEF Numbered
<1>8. ASSUME e.type = "tool", e.named = TRUE, e.index = Len(calls), e.call \in Nat,
             \A a \in 1..Len(calls) : calls[a] # e.call
      PROVE  Numbered(t, Append(calls, e.call))
  <2> DEFINE more == Append(calls, e.call)
  <2>1. /\ more \in Seq(Nat) /\ Len(more) = Len(calls) + 1
        /\ \A a \in 1..Len(calls) : more[a] = calls[a]
        /\ more[Len(calls) + 1] = e.call
    BY <1>8
  <2> HIDE DEF more
  <2>2. \A a, b \in 1..Len(more) : more[a] = more[b] => a = b
    <3>1. \A a \in 1..Len(more) : a \in 1..Len(calls) \/ a = Len(calls) + 1
      BY <1>3, <2>1
    <3>2. QED
      BY <1>2, <1>8, <2>1, <3>1
  <2>3. /\ Places(t, "tool") = tools \cup {n}
        /\ Indexes(t) = indexes \cup {Len(calls)}
    BY <1>1, <1>8
  <2>4. indexes \cup {Len(calls)} = 0..Len(more) - 1
    BY <1>2, <1>3, <2>1
  <2>5. \A i \in tools : t[i].call = more[t[i].index + 1]
    <3>1. \A i \in tools : f[i].index + 1 \in 1..Len(calls)
      BY <1>2, <1>3, <1>4
    <3>2. QED
      BY <1>1, <1>2, <2>1, <3>1
  <2>6. t[n].call = more[t[n].index + 1]
    BY <1>1, <1>8, <2>1
  <2>7. \E k \in Nat : /\ Earlier(t, n) = 0..k - 1
                       /\ IF t[n].named THEN t[n].index = k ELSE t[n].index \in 0..k - 1
    BY <1>1, <1>2, <1>3, <1>8
  <2>8. Numbered(t, more)
    BY <1>5, <2>2, <2>3, <2>4, <2>5, <2>6, <2>7 DEF Numbered
  <2>9. QED
    BY <2>8 DEF more
<1>9. QED
  BY <1>6, <1>7, <1>8 DEF t

\* The tool calls in the frames of a chat stream of these events.
NumberedTold(x, calls) == Numbered(Told("chat", NothingTold, x).frames, calls)

\* The frame of an event of a call is the event.
LEMMA FrameOfCall ==
  ASSUME NEW e \in Events, NEW f, FramesFor("chat", e) = <<f>>
  PROVE  IF e.type = "tool" THEN f = e ELSE f.type # "tool"
<1> DEFINE g == IF e.type = "error" THEN FinishFrame("error") ELSE FrameOf(e)
<1>1. f = g
  <2>1. FramesFor("chat", e) = <<g>>
    BY DEF FramesFor
  <2> HIDE DEF g
  <2>2. <<f>>[1] = f /\ <<g>>[1] = g
    OBVIOUS
  <2>3. QED
    BY <2>1, <2>2
<1>2. \A r : FinishFrame(r).type = "finish"
  BY DEF FinishFrame
<1>3. e.type \notin {"done", "error"} => g = e
  BY DEF FrameOf
<1>4. e.type \in {"done", "error"} => g.type = "finish"
  BY <1>2 DEF FrameOf
<1> HIDE DEF g
<1>5. QED
  BY <1>1, <1>3, <1>4

\* One more event is of no call, or more of one, or of the next.
LEMMA CallTold ==
  ASSUME NEW x \in Seq(ParserEvents), NEW e \in Events, NEW calls \in Seq(Nat),
         NumberedTold(x, calls)
  PROVE  /\ e.type # "tool" => NumberedTold(Append(x, e), calls)
         /\ /\ e.type = "tool" /\ e.named = FALSE
            /\ e.index \in 0..Len(calls) - 1 /\ e.call = calls[e.index + 1]
            => NumberedTold(Append(x, e), calls)
         /\ /\ e.type = "tool" /\ e.named = TRUE
            /\ e.index = Len(calls) /\ e.call \in Nat
            /\ \A a \in 1..Len(calls) : calls[a] # e.call
            => NumberedTold(Append(x, e), Append(calls, e.call))
<1> DEFINE c == Told("chat", NothingTold, x)
           t == Told("chat", NothingTold, Append(x, e))
           role == "chat" = "chat" /\ ~c.firstChunkEmitted /\ StartsMessage(e)
           frames == IF role THEN Append(c.frames, RoleFrame) ELSE c.frames
<1>0. x \in Seq(Events) /\ NothingTold \in Clients
  BY ParserEventsAreEvents DEF NothingTold, Clients
<1>1. c \in Clients /\ t = Written("chat", c, e)
  BY <1>0, WrittenSteps
<1>2. ~c.broken
  BY NotBroken
<1>3. Numbered(c.frames, calls) /\ (\A l : NumberedTold(Append(x, e), l) <=> Numbered(t.frames, l))
  BY DEF NumberedTold
<1> HIDE DEF c, t
<1>4. c.frames \in Seq(Frames) /\ RoleFrame.type # "tool"
  BY <1>1 DEF Clients, RoleFrame
<1>5. frames \in Seq(Frames) /\ Numbered(frames, calls)
  <2> DEFINE u == Append(c.frames, RoleFrame)
  <2>1. Numbered(u, calls)
    <3> DEFINE r == RoleFrame
    <3>1. r.type # "tool"
      BY <1>4
    <3> HIDE DEF r
    <3>2. r.type # "tool" => Numbered(Append(c.frames, r), calls)
      BY <1>3, <1>4, NumberedOn
    <3>3. QED
      BY <3>1, <3>2 DEF r
  <2>2. u \in Seq(Frames)
    BY <1>4 DEF Frames
  <2> HIDE DEF u
  <2>3. frames = u \/ frames = c.frames
    BY DEF u
  <2> HIDE DEF frames
  <2>4. QED
    BY <1>3, <1>4, <2>1, <2>2, <2>3
<1>6. \/ FramesFor("chat", e) = <<>> /\ t.frames = frames /\ ~role
      \/ \E f \in Frames : FramesFor("chat", e) = <<f>> /\ t.frames = Append(frames, f)
  <2> DEFINE w == Written("chat", c, e)
  <2>1. \/ FramesFor("chat", e) = <<>> /\ w.frames = frames /\ ~role
        \/ \E f \in Frames : FramesFor("chat", e) = <<f>> /\ w.frames = Append(frames, f)
    BY <1>1, <1>2, FramesAdded
  <2> HIDE DEF w, frames, role
  <2>2. QED
    BY <1>1, <2>1 DEF w
<1> HIDE DEF frames, role
<1>7. FramesFor("chat", e) # <<>>
  BY DEF FramesFor
<1>8. PICK f \in Frames : FramesFor("chat", e) = <<f>> /\ t.frames = Append(frames, f)
  BY <1>6, <1>7
<1>9. IF e.type = "tool" THEN f = e ELSE f.type # "tool"
  BY <1>8, FrameOfCall
<1>10. /\ f.type # "tool" => Numbered(t.frames, calls)
       /\ /\ f.type = "tool" /\ f.named = FALSE
          /\ f.index \in 0..Len(calls) - 1 /\ f.call = calls[f.index + 1]
          => Numbered(t.frames, calls)
       /\ /\ f.type = "tool" /\ f.named = TRUE
          /\ f.index = Len(calls) /\ f.call \in Nat
          /\ \A a \in 1..Len(calls) : calls[a] # f.call
          => Numbered(t.frames, Append(calls, f.call))
  BY <1>5, <1>8, NumberedOn
<1>11. e.type # "tool" => Numbered(t.frames, calls)
  BY <1>9, <1>10
<1>12. /\ e.type = "tool" /\ e.named = FALSE
       /\ e.index \in 0..Len(calls) - 1 /\ e.call = calls[e.index + 1]
       => Numbered(t.frames, calls)
  BY <1>9, <1>10
<1>13. /\ e.type = "tool" /\ e.named = TRUE
       /\ e.index = Len(calls) /\ e.call \in Nat
       /\ \A a \in 1..Len(calls) : calls[a] # e.call
       => Numbered(t.frames, Append(calls, e.call))
  BY <1>9, <1>10
<1>14. QED
  BY <1>3, <1>11, <1>12, <1>13

\* An event of no call, on a condition.
LEMMA OtherTold ==
  ASSUME NEW x \in Seq(ParserEvents), NEW b, NEW e, b => e \in ParserEvents /\ e.type # "tool",
         NEW calls \in Seq(Nat), NumberedTold(x, calls)
  PROVE  x \o When(b, e) \in Seq(ParserEvents) /\ NumberedTold(x \o When(b, e), calls)
<1>1. CASE ~b
  <2>1. When(b, e) = <<>> /\ x \o <<>> = x
    BY <1>1 DEF When
  <2>2. QED
    BY <2>1
<1>2. CASE b
  <2>1. x \o When(b, e) = Append(x, e)
    BY <1>2 DEF When
  <2>2. e \in Events /\ e.type # "tool" /\ Append(x, e) \in Seq(ParserEvents)
    BY <1>2 DEF Events
  <2>3. NumberedTold(Append(x, e), calls)
    BY <2>2, CallTold
  <2>4. QED
    BY <2>1, <2>2, <2>3
<1>3. QED
  BY <1>1, <1>2

\* A line adds what its tool calls add.
LEMMA LineTold ==
  ASSUME NEW d \in Parsed, NEW m \in LinesOf(d), NEW mem \in Memories,
         NEW x \in Seq(ParserEvents), NEW calls \in Seq(Nat), NEW more \in Seq(Nat),
         NumberedTold(x, calls),
         \A y \in Seq(ParserEvents) :
            NumberedTold(y, calls) => NumberedTold(y \o ToolsOf(d, m, mem), more)
  PROVE  NumberedTold(x \o LineEvents(d, m, mem), more)
<1> DEFINE Tools == [type : {"tool"}, call : Nat, index : Int, named : BOOLEAN]
           T == ToolsOf(d, m, mem)
           u == Usage(InputOf(m, mem))
           e == Done(ReasonOf(d, m, mem))
           A == When(Speaks(m), Content)
           U == When(Counted(d, m), u)
           D == When(Finishes(m), e)
           x1 == x \o A
           x2 == x1 \o T
           x3 == x2 \o U
           x4 == x3 \o D
<1>1. /\ T \in Seq(Tools)
      /\ Counted(d, m) => u \in ParserEvents
      /\ Finishes(m) => e \in ParserEvents
      /\ LineEvents(d, m, mem) = A \o (T \o (U \o D))
  BY LineParts
<1>2. Content \in ParserEvents /\ Content.type = "content" /\ u.type = "usage" /\ e.type = "done"
  BY DEF Content, ParserEvents, Usage, Done
<1>3. T \in Seq(ParserEvents)
  <2>1. Tools \subseteq ParserEvents
    BY DEF ParserEvents
  <2> HIDE DEF T, Tools
  <2>2. QED
    BY <1>1, <2>1
<1>4. A \in Seq(ParserEvents) /\ U \in Seq(ParserEvents) /\ D \in Seq(ParserEvents)
  BY <1>1, <1>2, WhenIsSeq
<1> DEFINE k == Content
<1>5. k \in ParserEvents /\ k.type # "tool" /\ A = When(Speaks(m), k)
  BY <1>2
<1> HIDE DEF T, u, e, Tools, k
<1>6. x1 \in Seq(ParserEvents) /\ NumberedTold(x1, calls)
  <2> DEFINE b == Speaks(m)
             z == x \o When(b, k)
  <2> HIDE DEF b
  <2>1. z \in Seq(ParserEvents) /\ NumberedTold(z, calls)
    BY <1>5, OtherTold
  <2>2. z = x1
    BY <1>5 DEF b
  <2> HIDE DEF x1, z
  <2>3. QED
    BY <2>1, <2>2
<1> HIDE DEF A, x1
<1>7. x2 \in Seq(ParserEvents) /\ NumberedTold(x2, more)
  <2>1. x2 \in Seq(ParserEvents)
    BY <1>3, <1>6
  <2>2. NumberedTold(x2, more)
    BY <1>6 DEF T
  <2>3. QED
    BY <2>1, <2>2
<1> HIDE DEF x2
<1>8. x3 \in Seq(ParserEvents) /\ NumberedTold(x3, more)
  <2>1. Counted(d, m) => u \in ParserEvents /\ u.type # "tool"
    BY <1>1, <1>2
  <2>2. QED
    BY <1>7, <2>1, OtherTold
<1> HIDE DEF U, x3
<1>9. x4 \in Seq(ParserEvents) /\ NumberedTold(x4, more)
  <2>1. Finishes(m) => e \in ParserEvents /\ e.type # "tool"
    BY <1>1, <1>2
  <2>2. QED
    BY <1>8, <2>1, OtherTold
<1>10. x \o LineEvents(d, m, mem) = x4
  <2> DEFINE w == U \o D
             v == T \o w
  <2>1. w \in Seq(ParserEvents) /\ v \in Seq(ParserEvents)
    BY <1>3, <1>4
  <2>2. x4 = x2 \o w
    BY <1>4, <1>7 DEF x3
  <2> HIDE DEF w
  <2>3. x2 \o w = x1 \o v
    BY <1>3, <1>6, <2>1 DEF x2
  <2> HIDE DEF v
  <2>4. x1 \o v = x \o (A \o v)
    BY <1>4, <2>1 DEF x1
  <2>5. LineEvents(d, m, mem) = A \o v
    BY <1>1 DEF v, w
  <2>6. QED
    BY <2>2, <2>3, <2>4, <2>5
<1>11. QED
  BY <1>9, <1>10

\* The calls of a chunked body in the order in which they begin, and the events
\* of k more of them when n have begun.
Ident(n) == [i \in 1..n |-> i - 1]
NewTools(n, k) == [i \in 1..k |-> Tool(n + i - 1, n + i - 1, TRUE)]

\* One more call.
LEMMA IdentIs ==
  ASSUME NEW n \in Nat
  PROVE  /\ Ident(n) \in Seq(Nat) /\ Len(Ident(n)) = n
         /\ \A i \in 1..n : Ident(n)[i] = i - 1
         /\ Append(Ident(n), n) = Ident(n + 1)
<1>1. \A i \in 1..n : i - 1 \in Nat
  OBVIOUS
<1>2. Ident(n) \in Seq(Nat) /\ Len(Ident(n)) = n /\ \A i \in 1..n : Ident(n)[i] = i - 1
  BY <1>1 DEF Ident
<1>3. Append(Ident(n), n) = Ident(n + 1)
  BY <1>1 DEF Ident
<1>4. QED
  BY <1>2, <1>3

\* A tool call event.
LEMMA ToolIs ==
  ASSUME NEW c \in Nat, NEW i \in Int, NEW b \in BOOLEAN
  PROVE  /\ Tool(c, i, b) \in ParserEvents /\ Tool(c, i, b) \in Events
         /\ Tool(c, i, b).type = "tool" /\ Tool(c, i, b).call = c
         /\ Tool(c, i, b).index = i /\ Tool(c, i, b).named = b
  BY DEF Tool, ParserEvents, Events

\* The first events of new calls continue the numbers.
LEMMA NewCallsTold ==
  ASSUME NEW n \in Nat, NEW k \in Nat, NEW y \in Seq(ParserEvents),
         NumberedTold(y, Ident(n))
  PROVE  NumberedTold(y \o NewTools(n, k), Ident(n + k))
<1> DEFINE x(j) == y \o NewTools(n, j)
           S == {j \in Nat : x(j) \in Seq(ParserEvents) /\ NumberedTold(x(j), Ident(n + j))}
<1>1. 0 \in S
  <2>1. NewTools(n, 0) = <<>>
    BY DEF NewTools
  <2>2. x(0) = y /\ n + 0 = n
    BY <2>1
  <2>3. QED
    BY <2>2
<1>2. ASSUME NEW j \in Nat, j \in S
      PROVE  j + 1 \in S
  <2> DEFINE yes == TRUE
             e == Tool(n + j, n + j, yes)
  <2>1. /\ e \in ParserEvents /\ e \in Events /\ e.type = "tool" /\ e.call = n + j
        /\ e.index = n + j /\ e.named = TRUE
    <3>1. n + j \in Nat /\ n + j \in Int /\ yes \in BOOLEAN
      OBVIOUS
    <3> HIDE DEF yes
    <3>2. /\ e \in ParserEvents /\ e \in Events /\ e.type = "tool" /\ e.call = n + j
          /\ e.index = n + j /\ e.named = yes
      BY <3>1, ToolIs
    <3>3. yes = TRUE
      BY DEF yes
    <3> HIDE DEF e
    <3>4. QED
      BY <3>2, <3>3
  <2>2. NewTools(n, j + 1) = Append(NewTools(n, j), e)
    <3> DEFINE f(i) == Tool(n + i - 1, n + i - 1, TRUE)
               a == [i \in 1..j |-> f(i)]
               b == [i \in 1..j + 1 |-> f(i)]
    <3>1. f(j + 1) = e
      OBVIOUS
    <3> HIDE DEF f, e
    <3>2. b = Append(a, e)
      BY <3>1
    <3>3. QED
      BY <3>2 DEF NewTools, f
  <2>3. NewTools(n, j) \in Seq(ParserEvents)
    <3>1. \A i \in 1..j : Tool(n + i - 1, n + i - 1, TRUE) \in ParserEvents
      <4>1. \A i \in 1..j : n + i - 1 \in Nat /\ n + i - 1 \in Int
        OBVIOUS
      <4>2. \A c \in Nat : Tool(c, c, TRUE) \in ParserEvents
        BY DEF Tool, ParserEvents
      <4>3. QED
        BY <4>1, <4>2
    <3> DEFINE f(i) == Tool(n + i - 1, n + i - 1, TRUE)
    <3>2. \A i \in 1..j : f(i) \in ParserEvents
      BY <3>1
    <3> HIDE DEF f
    <3>3. [i \in 1..j |-> f(i)] \in Seq(ParserEvents)
      BY <3>2
    <3>4. QED
      BY <3>3 DEF NewTools, f
  <2>4. x(j + 1) = Append(x(j), e) /\ x(j) \in Seq(ParserEvents)
    <3> DEFINE z == NewTools(n, j)
    <3>1. z \in Seq(ParserEvents)
      BY <2>3
    <3>2. NewTools(n, j + 1) = Append(z, e)
      BY <2>2
    <3> HIDE DEF z, e
    <3>3. y \o Append(z, e) = Append(y \o z, e) /\ y \o z \in Seq(ParserEvents)
      BY <2>1, <3>1
    <3>4. QED
      BY <3>2, <3>3 DEF z
  <2>5. NumberedTold(x(j), Ident(n + j))
    BY <1>2
  <2> HIDE DEF e, x
  <2>6. /\ Ident(n + j) \in Seq(Nat) /\ Len(Ident(n + j)) = n + j
        /\ \A i \in 1..n + j : Ident(n + j)[i] = i - 1
        /\ Append(Ident(n + j), n + j) = Ident(n + j + 1)
    <3> DEFINE c == n + j
    <3>1. c \in Nat
      OBVIOUS
    <3> HIDE DEF c
    <3>2. /\ Ident(c) \in Seq(Nat) /\ Len(Ident(c)) = c
          /\ \A i \in 1..c : Ident(c)[i] = i - 1
          /\ Append(Ident(c), c) = Ident(c + 1)
      BY <3>1, IdentIs
    <3>3. QED
      BY <3>2 DEF c
  <2>7. \A a \in 1..Len(Ident(n + j)) : Ident(n + j)[a] # e.call
    BY <2>1, <2>6
  <2>8. e.index = Len(Ident(n + j)) /\ e.call \in Nat
    BY <2>1, <2>6
  <2>9. NumberedTold(Append(x(j), e), Append(Ident(n + j), e.call))
    BY <2>1, <2>4, <2>5, <2>6, <2>7, <2>8, CallTold
  <2>10. NumberedTold(x(j + 1), Ident(n + j + 1))
    BY <2>1, <2>4, <2>6, <2>9
  <2>11. x(j + 1) \in Seq(ParserEvents) /\ n + (j + 1) = n + j + 1
    BY <2>1, <2>4
  <2>12. QED
    BY <2>10, <2>11
<1>3. k \in S
  <2> HIDE DEF S
  <2>1. Nat \subseteq S
    BY <1>1, <1>2, AllNaturals
  <2>2. QED
    BY <2>1
<1>4. QED
  BY <1>3
\* What the tool calls of a chunk add when n have begun; the indexes of ollama
\* are places in a chunk, so it must be the first with calls.
LEMMA ChunkTold ==
  ASSUME StreamsAssumption, NEW d \in {"openai", "ollama"},
         NEW n \in 0..MaxCalls, NEW m \in ChunkLines, NextFragments(m.tools, n),
         d = "ollama" /\ m.tools # <<>> => n = 0, NEW mem
  PROVE  \E k \in 0..MaxCalls :
            /\ (0..n - 1) \cup CallsOf(m) = 0..k - 1
            /\ \A y \in Seq(ParserEvents) :
                  NumberedTold(y, Ident(n)) => NumberedTold(y \o ToolsOf(d, m, mem), Ident(k))
<1>0. n \in Nat /\ MaxCalls \in Nat /\ m.type = "chunk"
  BY DEF StreamsAssumption, ChunkLines
<1>1. CASE \E c \in 0..n - 1 : m.tools = <<MoreOf(c)>>
  <2>1. PICK c \in 0..n - 1 : m.tools = <<MoreOf(c)>>
    BY <1>1
  <2>2. d = "openai" /\ c \in Nat
    BY <1>0, <2>1
  <2> DEFINE no == FALSE
             e == Tool(c, c, no)
  <2>3. CallsOf(m) = {c} /\ (0..n - 1) \cup {c} = 0..n - 1
    <3>1. MoreOf(c).call = c
      BY DEF MoreOf, Fragment
    <3>2. DOMAIN <<MoreOf(c)>> = {1} /\ <<MoreOf(c)>>[1] = MoreOf(c)
      OBVIOUS
    <3>3. QED
      BY <2>1, <3>1, <3>2 DEF CallsOf
  <2>4. ToolsOf(d, m, mem) = <<e>>
    <3> DEFINE tools == m.tools
               f(i) == Tool(tools[i].call, IF d = "openai" THEN tools[i].call ELSE i - 1,
                            d = "openai" => tools[i].first)
    <3>1. DOMAIN tools = {1} /\ DOMAIN tools = 1..1 /\ tools[1] = MoreOf(c)
      BY <2>1
    <3>2. MoreOf(c).call = c /\ MoreOf(c).first = FALSE
      BY DEF MoreOf, Fragment
    <3>3. ToolsOf(d, m, mem) = [i \in DOMAIN tools |-> f(i)]
      BY <1>0 DEF ToolsOf
    <3>4. f(1) = e
      BY <2>2, <3>1, <3>2
    <3> HIDE DEF tools, f, e
    <3>5. ToolsOf(d, m, mem) = [i \in 1..1 |-> f(i)]
      BY <3>1, <3>3
    <3>6. [i \in 1..1 |-> f(i)] = <<f(1)>>
      OBVIOUS
    <3>7. QED
      BY <3>4, <3>5, <3>6
  <2>5. /\ e \in ParserEvents /\ e \in Events /\ e.type = "tool" /\ e.call = c
        /\ e.index = c /\ e.named = FALSE
    <3>1. c \in Int /\ no \in BOOLEAN
      BY <2>2
    <3> HIDE DEF no
    <3>2. /\ e \in ParserEvents /\ e \in Events /\ e.type = "tool" /\ e.call = c
          /\ e.index = c /\ e.named = no
      BY <2>2, <3>1, ToolIs
    <3>3. no = FALSE
      BY DEF no
    <3> HIDE DEF e
    <3>4. QED
      BY <3>2, <3>3
  <2> HIDE DEF e
  <2>6. /\ Ident(n) \in Seq(Nat) /\ Len(Ident(n)) = n
        /\ \A i \in 1..n : Ident(n)[i] = i - 1
    BY <1>0, IdentIs
  <2>7. c + 1 \in 1..n /\ (c + 1) - 1 = c /\ c \in 0..n - 1
    BY <1>0
  <2>8. e.index \in 0..Len(Ident(n)) - 1 /\ e.call = Ident(n)[e.index + 1]
    BY <2>5, <2>6, <2>7
  <2>9. ASSUME NEW y \in Seq(ParserEvents), NumberedTold(y, Ident(n))
        PROVE  NumberedTold(y \o ToolsOf(d, m, mem), Ident(n))
    <3>1. NumberedTold(Append(y, e), Ident(n))
      BY <2>5, <2>6, <2>8, <2>9, CallTold
    <3>2. y \o <<e>> = Append(y, e)
      OBVIOUS
    <3>3. QED
      BY <2>4, <3>1, <3>2
  <2>10. QED
    BY <2>3, <2>9
<1>2. CASE \E k \in 0..MaxCalls - n : m.tools = NewCalls(n, k)
  <2>1. PICK k \in 0..MaxCalls - n : m.tools = NewCalls(n, k)
    BY <1>2
  <2>2. k \in Nat /\ n + k \in 0..MaxCalls
    BY <1>0, <2>1
  <2>3. CallsOf(m) = n..n + k - 1 /\ (0..n - 1) \cup (n..n + k - 1) = 0..(n + k) - 1
    <3>1. {NewCalls(n, k)[i].call : i \in DOMAIN NewCalls(n, k)} = n..n + k - 1
      BY <1>0, <2>2, NewCallsTyped
    <3> DEFINE new == NewCalls(n, k)
    <3>2. {new[i].call : i \in DOMAIN new} = n..n + k - 1 /\ m.tools = new
      BY <2>1, <3>1
    <3>3. (0..n - 1) \cup (n..n + k - 1) = 0..(n + k) - 1
      BY <1>0, <2>2
    <3> HIDE DEF new
    <3>4. QED
      BY <3>2, <3>3 DEF CallsOf
  <2>4. ToolsOf(d, m, mem) = NewTools(n, k)
    <3> DEFINE tools == m.tools
               f(i) == Tool(tools[i].call, IF d = "openai" THEN tools[i].call ELSE i - 1,
                            d = "openai" => tools[i].first)
               g(i) == Tool(n + i - 1, n + i - 1, TRUE)
    <3>1. DOMAIN tools = 1..k /\ \A i \in 1..k : tools[i] = FirstOf(n + i - 1)
      BY <2>1 DEF NewCalls
    <3>2. \A i \in 1..k : tools[i].call = n + i - 1 /\ tools[i].first = TRUE
      <4>1. \A c : FirstOf(c).call = c /\ FirstOf(c).first = TRUE
        BY DEF FirstOf, Fragment
      <4> HIDE DEF tools
      <4>2. QED
        BY <3>1, <4>1
    <3>3. d = "ollama" => \A i \in 1..k : n + i - 1 = i - 1
      <4>1. ASSUME d = "ollama", NEW i \in 1..k PROVE n = 0
        <5>1. tools # <<>>
          BY <3>1
        <5>2. QED
          BY <4>1, <5>1
      <4>2. QED
        BY <4>1
    <3>4. \A i \in 1..k : f(i) = g(i)
      <4>1. CASE d = "openai"
        BY <3>2, <4>1
      <4>2. CASE d # "openai"
        <5>1. d = "ollama" /\ (d = "openai") = FALSE
          BY <4>2
        <5>2. \A i \in 1..k : f(i) = Tool(tools[i].call, i - 1, TRUE)
          BY <5>1
        <5> HIDE DEF f, tools
        <5>3. QED
          BY <3>2, <3>3, <5>1, <5>2
      <4>3. QED
        BY <4>1, <4>2
    <3>5. ToolsOf(d, m, mem) = [i \in DOMAIN tools |-> f(i)] /\ NewTools(n, k) = [i \in 1..k |-> g(i)]
      BY <1>0 DEF ToolsOf, NewTools
    <3> HIDE DEF f, g, tools
    <3>6. QED
      BY <3>1, <3>4, <3>5
  <2>5. \A y \in Seq(ParserEvents) :
           NumberedTold(y, Ident(n)) => NumberedTold(y \o NewTools(n, k), Ident(n + k))
    BY <1>0, <2>2, NewCallsTold
  <2>6. QED
    BY <2>2, <2>3, <2>4, <2>5
<1>3. QED
  BY <1>1, <1>2 DEF NextFragments

\* The tool blocks in memory are among the blocks that have started.
Started(s, tools) ==
    \A i \in 1..Len(tools) : tools[i] < Cardinality(Places(s, "content_block_start"))

\* The blocks of anthropic are numbered as they start.
LEMMA BlockIs ==
  ASSUME dialect = "anthropic", NEW s, NEW m \in Lines(s), m.type = "content_block_start"
  PROVE  m.block = Cardinality(Places(s, "content_block_start"))
<1> DEFINE n == Cardinality(Places(s, "content_block_start"))
<1>1. m # Junk
  BY DEF Junk
<1>2. m \in AnthropicLines(s)
  BY <1>1 DEF Lines
<1>3. /\ \A u : MessageStart(u).type # "content_block_start"
      /\ \A u, r : MessageDelta(u, r).type # "content_block_start"
      /\ \A b : /\ JsonDelta(b).type # "content_block_start"
                /\ TextDelta(b).type # "content_block_start"
                /\ TextBlock(b).block = b /\ ToolBlock(b).block = b
  BY DEF MessageStart, MessageDelta, JsonDelta, TextDelta, TextBlock, ToolBlock
<1>4. \/ \E u : m = MessageStart(u)
      \/ m = TextBlock(n) \/ m = ToolBlock(n)
      \/ m = JsonDelta(n - 1) \/ m = TextDelta(n - 1)
      \/ \E u, r : m = MessageDelta(u, r)
  BY <1>2 DEF AnthropicLines
<1> HIDE DEF n
<1>5. m = TextBlock(n) \/ m = ToolBlock(n)
  BY <1>3, <1>4
<1>6. m.block = n
  BY <1>3, <1>5
<1>7. QED
  BY <1>6 DEF n

\* The ordinal of a block that starts is the next one.
LEMMA OrdinalIsNext ==
  ASSUME NEW tools \in Seq(Nat), NEW b \in Nat, \A i \in 1..Len(tools) : tools[i] # b
  PROVE  Ordinal(b, Append(tools, b)) = Len(tools)
<1> DEFINE t == Append(tools, b)
           o == Ordinal(b, t)
           n == Len(tools)
<1>1. /\ t \in Seq(Nat) /\ Len(t) = n + 1 /\ t[n + 1] = b /\ n \in Nat
      /\ \A i \in 1..n : t[i] = tools[i]
  OBVIOUS
<1>2. n + 1 \in 1..Len(t)
  BY <1>1
<1> HIDE DEF t, n
<1>3. /\ o \in Int
      /\ (\E i \in 1..Len(t) : t[i] = b) =>
            /\ o + 1 \in 1..Len(t)
            /\ t[o + 1] = b
            /\ \A i \in 1..Len(t) : t[i] = b => o + 1 <= i
  BY <1>1, OrdinalIsFirst
<1> HIDE DEF o
<1>4. o \in Int /\ o + 1 \in 1..n + 1 /\ t[o + 1] = b
  BY <1>1, <1>2, <1>3
<1>5. o + 1 \notin 1..n
  BY <1>1, <1>4 DEF n
<1>6. o = n
  BY <1>1, <1>4, <1>5
<1>7. QED
  BY <1>6 DEF o, t, n

\* What the tool calls of a line of anthropic add.
LEMMA BlockTold ==
  ASSUME StreamsAssumption, dialect = "anthropic",
         NEW s \in Seq(LinesOf(dialect)), NEW m \in LinesOf(dialect), m \in Lines(s),
         NEW mem \in Memories, Started(s, mem.tools)
  PROVE  LET after == Remembered(dialect, m, mem).tools
         IN  /\ Started(Append(s, m), after)
             /\ \A y \in Seq(ParserEvents) :
                   NumberedTold(y, mem.tools) =>
                      NumberedTold(y \o ToolsOf(dialect, m, mem), after)
<1> DEFINE d == dialect
           t == Append(s, m)
           after == Remembered(d, m, mem).tools
           tools == mem.tools
           n == Cardinality(Places(s, "content_block_start"))
           l == Cardinality(Places(t, "content_block_start"))
<1>1. tools \in Seq(Nat)
  BY DEF Memories
<1>2. n \in Nat /\ l = IF m.type = "content_block_start" THEN n + 1 ELSE n
  <2> DEFINE P == Places(s, "content_block_start")
             Q == Places(t, "content_block_start")
             k == Len(s) + 1
  <2>1. /\ Q = P \cup (IF m.type = "content_block_start" THEN {k} ELSE {})
        /\ IsFiniteSet(P) /\ k \notin P
    BY PlacesOn
  <2> HIDE DEF P, Q, k
  <2>2. Cardinality(P) \in Nat /\ Cardinality(P \cup {k}) = Cardinality(P) + 1
    BY <2>1, FS_CardinalityType, FS_AddElement
  <2>3. Cardinality(Q) = IF m.type = "content_block_start" THEN Cardinality(P) + 1 ELSE Cardinality(P)
    BY <2>1, <2>2
  <2>4. QED
    BY <2>2, <2>3 DEF P, Q
<1>3. \A i \in 1..Len(tools) : tools[i] < n
  BY DEF Started
<1>4. m \in BlockLines \/ m = Junk
  BY DEF LinesOf, Translated
<1>5. \A i \in 1..Len(tools) : tools[i] \in Nat
  BY <1>1
<1>6. \A i \in 1..Len(tools) : tools[i] < l
  BY <1>2, <1>3, <1>5
<1> DEFINE T == ToolsOf(d, m, mem)
           Good == \A y \in Seq(ParserEvents) :
                      NumberedTold(y, tools) => NumberedTold(y \o T, after)
<1>7. CASE m.type = "content_block_start" /\ m.tool
  <2> DEFINE b == m.block
             yes == TRUE
             e == Tool(b, Ordinal(b, Append(tools, b)), yes)
  <2>1. b = n
    BY <1>7, BlockIs
  <2>2. T = <<e>>
    BY <1>7 DEF ToolsOf, When
  <2>3. after = Append(tools, b)
    <3>1. Remembered(d, m, mem) = [mem EXCEPT !.tools = Append(@, m.block)]
      BY <1>7 DEF Remembered, TakesOrdinal
    <3>2. QED
      BY <3>1 DEF Memories
  <2> HIDE DEF b, n, l, tools
  <2>4. b \in Nat /\ \A i \in 1..Len(tools) : tools[i] # b
    BY <1>2, <1>3, <1>5, <2>1
  <2>5. Ordinal(b, Append(tools, b)) = Len(tools) /\ Len(tools) \in Int
    BY <1>1, <2>4, OrdinalIsNext
  <2>6. /\ e \in Events /\ e.type = "tool" /\ e.call = b
        /\ e.index = Len(tools) /\ e.named = TRUE
    <3>1. yes \in BOOLEAN
      OBVIOUS
    <3> HIDE DEF yes
    <3>2. /\ e \in ParserEvents /\ e \in Events /\ e.type = "tool" /\ e.call = b
          /\ e.index = Len(tools) /\ e.named = yes
      BY <2>4, <2>5, <3>1, ToolIs
    <3>3. yes = TRUE
      BY DEF yes
    <3> HIDE DEF e
    <3>4. QED
      BY <3>2, <3>3
  <2> HIDE DEF e, T, after
  <2>7. ASSUME NEW y \in Seq(ParserEvents), NumberedTold(y, tools)
        PROVE  NumberedTold(y \o T, after)
    <3>1. NumberedTold(Append(y, e), Append(tools, e.call))
      BY <1>1, <2>4, <2>6, <2>7, CallTold
    <3>2. y \o <<e>> = Append(y, e)
      OBVIOUS
    <3>3. QED
      BY <2>2, <2>3, <2>6, <3>1, <3>2
  <2>8. \A i \in 1..Len(after) : after[i] < l
    <3>1. Len(after) = Len(tools) + 1 /\ after[Len(tools) + 1] = b
          /\ \A i \in 1..Len(tools) : after[i] = tools[i]
      BY <1>1, <2>3, <2>4
    <3>2. l = n + 1 /\ n \in Nat
      BY <1>2, <1>7
    <3>3. \A i \in 1..Len(tools) + 1 : i \in 1..Len(tools) \/ i = Len(tools) + 1
      BY <1>1
    <3>4. b < l
      BY <2>1, <3>2
    <3>5. QED
      BY <1>6, <3>1, <3>3, <3>4
  <2>9. QED
    BY <2>7, <2>8 DEF Started, T, after, tools, l
<1>8. CASE m.type = "content_block_delta" /\ m.json /\ Contains(tools, m.block)
  <2> DEFINE b == m.block
             no == FALSE
             o == Ordinal(b, tools)
             e == Tool(b, o, no)
  <2>1. T = <<e>>
    BY <1>8 DEF ToolsOf, When
  <2>2. after = tools
    BY <1>8 DEF Remembered, TakesOrdinal
  <2>3. \E i \in 1..Len(tools) : tools[i] = b
    BY <1>8 DEF Contains
  <2> HIDE DEF b, n, l, tools
  <2>4. b \in Nat
    BY <1>5, <2>3
  <2>5. o \in Int /\ o + 1 \in 1..Len(tools) /\ tools[o + 1] = b
    BY <1>1, <2>3, OrdinalIsFirst
  <2> HIDE DEF o
  <2>6. o \in 0..Len(tools) - 1
    BY <1>1, <2>5
  <2>7. /\ e \in Events /\ e.type = "tool" /\ e.call = b
        /\ e.index = o /\ e.named = FALSE
    <3>1. no \in BOOLEAN
      OBVIOUS
    <3> HIDE DEF no
    <3>2. /\ e \in ParserEvents /\ e \in Events /\ e.type = "tool" /\ e.call = b
          /\ e.index = o /\ e.named = no
      BY <2>4, <2>5, <3>1, ToolIs
    <3>3. no = FALSE
      BY DEF no
    <3> HIDE DEF e
    <3>4. QED
      BY <3>2, <3>3
  <2> HIDE DEF e, T, after
  <2>8. ASSUME NEW y \in Seq(ParserEvents), NumberedTold(y, tools)
        PROVE  NumberedTold(y \o T, after)
    <3>1. NumberedTold(Append(y, e), tools)
      BY <1>1, <2>5, <2>6, <2>7, <2>8, CallTold
    <3>2. y \o <<e>> = Append(y, e)
      OBVIOUS
    <3>3. QED
      BY <2>1, <2>2, <3>1, <3>2
  <2>9. QED
    BY <1>6, <2>2, <2>8 DEF Started, T, after, tools, l
<1>9. CASE /\ ~(m.type = "content_block_start" /\ m.tool)
           /\ ~(m.type = "content_block_delta" /\ m.json /\ Contains(tools, m.block))
  <2>1. m.type # "chunk"
    BY <1>4 DEF BlockLines, Junk
  <2>2. T = <<>>
    BY <1>9, <2>1 DEF ToolsOf, When
  <2>3. after = tools
    BY <1>9, <2>1 DEF Remembered, TakesOrdinal, Memories
  <2> HIDE DEF T, after, tools, l
  <2>4. \A y \in Seq(ParserEvents) : y \o T = y
    BY <2>2
  <2>5. Good
    BY <2>3, <2>4
  <2>6. QED
    BY <1>6, <2>3, <2>5 DEF Started, T, after, tools, l
<1>10. QED
  BY <1>7, <1>8, <1>9

\* At most one chunk has tool calls.
OneChunk(s) ==
    LET chunks == {i \in Places(s, "chunk") : s[i].tools # <<>>}
    IN  \A i, j \in chunks : i = j

\* The calls that a parser has told of are numbered in the order in which the
\* upstream began them.
CallsFit(s, p) ==
    IF dialect = "anthropic"
    THEN Started(s, p.memory.tools) /\ NumberedTold(p.events, p.memory.tools)
    ELSE (dialect = "ollama" => OneChunk(s)) =>
            \E n \in 0..MaxCalls : Begun(s) = 0..n - 1 /\ NumberedTold(p.events, Ident(n))

\* If there is one, and it comes now, no call has begun.
LEMMA OneChunkOn ==
  ASSUME dialect = "ollama", NEW s \in Seq(LinesOf(dialect)), NEW m \in LinesOf(dialect),
         OneChunk(Append(s, m))
  PROVE  /\ OneChunk(s)
         /\ m.type = "chunk" /\ m.tools # <<>> => Begun(s) = {}
<1> DEFINE t == Append(s, m)
           k == Len(s) + 1
           P == Places(s, "chunk")
           Q == Places(t, "chunk")
<1>1. /\ Q = P \cup (IF m.type = "chunk" THEN {k} ELSE {})
      /\ P \subseteq 1..Len(s)
      /\ \A i \in P : t[i] = s[i] /\ s[i].type = "chunk"
      /\ t[k] = m /\ k \notin P
  BY PlacesOn
<1>2. \A i, j \in Q : t[i].tools # <<>> /\ t[j].tools # <<>> => i = j
  BY DEF OneChunk
<1> HIDE DEF t, k, P, Q
<1>3. \A i, j \in P : s[i].tools # <<>> /\ s[j].tools # <<>> => i = j
  BY <1>1, <1>2
<1>4. OneChunk(s)
  BY <1>3 DEF OneChunk, P
<1>5. ASSUME m.type = "chunk", m.tools # <<>>
      PROVE  Begun(s) = {}
  <2>1. ASSUME NEW i \in P
        PROVE  s[i].tools = <<>>
    <3>1. i \in Q /\ k \in Q /\ i # k /\ t[i] = s[i] /\ t[k] = m
      BY <1>1, <1>5
    <3>2. t[k].tools # <<>>
      BY <1>5, <3>1
    <3>3. t[i].tools = <<>>
      BY <1>2, <3>1, <3>2
    <3>4. QED
      BY <3>1, <3>3
  <2>2. \A i \in DOMAIN s : s[i].type = "chunk" => i \in P
    BY DEF P, Places
  <2>3. \A c \in ToSet(s) : c.type = "chunk" => c.tools = <<>>
    BY <2>1, <2>2 DEF ToSet
  <2>4. DOMAIN <<>> = {}
    OBVIOUS
  <2>5. \A c \in ToSet(s) : c.type = "chunk" => CallsOf(c) = {}
    BY <2>3, <2>4 DEF CallsOf
  <2>6. QED
    BY <2>5 DEF Begun
<1>6. QED
  BY <1>4, <1>5

\* They still are after one more line.
LEMMA CallsFitOn ==
  ASSUME StreamsAssumption, dialect \in Parsed,
         NEW s \in Seq(LinesOf(dialect)), NEW m \in LinesOf(dialect), m \in Lines(s),
         NEW p \in Progress, CallsFit(s, p)
  PROVE  CallsFit(Append(s, m), Processed(dialect, p, m))
<1> DEFINE t == Append(s, m)
           q == Processed(dialect, p, m)
           mem == p.memory
           x == p.events
<1>1. mem \in Memories /\ x \in Seq(ParserEvents) /\ mem.tools \in Seq(Nat)
  BY DEF Progress, Memories
<1>2. /\ q.events = x \o LineEvents(dialect, m, mem)
      /\ q.memory = Remembered(dialect, m, mem)
  BY ProcessedParts
<1> HIDE DEF q, x, mem
<1>3. CASE dialect = "anthropic"
  <2> DEFINE after == Remembered(dialect, m, mem).tools
  <2>1. Started(s, mem.tools) /\ NumberedTold(x, mem.tools)
    BY <1>3 DEF CallsFit, x, mem
  <2>2. /\ Started(t, after)
        /\ \A y \in Seq(ParserEvents) :
              NumberedTold(y, mem.tools) => NumberedTold(y \o ToolsOf(dialect, m, mem), after)
    BY <1>1, <1>3, <2>1, BlockTold
  <2>3. after \in Seq(Nat)
    <3>1. Remembered(dialect, m, mem) \in Memories
      BY <1>1, LineTyped
    <3>2. QED
      BY <3>1 DEF Memories
  <2> HIDE DEF after
  <2>4. NumberedTold(x \o LineEvents(dialect, m, mem), after)
    BY <1>1, <2>1, <2>2, <2>3, LineTold
  <2>5. q.memory.tools = after
    BY <1>2 DEF after
  <2>6. QED
    BY <1>2, <1>3, <2>2, <2>4, <2>5 DEF CallsFit, q
<1>4. CASE dialect # "anthropic"
  <2> SUFFICES ASSUME dialect = "ollama" => OneChunk(t)
               PROVE  \E k \in 0..MaxCalls : Begun(t) = 0..k - 1 /\ NumberedTold(q.events, Ident(k))
    BY <1>4 DEF CallsFit, q
  <2>0. dialect \in {"openai", "ollama"} /\ MaxCalls \in Nat
    BY <1>4 DEF Parsed, StreamsAssumption
  <2>1. dialect = "ollama" => OneChunk(s) /\ (m.type = "chunk" /\ m.tools # <<>> => Begun(s) = {})
    BY OneChunkOn
  <2>2. PICK n \in 0..MaxCalls : Begun(s) = 0..n - 1 /\ NumberedTold(x, Ident(n))
    BY <1>4, <2>1 DEF CallsFit, x
  <2>3. n \in Nat /\ Ident(n) \in Seq(Nat)
    <3>1. n \in Nat
      BY <2>0
    <3>2. QED
      BY <3>1, IdentIs
  <2>4. Begun(t) = Begun(s) \cup (IF m.type = "chunk" THEN CallsOf(m) ELSE {})
    BY BegunOn
  <2>5. m = Junk \/ (m \in ChunkLines /\ NextFragments(m.tools, n))
    BY <2>0, <2>2, ChunkSent
  <2> HIDE DEF t
  <2>6. CASE m = Junk
    <3>1. m.type = "junk"
      BY <2>6 DEF Junk
    <3> DEFINE T == ToolsOf(dialect, m, mem)
    <3>2. T = <<>>
      BY <3>1 DEF ToolsOf, When
    <3> HIDE DEF T
    <3>3. \A y \in Seq(ParserEvents) : NumberedTold(y, Ident(n)) => NumberedTold(y \o T, Ident(n))
      BY <3>2
    <3>4. NumberedTold(x \o LineEvents(dialect, m, mem), Ident(n))
      BY <1>1, <2>2, <2>3, <3>3, LineTold DEF T
    <3>5. Begun(t) = 0..n - 1
      BY <2>2, <2>4, <3>1
    <3>6. QED
      BY <1>2, <3>4, <3>5
  <2>7. CASE m \in ChunkLines /\ NextFragments(m.tools, n)
    <3>1. m.type = "chunk"
      BY <2>7 DEF ChunkLines
    <3>2. dialect = "ollama" /\ m.tools # <<>> => n = 0
      <4>1. ASSUME dialect = "ollama", m.tools # <<>> PROVE n = 0
        <5>1. 0..n - 1 = {}
          BY <2>1, <2>2, <3>1, <4>1
        <5>2. n > 0 => 0 \in 0..n - 1
          BY <2>3
        <5>3. QED
          BY <2>3, <5>1, <5>2
      <4>2. QED
        BY <4>1
    <3>3. PICK k \in 0..MaxCalls :
             /\ (0..n - 1) \cup CallsOf(m) = 0..k - 1
             /\ \A y \in Seq(ParserEvents) :
                   NumberedTold(y, Ident(n)) =>
                      NumberedTold(y \o ToolsOf(dialect, m, mem), Ident(k))
      BY <2>0, <2>7, <3>2, ChunkTold
    <3>4. Ident(k) \in Seq(Nat)
      <4>1. k \in Nat
        BY <2>0
      <4>2. QED
        BY <4>1, IdentIs
    <3>5. NumberedTold(x \o LineEvents(dialect, m, mem), Ident(k))
      BY <1>1, <2>2, <2>3, <3>3, <3>4, LineTold
    <3>6. Begun(t) = 0..k - 1
      BY <2>2, <2>4, <3>1, <3>3
    <3>7. QED
      BY <1>2, <3>5, <3>6
  <2>8. QED
    BY <2>5, <2>6, <2>7
<1>5. QED
  BY <1>3, <1>4

\* Nothing told is numbered.
LEMMA NoCallsTold == NumberedTold(<<>>, <<>>)
<1>1. NothingTold \in Clients /\ NothingTold.frames = <<>> /\ <<>> \in Seq(Events)
  <2>1. <<>> \in Seq(Events)
    OBVIOUS
  <2>2. QED
    BY <2>1 DEF NothingTold, Clients
<1>2. Told("chat", NothingTold, <<>>) = NothingTold
  BY <1>1, WrittenSteps
<1>3. Places(<<>>, "tool") = {} /\ Len(<<>>) = 0
  BY DEF Places
<1>4. Indexes(<<>>) = {}
  BY <1>3 DEF Indexes
<1>5. 0..Len(<<>>) - 1 = {} /\ 1..Len(<<>>) = {}
  BY <1>3
<1>6. Numbered(<<>>, <<>>)
  BY <1>3, <1>4, <1>5 DEF Numbered
<1>7. QED
  BY <1>1, <1>2, <1>6 DEF NumberedTold

\* What a parser makes of any body fits the body.
LEMMA ParsedCallsFit ==
  ASSUME StreamsAssumption, dialect \in Parsed,
         NEW b \in Seq(LinesOf(dialect)), Sent(b)
  PROVE  CallsFit(b, ParseLines(dialect, b))
<1> DEFINE P == {s \in Seq(LinesOf(dialect)) : CallsFit(s, ParseLines(dialect, s))}
<1>1. <<>> \in P
  <2>1. <<>> \in Seq(LinesOf(dialect))
    OBVIOUS
  <2>2. ParseLines(dialect, <<>>) = Start
    BY <2>1, ParseLinesSteps
  <2>3. Start.events = <<>> /\ Start.memory.tools = <<>>
    BY DEF Start, NoMemory
  <2>4. Begun(<<>>) = 0..0 - 1
    BY DEF Begun, ToSet
  <2>5. 0 \in 0..MaxCalls
    BY DEF StreamsAssumption
  <2>6. Ident(0) = <<>>
    BY DEF Ident
  <2>7. Started(<<>>, <<>>)
    <3>1. 1..Len(<<>>) = {}
      OBVIOUS
    <3>2. QED
      BY <3>1 DEF Started
  <2> HIDE DEF Start
  <2>8. CallsFit(<<>>, Start)
    BY <2>3, <2>4, <2>5, <2>6, <2>7, NoCallsTold DEF CallsFit
  <2>9. QED
    BY <2>1, <2>2, <2>8
<1>2. ASSUME NEW s \in Seq(LinesOf(dialect)), NEW m \in LinesOf(dialect),
             Sent(s), m \in Lines(s), s \in P
      PROVE  Append(s, m) \in P
  <2> DEFINE p == ParseLines(dialect, s)
             q == ParseLines(dialect, Append(s, m))
  <2>1. p \in Progress /\ q = Processed(dialect, p, m)
    BY ParseLinesSteps
  <2>2. CallsFit(s, p)
    BY <1>2
  <2> HIDE DEF p, q
  <2>3. CallsFit(Append(s, m), q)
    BY <1>2, <2>1, <2>2, CallsFitOn
  <2>4. Append(s, m) \in Seq(LinesOf(dialect))
    OBVIOUS
  <2>5. QED
    BY <2>3, <2>4 DEF q
<1>3. b \in P
  <2> HIDE DEF P
  <2>1. QED
    BY <1>1, <1>2, AllBodies
<1>4. QED
  BY <1>3

\* Translated streams tell of no calls: the providers drop their tool events.
NovaTools ==
    dialect \in Translated => Places(Told(api, NothingTold, out).frames, "tool") = {}

\* An event of no call makes no frame of one.
LEMMA NoCallTold ==
  ASSUME NEW a \in {"chat", "responses"}, NEW x \in Seq(Events),
         NEW e \in Events, e.type # "tool",
         Places(Told(a, NothingTold, x).frames, "tool") = {}
  PROVE  Places(Told(a, NothingTold, x \o <<e>>).frames, "tool") = {}
<1> DEFINE c == Told(a, NothingTold, x)
           t == Told(a, NothingTold, x \o <<e>>)
           w == Written(a, c, e)
           role == a = "chat" /\ ~c.firstChunkEmitted /\ StartsMessage(e)
           frames == IF role THEN Append(c.frames, RoleFrame) ELSE c.frames
<1>1. NothingTold \in Clients
  BY DEF NothingTold, Clients
<1>2. c \in Clients /\ t = w
  <2>1. x \o <<e>> = Append(x, e)
    OBVIOUS
  <2>2. c \in Clients /\ Told(a, NothingTold, Append(x, e)) = w
    BY <1>1, WrittenSteps
  <2> HIDE DEF w
  <2>3. QED
    BY <2>1, <2>2
<1> HIDE DEF c, t
<1>3. c.frames \in Seq(Frames) /\ Places(c.frames, "tool") = {}
  BY <1>2 DEF Clients, c
<1>4. CASE c.broken
  <2>1. w = c
    BY <1>4 DEF Written
  <2>2. QED
    BY <1>2, <1>3, <2>1 DEF t
<1>5. CASE ~c.broken
  <2>1. /\ frames \in Seq(Frames)
        /\ \/ FramesFor(a, e) = <<>> /\ w.frames = frames /\ ~role
           \/ \E f \in Frames : FramesFor(a, e) = <<f>> /\ w.frames = Append(frames, f)
    BY <1>2, <1>5, FramesAdded
  <2>2. \A q \in Seq(Frames), f \in Frames :
           Places(q, "tool") = {} /\ f.type # "tool" => Places(Append(q, f), "tool") = {}
    <3>1. ASSUME NEW q \in Seq(Frames), NEW f \in Frames,
                 Places(q, "tool") = {}, f.type # "tool"
          PROVE  Places(Append(q, f), "tool") = {}
      <4> DEFINE u == Append(q, f)
      <4>1. Places(u, "tool") = Places(q, "tool") \cup (IF f.type = "tool" THEN {Len(q) + 1} ELSE {})
        BY PlacesOn
      <4> HIDE DEF u
      <4>2. Places(u, "tool") = {}
        BY <3>1, <4>1
      <4>3. QED
        BY <4>2 DEF u
    <3>2. QED
      BY <3>1
  <2>3. RoleFrame \in Frames /\ RoleFrame.type # "tool"
    BY DEF RoleFrame, Frames
  <2>4. Places(frames, "tool") = {}
    <3> DEFINE u == Append(c.frames, RoleFrame)
    <3>1. Places(u, "tool") = {}
      BY <1>3, <2>2, <2>3
    <3> HIDE DEF u
    <3>2. frames = u \/ frames = c.frames
      BY DEF u
    <3> HIDE DEF frames
    <3>3. QED
      BY <1>3, <3>1, <3>2
  <2> HIDE DEF frames, role
  <2>5. ASSUME NEW f \in Frames, FramesFor(a, e) = <<f>>
        PROVE  f.type # "tool"
    <3>1. CASE a = "chat"
      BY <2>5, <3>1, FrameOfCall
    <3>2. CASE a = "responses"
      <4>1. FramesFor(a, e) = ResponsesFrames(e)
        BY <3>2 DEF FramesFor
      <4> DEFINE r == [type |-> "response.completed"]
      <4>2. \/ ResponsesFrames(e) = <<Error>> \/ ResponsesFrames(e) = <<Content>>
            \/ ResponsesFrames(e) = <<r>> \/ ResponsesFrames(e) = <<>>
        BY DEF ResponsesFrames
      <4>3. Error.type # "tool" /\ Content.type # "tool" /\ r.type # "tool"
        BY DEF Error, Content
      <4> HIDE DEF r
      <4>4. \A g, h : <<g>> = <<h>> => g = h
        <5>1. ASSUME NEW g, NEW h, <<g>> = <<h>> PROVE g = h
          <6>1. <<g>>[1] = g /\ <<h>>[1] = h
            OBVIOUS
          <6>2. QED
            BY <5>1, <6>1
        <5>2. QED
          BY <5>1
      <4>5. <<f>> # <<>>
        OBVIOUS
      <4>6. f = Error \/ f = Content \/ f = r
        BY <2>5, <4>1, <4>2, <4>4, <4>5
      <4>7. QED
        BY <4>3, <4>6
    <3>3. QED
      BY <3>1, <3>2
  <2> HIDE DEF w
  <2>6. Places(w.frames, "tool") = {}
    BY <2>1, <2>2, <2>4, <2>5
  <2>7. QED
    BY <1>2, <2>6 DEF t
<1>6. QED
  BY <1>4, <1>5

\* What the providers make of nova events is of no call.
LEMMA NovaSilent ==
  ASSUME dialect \in Translated, NEW m \in NovaLineSet
  PROVE  \/ NovaEvents(m) = <<>>
         \/ \E e \in Events : NovaEvents(m) = <<e>> /\ e.type # "tool"
<1>1. /\ Done("stop") \in Events /\ Content \in Events /\ Error \in Events
      /\ Done("stop").type # "tool" /\ Content.type # "tool" /\ Error.type # "tool"
  BY DEF Done, Content, Error, Events, ParserEvents
<1> DEFINE ev == NovaEvents(m)
<1>2. ev = <<>> \/ ev = <<Content>> \/ ev = <<Error>> \/ ev = <<Done("stop")>>
  <2>1. CASE m.type \in {"nova_text", "nova_tool", "nova_error"}
    BY <2>1 DEF NovaEvents, LlamactlEvents, FromFileEvents
  <2>2. CASE m.type = "nova_done"
    <3>1. m.finish = "stop"
      BY <2>2 DEF NovaLineSet
    <3>2. LlamactlDone(m) = Done("stop") \/ LlamactlDone(m) = Error
      BY <3>1 DEF LlamactlDone
    <3>3. ev = <<LlamactlDone(m)>> \/ ev = <<Done("stop")>>
      BY <2>2, <3>1 DEF NovaEvents, LlamactlEvents, FromFileEvents
    <3> HIDE DEF ev
    <3>4. QED
      BY <3>2, <3>3
  <2>3. QED
    BY <2>1, <2>2 DEF NovaLineSet
<1> HIDE DEF ev
<1>3. QED
  BY <1>1, <1>2 DEF ev

\* Every step keeps them out.
LEMMA NextNovaTools ==
  ASSUME SInv, NovaTools, [Next]_vars
  PROVE  NovaTools'
<1> DEFINE told(x) == Told(api, NothingTold, x).frames
<1>1. out \in Seq(Events) /\ api \in {"chat", "responses"}
  BY DEF SInv, ClientInv, BodyInv
<1>2. CASE UNCHANGED <<dialect, api, out>>
  BY <1>2 DEF NovaTools
<1>3. CASE dialect \in Parsed /\ dialect' = dialect
  BY <1>3 DEF NovaTools, Parsed, Translated
<1>4. ASSUME dialect \in Translated, UNCHANGED <<dialect, api>>,
             NEW ev, out' = out \o ev,
             ev = <<>> \/ \E e \in Events : ev = <<e>> /\ e.type # "tool"
      PROVE  NovaTools'
  <2>1. Places(told(out), "tool") = {}
    BY <1>4 DEF NovaTools
  <2>2. CASE ev = <<>>
    <3>1. out' = out
      BY <1>1, <1>4, <2>2
    <3>2. QED
      BY <1>2, <1>4, <3>1
  <2>3. CASE ev # <<>>
    <3>1. PICK e \in Events : ev = <<e>> /\ e.type # "tool"
      BY <1>4, <2>3
    <3>2. Places(told(out \o <<e>>), "tool") = {}
      BY <1>1, <2>1, <3>1, NoCallTold
    <3> DEFINE next == out \o <<e>>
    <3>3. out' = next /\ api' = api /\ Places(told(next), "tool") = {}
      BY <1>4, <3>1, <3>2
    <3> HIDE DEF next
    <3>4. QED
      BY <3>3 DEF NovaTools
  <2>4. QED
    BY <2>2, <2>3
<1>5. CASE Take
  <2> DEFINE m == script[at + 1]
  <2>1. /\ dialect \in Translated /\ ending # "open" /\ at < size
        /\ UNCHANGED <<dialect, api>> /\ out' = out \o NovaEvents(m)
    BY <1>5 DEF Take, bodyVars, Yield
  <2>2. m \in NovaLineSet
    BY <2>1 DEF SInv, BodyInv, LinesOf, Translated, Parsed
  <2> HIDE DEF m
  <2>3. \/ NovaEvents(m) = <<>>
        \/ \E e \in Events : NovaEvents(m) = <<e>> /\ e.type # "tool"
    BY <2>1, <2>2, NovaSilent
  <2> DEFINE ev == NovaEvents(m)
  <2>4. out' = out \o ev /\ (ev = <<>> \/ \E e \in Events : ev = <<e>> /\ e.type # "tool")
    BY <2>1, <2>3
  <2> HIDE DEF ev
  <2>5. QED
    BY <1>4, <2>1, <2>4
<1>6. CASE TakeEnd
  <2>1. /\ dialect \in Translated /\ UNCHANGED <<dialect, api>> /\ out' = out \o NovaEnd
    BY <1>6 DEF TakeEnd, bodyVars, Yield
  <2>2. NovaEnd = <<>> \/ (Error \in Events /\ NovaEnd = <<Error>> /\ Error.type # "tool")
    BY DEF NovaEnd, Error, Events
  <2> DEFINE ev == NovaEnd
  <2>3. out' = out \o ev /\ (ev = <<>> \/ \E e \in Events : ev = <<e>> /\ e.type # "tool")
    BY <2>1, <2>2
  <2> HIDE DEF ev
  <2>4. QED
    BY <1>4, <2>1, <2>3
<1>7. CASE Refuse \/ ReadEnd \/ \E n \in 1..3 * MaxLines : Read(n)
  BY <1>3, <1>7 DEF Refuse, ReadEnd, Read, bodyVars
<1>8. CASE \/ \E m \in Lines(script) : Send(m)
           \/ \E how \in {"closed", "broken"}, cut \in 0..2 : EndBody(how, cut)
           \/ UNCHANGED vars
  BY <1>2, <1>8 DEF Send, EndBody, vars, bodyVars
<1>9. QED
  BY <1>5, <1>6, <1>7, <1>8 DEF Next

\* Both hold in every state.
LEMMA NovaToolsInvariant == Spec => [](SInv /\ NovaTools)
<1>1. Init => NovaTools
  <2> SUFFICES ASSUME Init PROVE NovaTools
    OBVIOUS
  <2>1. Told(api, NothingTold, out) = NothingTold
    <3>1. NothingTold \in Clients /\ <<>> \in Seq(Events)
      BY DEF NothingTold, Clients
    <3>2. QED
      BY <3>1, WrittenSteps DEF Init
  <2>2. Places(<<>>, "tool") = {}
    BY DEF Places
  <2>3. QED
    BY <2>1, <2>2 DEF NovaTools, NothingTold
<1>2. SInv /\ NovaTools /\ [Next]_vars => (SInv /\ NovaTools)'
  BY NextSInv, NextNovaTools
<1>3. QED
  BY <1>1, <1>2, InitSInv, PTL DEF Spec

\* What ToolCallsIntact says of the frames.
Intact(f) ==
    LET tools == Places(f, "tool")
    IN  \A i \in tools :
            LET earlier == {f[j].index : j \in {k \in tools : k < i}}
            IN  /\ \A j \in tools : f[i].index = f[j].index <=> f[i].call = f[j].call
                /\ f[i].named <=> f[i].index \notin earlier
                /\ f[i].named => f[i].index = Cardinality(earlier)

\* It is so if the calls are numbered.
LEMMA NumberedIntact ==
  ASSUME NEW f, NEW calls \in Seq(Nat), Numbered(f, calls)
  PROVE  Intact(f)
<1> DEFINE tools == Places(f, "tool")
<1>1. /\ \A a, b \in 1..Len(calls) : calls[a] = calls[b] => a = b
      /\ Indexes(f) = 0..Len(calls) - 1
      /\ \A i \in tools : f[i].call = calls[f[i].index + 1]
      /\ \A i \in tools :
            \E k \in Nat : /\ Earlier(f, i) = 0..k - 1
                           /\ IF f[i].named THEN f[i].index = k ELSE f[i].index \in 0..k - 1
  BY DEF Numbered
<1>2. \A i \in tools : f[i].index \in 0..Len(calls) - 1
  BY <1>1 DEF Indexes
<1>3. Len(calls) \in Nat
  OBVIOUS
<1> HIDE DEF tools
<1>4. ASSUME NEW i \in tools, NEW j \in tools
      PROVE  f[i].index = f[j].index <=> f[i].call = f[j].call
  <2> DEFINE a == f[i].index
             b == f[j].index
  <2>1. /\ a \in 0..Len(calls) - 1 /\ b \in 0..Len(calls) - 1
        /\ f[i].call = calls[a + 1] /\ f[j].call = calls[b + 1]
    BY <1>1, <1>2
  <2> HIDE DEF a, b
  <2>2. a + 1 \in 1..Len(calls) /\ b + 1 \in 1..Len(calls)
    BY <1>3, <2>1
  <2>3. calls[a + 1] = calls[b + 1] => a = b
    BY <1>1, <1>3, <2>1, <2>2
  <2>4. a = b <=> f[i].call = f[j].call
    BY <2>1, <2>3
  <2>5. QED
    BY <2>4 DEF a, b
<1>5. ASSUME NEW i \in tools
      PROVE  /\ f[i].named <=> f[i].index \notin Earlier(f, i)
             /\ f[i].named => f[i].index = Cardinality(Earlier(f, i))
  <2>1. PICK k \in Nat : /\ Earlier(f, i) = 0..k - 1
                         /\ IF f[i].named THEN f[i].index = k ELSE f[i].index \in 0..k - 1
    BY <1>1
  <2>2. Cardinality(0..k - 1) = k /\ k \notin 0..k - 1
    BY FS_Interval
  <2>3. QED
    BY <2>1, <2>2
<1>6. \A i \in tools : Earlier(f, i) = {f[j].index : j \in {k \in tools : k < i}}
  BY DEF Earlier, tools
<1>7. ASSUME NEW i \in tools
      PROVE  LET earlier == {f[j].index : j \in {k \in tools : k < i}}
             IN  /\ \A j \in tools : f[i].index = f[j].index <=> f[i].call = f[j].call
                 /\ f[i].named <=> f[i].index \notin earlier
                 /\ f[i].named => f[i].index = Cardinality(earlier)
  BY <1>4, <1>5, <1>6
<1>8. QED
  BY <1>7 DEF Intact, tools

\* The frames of tool calls are what matters.
LEMMA SameIntact ==
  ASSUME NEW f, NEW g, Places(f, "tool") = Places(g, "tool"),
         \A i \in Places(g, "tool") : f[i] = g[i], Intact(g)
  PROVE  Intact(f)
<1> DEFINE tools == Places(g, "tool")
<1>1. Places(f, "tool") = tools /\ \A i \in tools : f[i] = g[i]
  OBVIOUS
<1> HIDE DEF tools
<1>2. ASSUME NEW i \in tools
      PROVE  {f[j].index : j \in {k \in tools : k < i}} = {g[j].index : j \in {k \in tools : k < i}}
  <2>1. \A j \in {k \in tools : k < i} : f[j] = g[j]
    BY <1>1
  <2>2. QED
    BY <2>1
<1>3. ASSUME NEW i \in tools
      PROVE  LET earlier == {f[j].index : j \in {k \in tools : k < i}}
             IN  /\ \A j \in tools : f[i].index = f[j].index <=> f[i].call = f[j].call
                 /\ f[i].named <=> f[i].index \notin earlier
                 /\ f[i].named => f[i].index = Cardinality(earlier)
  <2> DEFINE earlier == {f[j].index : j \in {k \in tools : k < i}}
  <2>1. earlier = {g[j].index : j \in {k \in tools : k < i}}
    BY <1>2
  <2> HIDE DEF earlier
  <2>2. /\ \A j \in tools : g[i].index = g[j].index <=> g[i].call = g[j].call
        /\ g[i].named <=> g[i].index \notin earlier
        /\ g[i].named => g[i].index = Cardinality(earlier)
    BY <2>1 DEF Intact, tools
  <2>3. f[i] = g[i] /\ \A j \in tools : f[j] = g[j]
    BY <1>1
  <2>4. /\ \A j \in tools : f[i].index = f[j].index <=> f[i].call = f[j].call
        /\ f[i].named <=> f[i].index \notin earlier
        /\ f[i].named => f[i].index = Cardinality(earlier)
    BY <2>2, <2>3
  <2>5. QED
    BY <2>4 DEF earlier
<1>4. QED
  BY <1>1, <1>3 DEF Intact

\* Frames without tool calls.
LEMMA NoneIntact ==
  ASSUME NEW f, Places(f, "tool") = {}
  PROVE  Intact(f)
  BY DEF Intact

\* If one chunk of a body has tool calls, so it is with its first lines.
LEMMA OneChunkOfPrefix ==
  ASSUME NEW S, NEW b \in Seq(S), NEW k \in 0..Len(b),
         LET chunks == {i \in Places(b, "chunk") : b[i].tools # <<>>}
         IN  Cardinality(chunks) <= 1
  PROVE  OneChunk(SubSeq(b, 1, k))
<1> DEFINE chunks == {i \in Places(b, "chunk") : b[i].tools # <<>>}
           s == SubSeq(b, 1, k)
<1>1. /\ DOMAIN b = 1..Len(b) /\ Len(b) \in Nat /\ k \in Nat
      /\ DOMAIN s = 1..k /\ 1..k \subseteq 1..Len(b) /\ \A i \in 1..k : s[i] = b[i]
  OBVIOUS
<1>2. IsFiniteSet(chunks) /\ Cardinality(chunks) \in Nat
  <2>1. IsFiniteSet(1..Len(b))
    BY <1>1, FS_Interval
  <2>2. chunks \subseteq 1..Len(b)
    BY <1>1 DEF Places
  <2> HIDE DEF chunks
  <2>3. QED
    BY <2>1, <2>2, FS_Subset, FS_CardinalityType
<1>3. Cardinality(chunks) <= 1
  OBVIOUS
<1>4. {i \in Places(s, "chunk") : s[i].tools # <<>>} \subseteq chunks
  <2> HIDE DEF s
  <2>1. \A i \in Places(s, "chunk") : i \in 1..k /\ s[i].type = "chunk"
    BY <1>1 DEF Places
  <2>2. \A i \in Places(s, "chunk") : i \in Places(b, "chunk") /\ s[i] = b[i]
    BY <1>1, <2>1 DEF Places
  <2>3. QED
    BY <2>2
<1> HIDE DEF chunks, s
<1>5. \A i, j \in chunks : i = j
  BY <1>2, <1>3, AtMostOne
<1>6. QED
  BY <1>4, <1>5 DEF OneChunk, s

\* The client gets the tool calls of the upstream as they are: the fragments of
\* a call under one index, the indexes in order, the name with the first.
THEOREM ToolCallsAreIntact == Spec => []ToolCallsIntact
<1>1. ASSUME SInv, NovaTools PROVE ToolCallsIntact
  <2> DEFINE t == Told(api, NothingTold, out)
             chunks == {i \in Places(script, "chunk") : script[i].tools # <<>>}
  <2> SUFFICES ASSUME dialect = "ollama" => Cardinality(chunks) <= 1
               PROVE  Intact(client.frames)
    BY DEF ToolCallsIntact, Intact
  <2>1. /\ Places(client.frames, "tool") = Places(t.frames, "tool")
        /\ \A i \in Places(t.frames, "tool") : client.frames[i] = t.frames[i]
    BY <1>1, ClientFrames
  <2>2. SUFFICES Intact(t.frames)
    <3> HIDE DEF t
    <3>1. QED
      BY <2>1, <2>2, SameIntact
  <2>3. CASE dialect \in Translated
    BY <1>1, <2>3, NoneIntact DEF NovaTools
  <2>4. CASE dialect \in Parsed
    <3>1. PICK s, x :
              /\ s \in Seq(LinesOf(dialect)) /\ Sent(s)
              /\ \E k \in 0..Len(script) : s = SubSeq(script, 1, k)
              /\ x \in Seq(ParserEvents) /\ x = ParseLines(dialect, s).events
              /\ Fits(s, ParseLines(dialect, s))
              /\ out = x \/ out = x \o <<Error>>
              /\ ToSet(s) \subseteq ToSet(Legible)
              /\ ended /\ ending = "closed" => s = Legible /\ out = x
      BY <1>1, <2>4, StreamsAssumption, OutOfBody
    <3>2. api \in {"chat", "responses"} /\ script \in Seq(LinesOf(dialect))
      BY <1>1 DEF SInv, BodyInv
    <3>3. CASE api = "responses"
      <4>1. Faithful(api, x, t)
        <5>1. CASE out = x
          BY <3>1, <3>2, <5>1, ToldFaithful
        <5>2. CASE out = x \o <<Error>>
          BY <3>1, <3>2, <5>2, ErrorFaithful
        <5>3. QED
          BY <3>1, <5>1, <5>2
      <4> HIDE DEF t
      <4>2. Places(t.frames, "tool") = {}
        BY <3>3, <4>1 DEF Faithful
      <4>3. QED
        BY <4>2, NoneIntact
    <3>4. CASE api = "chat"
      <4>1. \E calls \in Seq(Nat) : NumberedTold(x, calls)
        <5> DEFINE p == ParseLines(dialect, s)
        <5>1. CallsFit(s, p) /\ p \in Progress
          BY <2>4, <3>1, StreamsAssumption, ParsedCallsFit, ParseLinesSteps
        <5>2. x = p.events /\ p.memory.tools \in Seq(Nat)
          BY <3>1, <5>1 DEF Progress, Memories
        <5>3. dialect = "ollama" => OneChunk(s)
          <6> HIDE DEF p
          <6>1. QED
            BY <3>1, <3>2, OneChunkOfPrefix
        <5> HIDE DEF p
        <5>4. CASE dialect = "anthropic"
          BY <5>1, <5>2, <5>4 DEF CallsFit
        <5>5. CASE dialect # "anthropic"
          <6>1. PICK n \in 0..MaxCalls : NumberedTold(p.events, Ident(n))
            BY <5>1, <5>3, <5>5 DEF CallsFit
          <6>2. n \in Nat
            BY StreamsAssumption DEF StreamsAssumption
          <6>3. Ident(n) \in Seq(Nat)
            BY <6>2, IdentIs
          <6>4. QED
            BY <5>2, <6>1, <6>3
        <5>6. QED
          BY <5>4, <5>5
      <4>2. PICK calls \in Seq(Nat) : NumberedTold(x, calls)
        BY <4>1
      <4>3. NumberedTold(out, calls)
        <5>1. CASE out = x
          BY <4>2, <5>1
        <5>2. CASE out = x \o <<Error>>
          <6> DEFINE e == Error
          <6>1. e \in Events /\ e.type # "tool"
            BY DEF Error, Events
          <6> HIDE DEF e
          <6>2. e.type # "tool" => NumberedTold(Append(x, e), calls)
            BY <3>1, <4>2, <6>1, CallTold
          <6>3. x \o <<e>> = Append(x, e)
            BY <3>1
          <6>4. QED
            BY <5>2, <6>1, <6>2, <6>3 DEF e
        <5>3. QED
          BY <3>1, <5>1, <5>2
      <4>4. Numbered(t.frames, calls)
        BY <3>4, <4>3 DEF NumberedTold
      <4> HIDE DEF t
      <4>5. QED
        BY <4>4, NumberedIntact
    <3>5. QED
      BY <3>2, <3>3, <3>4
  <2>5. QED
    BY <1>1, <2>3, <2>4, StreamsAssumption DEF StreamsAssumption, SInv, BodyInv
<1>2. QED
  BY <1>1, NovaToolsInvariant, PTL
=============================================================================
