-------------------------- MODULE AnthropicBridge --------------------------
(***************************************************************************)
(* An agent that speaks the Anthropic format to the gateway, turn by turn. *)
(*                                                                         *)
(* Each turn carries the whole conversation.  It is translated to the      *)
(* OpenAI format (src/src/proxy/anthropic-frontend.mjs), and on to what    *)
(* the backend speaks: back to Anthropic                                   *)
(* (src/src/proxy/anthropic-adapter.mjs), or Codex, where messages, calls  *)
(* and results are items in a row (src/src/proxy/codex-adapter.mjs).       *)
(* The answer goes the same way in reverse, and reaches the agent whole or *)
(* as events (src/src/proxy/stream.mjs), which it puts together again; its *)
(* connection may break in between.  Then it asks once more.               *)
(*                                                                         *)
(* A text is a sequence of pieces of CONTENT_CHUNK_SIZE; "/" is the line   *)
(* feed that joins texts.  The ids of tool calls are numbered.             *)
(***************************************************************************)
EXTENDS Naturals, FiniteSets, SequencesExt

CONSTANTS MaxTurns, \* bound: answers the agent asks for
          MaxBlocks \* bound: blocks of an answer

ASSUME BridgeAssumption == MaxTurns \in Nat /\ MaxBlocks \in Nat

VARIABLES talk,   \* the conversation, as the agent keeps it
          stage,  \* "compose", "asked", "events", "over"
          answer, \* what the backend answered
          events, \* the events that are still to come
          heard   \* the message the agent put together so far

bridgeVars == <<talk, stage, answer, events, heard>>

NoCall == 0
Text(t) == [type |-> "text", text |-> t, id |-> NoCall]
Image == [type |-> "image", text |-> <<>>, id |-> NoCall]
Thinking == [type |-> "thinking", text |-> <<>>, id |-> NoCall]
Use(i) == [type |-> "tool_use", text |-> <<>>, id |-> i]
Result(i) == [type |-> "tool_result", text |-> <<>>, id |-> i]

Those(blocks, places) == FlattenSeq([k \in DOMAIN blocks |-> IF k \in places THEN <<blocks[k]>> ELSE <<>>])
OfType(blocks, type) == Those(blocks, {k \in DOMAIN blocks : blocks[k].type = type})
IdsOf(blocks) == [k \in DOMAIN blocks |-> blocks[k].id]
AllText(blocks) == \A k \in DOMAIN blocks : blocks[k].type = "text"
Elements(s) == {s[k] : k \in DOMAIN s}

\* join() of the texts of blocks.
JoinedText(blocks, glue) ==
  LET upTo[n \in 0 .. Len(blocks)] ==
        CASE n = 0 -> <<>>
          [] n = 1 -> blocks[1].text
          [] OTHER -> upTo[n - 1] \o glue \o blocks[n].text
  IN upTo[Len(blocks)]

-----------------------------------------------------------------------------
(* The question.                                                           *)

Msg(role, content) == [role |-> role, content |-> content, calls |-> <<>>, id |-> NoCall]

\* flushContent()
ContentFlushed(messages, role, blocks) ==
  IF blocks = <<>> THEN messages
  ELSE Append(messages, Msg(role, IF AllText(blocks) THEN <<Text(JoinedText(blocks, <<"/">>))>> ELSE blocks))

\* fromAnthropicRequest(), for the blocks of one message.
Block(role, s, b) ==
  CASE b.type = "text" -> IF b.text = <<>> THEN s ELSE [s EXCEPT !.content = Append(@, b)]
    [] b.type = "image" -> [s EXCEPT !.content = Append(@, b)]
    [] b.type = "tool_use" -> [s EXCEPT !.calls = Append(@, b.id)]
    [] b.type = "tool_result" ->
         [s EXCEPT !.content = <<>>,
                   !.messages = Append(ContentFlushed(@, role, s.content),
                                       [Msg("tool", <<>>) EXCEPT !.id = b.id])]
    [] OTHER -> s

FromMessage(m) ==
  LET upTo[n \in 0 .. Len(m.content)] ==
        IF n = 0 THEN [messages |-> <<>>, content |-> <<>>, calls |-> <<>>]
        ELSE Block(m.role, upTo[n - 1], m.content[n])
      s == upTo[Len(m.content)]
      text == JoinedText(OfType(s.content, "text"), <<"/">>)
  IN IF s.calls = <<>> THEN ContentFlushed(s.messages, m.role, s.content)
     ELSE Append(s.messages, [Msg("assistant", IF text = <<>> THEN <<>> ELSE <<Text(text)>>)
                                EXCEPT !.calls = s.calls])

FromAnthropic(messages) == FlattenSeq([k \in DOMAIN messages |-> FromMessage(messages[k])])

\* flushToolResults()
ResultsFlushed(s) ==
  IF s.pending = <<>> THEN s
  ELSE [pending |-> <<>>, messages |-> Append(s.messages, Msg("user", s.pending))]

\* toAnthropicRequest(), for one message: an empty one is left out.
ToMessage(s, m) ==
  LET f == ResultsFlushed(s)
      uses == [k \in DOMAIN m.calls |-> Use(m.calls[k])]
      content == IF AllText(m.content) THEN Those(m.content, {k \in DOMAIN m.content : m.content[k].text # <<>>})
                 ELSE m.content
  IN IF m.role = "tool" THEN [s EXCEPT !.pending = Append(@, Result(m.id))]
     ELSE IF m.calls # <<>>
     THEN [f EXCEPT !.messages = Append(@, Msg("assistant", content \o uses))]
     ELSE IF content = <<>> THEN f
     ELSE [f EXCEPT !.messages = Append(@, Msg(m.role, content))]

\* The last results are flushed when the messages are through.
NotFlushed(s) == s.messages
AllFlushed(s) == ResultsFlushed(s).messages

ToAnthropic(messages) ==
  LET upTo[n \in 0 .. Len(messages)] ==
        IF n = 0 THEN [pending |-> <<>>, messages |-> <<>>] ELSE ToMessage(upTo[n - 1], messages[n])
      out == AllFlushed(upTo[Len(messages)])
  IN IF out = <<>> THEN <<Msg("user", <<Text(<<"a">>)>>)>> ELSE out

\* toCodexRequest(), for one message; flattenContent() leaves only its texts.
ToItems(m) ==
  LET text == JoinedText(OfType(m.content, "text"), <<"/">>)
  IN CASE m.role = "tool" -> <<Result(m.id)>>
       [] m.role = "assistant" ->
            (IF text = <<>> THEN <<>> ELSE <<Text(text)>>) \o [k \in DOMAIN m.calls |-> Use(m.calls[k])]
       [] OTHER -> m.content

ToCodex(messages) == FlattenSeq([k \in DOMAIN messages |-> ToItems(messages[k])])

-----------------------------------------------------------------------------
(* The answer.                                                             *)

\* toOpenAIResponse()
ToCompletion(reply) ==
  LET calls == IdsOf(OfType(reply.content, "tool_use"))
      text == JoinedText(OfType(reply.content, "text"), <<>>)
  IN [text |-> text, calls |-> calls,
      finish |-> IF calls # <<>> THEN "tool_calls"
                 ELSE IF reply.stop = "max_tokens" THEN "length" ELSE "stop"]

\* fromCodexResponse(): a call that the limit cut off is not handed on; an answer that
\* failed, or whose end is missing, is told as one that stopped.
FromCodex(reply) ==
  ToCompletion([reply EXCEPT !.content = Those(@, {k \in DOMAIN @ : @[k].type # "cut"})])

\* enforceResponseContract(): something is to be seen, or called.
Accepted(completion) == completion.text # <<>> \/ completion.calls # <<>>

\* toAnthropicMessage()
ToReply(completion) ==
  LET texts == IF completion.text = <<>> THEN <<>> ELSE <<Text(completion.text)>>
      blocks == texts \o [k \in DOMAIN completion.calls |-> Use(completion.calls[k])]
  IN [content |-> IF blocks = <<>> THEN <<Text(<<>>)>> ELSE blocks,
      stop |-> IF completion.calls # <<>> THEN "tool_use"
               ELSE IF completion.finish = "length" THEN "max_tokens" ELSE "end_turn"]

Event(type, index, block, stop) == [type |-> type, index |-> index, block |-> block, stop |-> stop]

\* The block a content_block_start opens: a call must have its id in it already.
OpenedAsText(b) == [Text(<<>>) EXCEPT !.type = b.type]
Opened(b) == IF b.type = "tool_use" THEN b ELSE Text(<<>>)

\* _anthropicJsonToSSE(), for one block, and for the message.
BlockEvents(index, b) ==
  <<Event("content_block_start", index, Opened(b), "none")>>
    \o [k \in DOMAIN b.text |-> Event("content_block_delta", index, Text(<<b.text[k]>>), "none")]
    \o <<Event("content_block_stop", index, Text(<<>>), "none")>>

MessageEvents(reply) ==
  <<Event("message_start", 0, Text(<<>>), "none")>>
    \o FlattenSeq([n \in DOMAIN reply.content |-> BlockEvents(n - 1, reply.content[n])])
    \o <<Event("message_delta", 0, Text(<<>>), reply.stop),
         Event("message_stop", 0, Text(<<>>), "none")>>

\* _accumAnthropicChunk()
Nothing == [content |-> <<>>, stop |-> "none"]
Accumulated(acc, e) ==
  CASE e.type = "content_block_start" ->
         [acc EXCEPT !.content = [k \in 1 .. (IF Len(@) > e.index THEN Len(@) ELSE e.index + 1) |->
                                    IF k = e.index + 1 THEN e.block ELSE @[k]]]
    [] e.type = "content_block_delta" /\ e.index < Len(acc.content) ->
         [acc EXCEPT !.content[e.index + 1].text = @ \o e.block.text]
    [] e.type = "message_delta" -> [acc EXCEPT !.stop = e.stop]
    [] OTHER -> acc

-----------------------------------------------------------------------------
(* The agent.  It answers every call of the last answer, in any order and  *)
(* before anything else it has to say.                                     *)

Turns == Cardinality({k \in DOMAIN talk : talk[k].role = "assistant"})
OpenCalls == IF talk = <<>> THEN <<>> ELSE IdsOf(OfType(talk[Len(talk)].content, "tool_use"))
Orders(s) == {[k \in DOMAIN s |-> s[p[k]]] : p \in {q \in [DOMAIN s -> DOMAIN s] :
                                                     \A i, j \in DOMAIN s : q[i] = q[j] => i = j}}
Remarks == {<<>>, <<Text(<<"a">>)>>, <<Text(<<"a">>), Image>>, <<Text(<<>>)>>}

Compose ==
  /\ stage = "compose" /\ Turns < MaxTurns
  /\ \E order \in Orders(OpenCalls), remark \in Remarks :
       /\ order # <<>> \/ remark \notin {<<>>, <<Text(<<>>)>>}
       /\ talk' = Append(talk, Msg("user", [k \in DOMAIN order |-> Result(order[k])] \o remark))
  /\ stage' = "asked"
  /\ UNCHANGED <<answer, events, heard>>

\* Ids of calls are fresh.
Fresh(n) == (MaxBlocks + 1) * (Turns + 1) + n
Parts == {"a", "b", "empty", "think", "call"}
Part(p, n) ==
  CASE p = "a" -> Text(<<"a">>)
    [] p = "b" -> Text(<<"b", "c">>)
    [] p = "empty" -> Text(<<>>)
    [] p = "think" -> Thinking
    [] OTHER -> Use(Fresh(n))

AgentReplies ==
  {[content |-> [k \in DOMAIN s |-> Part(s[k], k)], stop |-> stop] :
     s \in UNION {[1 .. n -> Parts] : n \in 0 .. MaxBlocks}, stop \in {"end_turn", "max_tokens"}}

\* A Codex backend may fail halfway, and the limit may cut the last call.
CutOff(reply) ==
  LET n == Len(reply.content)
  IN IF n > 0 /\ reply.stop = "max_tokens" /\ reply.content[n].type = "tool_use"
     THEN [reply EXCEPT !.content[n].type = "cut"] ELSE reply
CodexReplies ==
  {[reply EXCEPT !.stop = IF failed THEN "failed" ELSE @] : reply \in AgentReplies, failed \in BOOLEAN}
    \cup {CutOff(reply) : reply \in AgentReplies}

\* What is answered, and the completion that is made of it.
Answered ==
  {<<reply, ToCompletion(reply)>> : reply \in AgentReplies}
    \cup {<<reply, FromCodex(reply)>> : reply \in CodexReplies}

\* The request handler, from routeAndSend() on: an answer that breaks the contract is
\* a 502, and the agent asks again.
AnswerAgent(streamed) ==
  /\ stage = "asked"
  /\ \E pair \in Answered :
       LET completion == pair[2]
           back == ToReply(completion)
       IN /\ Accepted(completion)
          /\ answer' = pair[1]
          /\ IF streamed
             THEN stage' = "events" /\ events' = MessageEvents(back) /\ heard' = Nothing
             ELSE stage' = "over" /\ heard' = back /\ UNCHANGED events
  /\ UNCHANGED talk

Hear ==
  /\ stage = "events" /\ events # <<>>
  /\ heard' = Accumulated(heard, Head(events))
  /\ events' = Tail(events)
  /\ stage' = IF Len(events) = 1 THEN "over" ELSE "events"
  /\ UNCHANGED <<talk, answer>>

\* The connection breaks; the writer keeps quiet about it.
Break ==
  /\ stage = "events"
  /\ stage' = "asked" /\ events' = <<>> /\ heard' = Nothing /\ answer' = Nothing
  /\ UNCHANGED talk

Keep ==
  /\ stage = "over"
  /\ talk' = Append(talk, Msg("assistant", heard.content))
  /\ stage' = "compose" /\ heard' = Nothing /\ answer' = Nothing
  /\ UNCHANGED events

BridgeInit == talk = <<>> /\ stage = "compose" /\ answer = Nothing /\ events = <<>> /\ heard = Nothing

BridgeNext == Compose \/ (\E streamed \in BOOLEAN : AnswerAgent(streamed)) \/ Hear \/ Break \/ Keep

BridgeSpec == BridgeInit /\ [][BridgeNext]_bridgeVars

-----------------------------------------------------------------------------
\* Each message with calls is followed by their results, one message each.
PairedOpenAI(messages) ==
  \A k \in DOMAIN messages :
    /\ messages[k].calls # <<>> =>
         LET n == Len(messages[k].calls) IN
         /\ k + n <= Len(messages)
         /\ {messages[j].id : j \in k + 1 .. k + n} = Elements(messages[k].calls)
    /\ messages[k].role = "tool" =>
         \E j \in 1 .. k - 1 : messages[k].id \in Elements(messages[j].calls)

\* Each message with calls is followed by one that has all their results.
PairedAnthropic(messages) ==
  \A k \in DOMAIN messages :
    LET used == Elements(IdsOf(OfType(messages[k].content, "tool_use"))) IN
    used # {} =>
      /\ k < Len(messages) /\ messages[k + 1].role = "user"
      /\ Elements(IdsOf(OfType(messages[k + 1].content, "tool_result"))) = used

\* Each call has its result after it, once, and each result follows its call.
PairedCodex(items) ==
  LET at(type) == {k \in DOMAIN items : items[k].type = type}
  IN /\ \A k \in at("tool_use") :
          Cardinality({j \in at("tool_result") : items[j].id = items[k].id /\ j > k}) = 1
     /\ \A j \in at("tool_result") :
          Cardinality({k \in at("tool_use") : items[k].id = items[j].id /\ k < j}) = 1

(* Whatever the agent and the model said before, the conversation that     *)
(* goes out is one a backend takes, in every format: the results of the    *)
(* calls of a message follow it at once and all of them, although texts    *)
(* are joined, empty messages left out, thinking dropped on the way, and   *)
(* calls that the limit cut off never handed on.                           *)
(* fromAnthropicRequest(), toAnthropicRequest(), toCodexRequest().         *)
WireIsPaired ==
  stage = "asked" =>
    /\ PairedOpenAI(FromAnthropic(talk))
    /\ PairedAnthropic(ToAnthropic(FromAnthropic(talk)))
    /\ PairedCodex(ToCodex(FromAnthropic(talk)))

(* The agent hears what the model said: the same text, and the same whole  *)
(* calls with their ids in the same order, whether it asked for a stream   *)
(* or not; it is told to run them exactly when there are any, and else     *)
(* that the limit was reached exactly when it was.  toOpenAIResponse(),    *)
(* fromCodexResponse(), toAnthropicMessage(), _anthropicJsonToSSE().       *)
AnswerIsWhole ==
  LET calls(message) == IdsOf(OfType(message.content, "tool_use"))
      text(message) == JoinedText(OfType(message.content, "text"), <<>>)
  IN stage = "over" =>
       /\ calls(heard) = calls(answer)
       /\ text(heard) = text(answer)
       /\ (heard.stop = "tool_use") <=> (calls(heard) # <<>>)
       /\ (heard.stop = "max_tokens") <=> (answer.stop = "max_tokens" /\ calls(answer) = <<>>)
=============================================================================
