-------------------------- MODULE ResponseContract --------------------------
(***************************************************************************)
(* The contract a completion of an upstream must meet                      *)
(* (src/src/proxy/response-contract.mjs), for a buffered body and for a    *)
(* stream, and the way a buffered completion becomes a stream for a client *)
(* that asked for one (src/src/proxy/router.mjs, src/src/proxy/stream.mjs, *)
(* src/src/proxy/codex-adapter.mjs).                                       *)
(*                                                                         *)
(* Of a text it only matters whether anything is left to see: "blank" is   *)
(* white space, "think" a block the sanitizer removes, "markup" a tool call*)
(* that leaked into the text.  The arguments of a tool call come in pieces;*)
(* "part" and "rest" together, or "whole", are an object.                  *)
(***************************************************************************)
EXTENDS Naturals, FiniteSets, SequencesExt

CONSTANTS Ids,       \* ids of tool calls
          MaxFrames, \* bound: frames of an upstream stream
          MaxSlots   \* bound: choices of a completion, and tool calls of a choice

NoId == "none"

ASSUME ContractAssumption ==
  /\ IsFiniteSet(Ids) /\ Ids # {} /\ NoId \notin Ids
  /\ MaxFrames \in Nat /\ MaxSlots \in Nat \ {0}

VARIABLES taken,   \* how many frames were taken
          feed,    \* the frames left of a re-emission
          given,   \* the completion that is re-emitted, as the client would get it buffered
          states,  \* choiceStates
          toolIds, \* toolIds: the call an id belongs to
          stream,  \* its record: done, invalidCompletion, usageSeen
          got,     \* what a client makes of the frames, by choice
          verdict  \* "open", "accepted", "rejected"

contractVars == <<taken, feed, given, states, toolIds, stream, got, verdict>>

Slots == 0 .. MaxSlots - 1
Texts == {"none", "blank", "text", "think", "markup"}
Reasons == {"none", "stop", "length", "tool_calls", "content_filter"}
Usages == {"absent", "good", "bad"}

\* hasVisibleContent(), hasValidToolArguments()
Visible(text) == text \in {"text", "think", "markup"}
IsObject(pieces) == pieces \in {<<"whole">>, <<"part", "rest">>}

-----------------------------------------------------------------------------
(* A buffered completion: choices in order, each with its calls in order.  *)

Calls(n) == [1 .. n -> [id : Ids, args : {<<"whole">>}]]
Choosable(calls) == [text : {"none", "text", "think", "markup"}, calls : Calls(calls), finish : Reasons]
Completions ==
  LET one(n) == {<<c>> : c \in Choosable(n)}
      two(n) == {<<c, d>> : c \in Choosable(n), d \in UNION {Choosable(m) : m \in 0 .. MaxSlots - n}}
  IN [choices : UNION {one(n) \cup two(n) : n \in 0 .. MaxSlots}, usage : Usages]

\* fromCodexResponse() makes one choice; its frames are those of Reemitted().
CodexCompletions ==
  {[choices |-> <<[text |-> text, calls |-> calls, finish |-> finish]>>, usage |-> "good"] :
     text \in {"none", "text"}, calls \in UNION {Calls(n) : n \in 0 .. MaxSlots},
     finish \in {"stop", "length", "tool_calls"}}

\* sanitizeResponse(): a leaked call is recovered when there is no other call.
Recovered == [id |-> CHOOSE i \in Ids : TRUE, args |-> <<"whole">>]
Sanitized(choice) ==
  IF choice.text = "markup" /\ choice.calls = <<>>
  THEN [choice EXCEPT !.text = "none", !.calls = <<Recovered>>]
  ELSE IF choice.text \in {"markup", "think"} THEN [choice EXCEPT !.text = "none"] ELSE choice

\* hasValidNonStreamToolCalls()
ValidCalls(calls) ==
  /\ calls # <<>>
  /\ \A i, j \in DOMAIN calls : calls[i].id = calls[j].id => i = j
  /\ \A i \in DOMAIN calls : calls[i].id # NoId /\ IsObject(calls[i].args)

\* enforceResponseContract() on a buffered body that was sanitized.
BufferedAccepted(choices) ==
  /\ choices # <<>>
  /\ \A c \in DOMAIN choices :
       /\ choices[c].calls = <<>> \/ ValidCalls(choices[c].calls)
       /\ Visible(choices[c].text) \/ ValidCalls(choices[c].calls)

-----------------------------------------------------------------------------
(* Frames.  A chunk is about one choice; the frame of the usage has none.  *)

Chunk(choice, text, tools, finish) ==
  [kind |-> "chunk", choice |-> choice, text |-> text, tools |-> tools, finish |-> finish,
   usage |-> "absent"]
UsageFrame(usage) ==
  [kind |-> "usage", choice |-> 0, text |-> "none", tools |-> <<>>, finish |-> "none", usage |-> usage]
DoneFrame == [UsageFrame("absent") EXCEPT !.kind = "done"]
BrokenFrame == [UsageFrame("absent") EXCEPT !.kind = "broken"]

\* A fragment with the id carries the type and the name as well.
Fragment(slot, id, piece) == [slot |-> slot, id |-> id, piece |-> piece]
Fragments == {Fragment(s, i, p) : s \in Slots, i \in Ids, p \in {"part", "whole"}}
               \cup {Fragment(s, NoId, "rest") : s \in Slots}

\* "length" ends a choice as "stop" does, and any other reason as "content_filter".
UpstreamFrames ==
  {Chunk(c, t, <<>>, "none") : c \in Slots, t \in {"blank", "text"}}
    \cup {Chunk(c, t, <<>>, "stop") : c \in Slots, t \in {"none", "text"}}
    \cup {Chunk(0, "none", <<f>>, r) : f \in Fragments, r \in {"none", "tool_calls"}}
    \cup {Chunk(c, "none", <<f>>, "tool_calls") : c \in Slots, f \in {x \in Fragments : x.slot = 0}}
    \cup {Chunk(0, "none", <<>>, r) : r \in {"tool_calls", "content_filter"}}
    \cup {[Chunk(0, t, <<>>, "stop") EXCEPT !.usage = "good"] : t \in {"none", "text"}}
    \cup {UsageFrame("good"), UsageFrame("bad"), BrokenFrame, DoneFrame}

\* _openaiJsonToSSE(): the role, the text, the calls and the end of each choice,
\* then the usage.
FirstSlotOnly(calls) == [i \in DOMAIN calls |-> Fragment(0, calls[i].id, calls[i].args[1])]
ToolFragments(calls) == [i \in DOMAIN calls |-> Fragment(i - 1, calls[i].id, calls[i].args[1])]

ChoiceFrames(c, choice) ==
  <<Chunk(c, "none", <<>>, "none")>>
    \o (IF choice.text = "none" THEN <<>> ELSE <<Chunk(c, choice.text, <<>>, "none")>>)
    \o (IF choice.calls = <<>> THEN <<>>
        ELSE <<Chunk(c, "none", ToolFragments(choice.calls), "none")>>)
    \o <<Chunk(c, "none", <<>>, IF choice.finish = "none" THEN "stop" ELSE choice.finish)>>

Reemitted(completion) ==
  FlattenSeq([n \in DOMAIN completion.choices |-> ChoiceFrames(n - 1, completion.choices[n])])
    \o (IF completion.usage = "absent" THEN <<>> ELSE <<UsageFrame(completion.usage)>>)
    \o <<DoneFrame>>

-----------------------------------------------------------------------------
(* The stream check.                                                       *)

NewState == [visible |-> FALSE, tools |-> FALSE, valid |-> TRUE, calls |-> <<>>, reasons |-> <<>>]
NewCall == [id |-> NoId, args |-> <<>>]
Held(f, k, default) == IF k \in DOMAIN f THEN f[k] ELSE default
With(f, k, v) == [x \in DOMAIN f \cup {k} |-> IF x = k THEN v ELSE f[x]]

\* hasCompletedToolCalls(), hasValidCompletion()
Completed(calls) ==
  /\ DOMAIN calls # {}
  /\ \A k \in DOMAIN calls : calls[k].id # NoId /\ IsObject(calls[k].args)
ValidCompletion(s) ==
  /\ Len(s.reasons) = 1
  /\ IF s.tools THEN s.valid /\ Completed(s.calls) /\ s.reasons[1] = "tool_calls"
     ELSE s.visible /\ s.reasons[1] \in {"stop", "length"}

\* The id of a fragment is new, or names this call already.
OtherIdOfCall(ids, owner, call, id) == call.id # NoId /\ call.id # id
IdTaken(ids, owner, call, id) == (call.id # NoId /\ call.id # id) \/ Held(ids, id, owner) # owner

\* collectChoiceEvidence(), for one fragment: <<state, ids>>.
Collected(c, s, ids, f) ==
  LET call == Held(s.calls, f.slot, NewCall)
      owner == <<c, f.slot>>
      bad == f.id # NoId /\ IdTaken(ids, owner, call, f.id)
      named == IF f.id = NoId \/ bad THEN call ELSE [call EXCEPT !.id = f.id]
  IN <<[s EXCEPT !.tools = TRUE, !.valid = @ /\ ~bad,
                 !.calls = With(@, f.slot, [named EXCEPT !.args = Append(@, f.piece)])],
       IF f.id = NoId \/ bad THEN ids ELSE With(ids, f.id, owner)>>

CollectedAll(c, s, ids, fragments) ==
  LET upTo[n \in 0 .. Len(fragments)] ==
        IF n = 0 THEN <<s, ids>>
        ELSE Collected(c, upTo[n - 1][1], upTo[n - 1][2], fragments[n])
  IN upTo[Len(fragments)]

AllValid(ss) == \A c \in DOMAIN ss : ValidCompletion(ss[c])

\* A usage belongs at the very end, once: in the last chunk of a choice, or alone
\* when every choice is complete.
UsageBad(f) ==
  /\ f.usage # "absent"
  /\ \/ stream.usageSeen \/ f.usage = "bad"
     \/ f.kind = "chunk" /\ (f.finish = "none" \/ Visible(f.text) \/ f.tools # <<>>)
     \/ f.kind = "usage" /\ (DOMAIN states = {} \/ ~AllValid(states))

\* What the client makes of it: texts are joined, calls put together by slot.
Joined(g, f) ==
  LET calls[n \in 0 .. Len(f.tools)] ==
        IF n = 0 THEN g.calls
        ELSE LET t == f.tools[n]
                 call == Held(calls[n - 1], t.slot, NewCall)
             IN With(calls[n - 1], t.slot,
                     [id |-> IF call.id = NoId THEN t.id ELSE call.id,
                      args |-> Append(call.args, t.piece)])
  IN [text |-> IF Visible(f.text) THEN f.text ELSE g.text, calls |-> calls[Len(f.tools)],
      ends |-> g.ends + (IF f.finish = "none" THEN 0 ELSE 1)]

\* The line of one frame.
Take(f) ==
  LET s == Held(states, f.choice, NewState)
      seen == [s EXCEPT !.visible = @ \/ Visible(f.text),
                        !.reasons = IF f.finish = "none" THEN @ ELSE Append(@, f.finish)]
      collected == CollectedAll(f.choice, seen, toolIds, f.tools)
      late == stream.done \/ (f.kind = "chunk" /\ s.reasons # <<>>)
  IN /\ IF f.kind = "chunk"
        THEN /\ states' = With(states, f.choice, collected[1])
             /\ toolIds' = collected[2]
             /\ got' = With(got, f.choice,
                            Joined(Held(got, f.choice, [text |-> "none", calls |-> <<>>, ends |-> 0]), f))
        ELSE UNCHANGED <<states, toolIds, got>>
     /\ stream' = [done |-> stream.done \/ f.kind = "done",
                   invalid |-> \/ stream.invalid \/ late \/ f.kind = "broken" \/ UsageBad(f)
                               \/ f.kind = "done" /\ ~AllValid(states),
                   usageSeen |-> stream.usageSeen \/ f.usage # "absent"]
     /\ UNCHANGED <<given, verdict>>

\* Whatever follows an invalid line, the stream is rejected.
TakeUpstream(f) ==
  /\ verdict = "open" /\ given = <<>> /\ taken < MaxFrames /\ ~stream.invalid
  /\ taken' = taken + 1
  /\ Take(f)
  /\ UNCHANGED feed

TakeReemitted ==
  /\ verdict = "open" /\ feed # <<>>
  /\ feed' = Tail(feed)
  /\ Take(Head(feed))
  /\ UNCHANGED taken

\* The end of the body: enforceResponseContract() decides.
Judge ==
  LET invalidTools(s) ==
        /\ s.tools \/ \E i \in DOMAIN s.reasons : s.reasons[i] = "tool_calls"
        /\ ~s.valid \/ ~Completed(s.calls) \/ s.reasons # <<"tool_calls">>
      empty(s) == ~s.visible /\ ~Completed(s.calls)
  IN /\ verdict = "open" /\ feed = <<>>
     /\ verdict' = IF \/ DOMAIN states = {} \/ stream.invalid \/ ~stream.done
                      \/ \E c \in DOMAIN states :
                           \/ invalidTools(states[c]) \/ empty(states[c])
                           \/ states[c].visible /\ ~states[c].tools /\ ~ValidCompletion(states[c])
                   THEN "rejected" ELSE "accepted"
     /\ UNCHANGED <<taken, feed, given, states, toolIds, stream, got>>

ContractInit ==
  /\ \/ feed = <<>> /\ given = <<>>
     \/ \E completion \in CodexCompletions :
          /\ (completion.choices[1].calls # <<>>) <=> (completion.choices[1].finish = "tool_calls")
          /\ given = <<completion>> /\ feed = Reemitted(completion)
     \/ \E completion \in Completions :
          LET clean == [completion EXCEPT !.choices = [c \in DOMAIN @ |-> Sanitized(@[c])]] IN
          /\ BufferedAccepted(clean.choices)
          /\ given = <<clean>> /\ feed = Reemitted(clean)
  /\ taken = 0 /\ states = <<>> /\ toolIds = <<>> /\ got = <<>>
  /\ stream = [done |-> FALSE, invalid |-> FALSE, usageSeen |-> FALSE]
  /\ verdict = "open"

ContractNext == (\E f \in UpstreamFrames : TakeUpstream(f)) \/ TakeReemitted \/ Judge

ContractSpec == ContractInit /\ [][ContractNext]_contractVars

-----------------------------------------------------------------------------
(* A stream that is passed on as a 200 amounts to a completion that the    *)
(* check of a buffered body would accept too, and each of its choices ends *)
(* exactly once: nothing follows the end, no id names two calls, and no    *)
(* call is left half told.  enforceResponseContract() in                   *)
(* src/src/proxy/response-contract.mjs.                                    *)
StreamIsComplete ==
  verdict = "accepted" =>
    /\ got # <<>>
    /\ \A c \in DOMAIN got :
         LET calls == got[c].calls IN
         /\ got[c].ends = 1
         /\ \A j, k \in DOMAIN calls : calls[j].id = calls[k].id => j = k
         /\ \A k \in DOMAIN calls : calls[k].id # NoId /\ IsObject(calls[k].args)
         /\ Visible(got[c].text) \/ DOMAIN calls # {}

\* A completion whose ends say what it has, and whose calls have ids of their own.
Regular(completion) ==
  LET choices == completion.choices
      slots == {x \in (DOMAIN choices) \X (1 .. MaxSlots) : x[2] \in DOMAIN choices[x[1]].calls}
  IN /\ completion.usage # "bad"
     /\ \A c \in DOMAIN choices :
          IF choices[c].calls # <<>> THEN choices[c].finish = "tool_calls"
          ELSE choices[c].finish \in {"none", "stop", "length"}
     /\ \A x, y \in slots :
          choices[x[1]].calls[x[2]].id = choices[y[1]].calls[y[2]].id => x = y

(* A client that asked for a stream gets what any other client gets: a     *)
(* regular completion is accepted as the stream that is made of it if and  *)
(* only if it is accepted as a buffered body, and it says the same.        *)
(* routeAndSend() in src/src/proxy/router.mjs, _openaiJsonToSSE() in       *)
(* src/src/proxy/stream.mjs, fromCodexResponse() in                        *)
(* src/src/proxy/codex-adapter.mjs.                                        *)
ReemissionSaysTheSame ==
  given # <<>> /\ verdict # "open" /\ Regular(given[1]) =>
    /\ (verdict = "accepted") <=> BufferedAccepted(given[1].choices)
    /\ verdict = "accepted" =>
         \A c \in DOMAIN given[1].choices :
           LET choice == given[1].choices[c] IN
           /\ got[c - 1].text = choice.text
           /\ \A i \in DOMAIN choice.calls : got[c - 1].calls[i - 1] = choice.calls[i]
=============================================================================
