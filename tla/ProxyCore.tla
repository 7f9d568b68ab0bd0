----------------------------- MODULE ProxyCore -----------------------------
(***************************************************************************)
(* handleRequest() of src/src/proxy/core.mjs, the proxy that stands alone: *)
(* one upstream, fewer tools after each refusal, answers that are repaired *)
(* before they are sent, and a stream that is kept alive meanwhile.        *)
(*                                                                         *)
(* Requests overlap while they wait for the upstream.  What they share is  *)
(* the count of tool rounds of each model, by which a model that calls     *)
(* tools without end is made to answer.  An upstream call that rejects is  *)
(* caught by nobody and takes the process down.                            *)
(***************************************************************************)
EXTENDS Naturals, SequencesExt

CONSTANTS Conversations,
          ModelOf,         \* the model each conversation asks for
          CoreRequests,    \* [chat, stream, force, tools, tail, system, instructed, size]: `chat`
                           \* when the body was parsed, `force` by the classifier, `tools` by
                           \* number, `tail` the role of the last message that is not of the
                           \* system, `system` the length of the system messages, joined
          ProactiveLimit,  \* proactiveToolLimit
          SecondLimit,     \* the tools of the second attempt
          MaxRetries,      \* attempts
          Max429Retries,   \* retries of a 429 within an attempt
          ToolRoundLimit,
          MaxSystem,       \* maxSystemBytes
          Instruction,     \* the length of SINGLE_TOOL_INSTRUCTION
          KeepSystem,      \* a system prompt of at most this length is not cut
          CutSystem,       \* the length of one that was: its head, a notice and its tail
          Bodies           \* what a 200 may carry: [json, choice, text, reasoning, calls, ghost]

ASSUME ProxyCoreAssumption ==
  /\ DOMAIN ModelOf = Conversations
  /\ CoreRequests \subseteq
       [chat : BOOLEAN, stream : BOOLEAN, force : BOOLEAN, tools : Nat, tail : {"user", "tool", "assistant"},
        system : Nat, instructed : BOOLEAN,
        size : {"fits", "fits with fewer tools", "too long with the instruction", "too long", "beyond ingress"}]
  /\ {ProactiveLimit, SecondLimit, MaxRetries, ToolRoundLimit} \subseteq Nat \ {0}
  /\ {Max429Retries, MaxSystem, Instruction, KeepSystem, CutSystem} \subseteq Nat
  /\ Instruction <= KeepSystem

VARIABLES asked,    \* per conversation: its request, or the answer to the last one
          counters, \* toolCallCounters, per model
          rounds    \* per conversation: the requests that ended in a tool result and were
                    \* sent with tools, since its user spoke or the tools were taken away;
                    \* counted up to the limit

coreVars == <<asked, counters, rounds>>

Models == Range(ModelOf)
NoBody == [json |-> TRUE, choice |-> FALSE, text |-> "none", reasoning |-> "none", calls |-> <<>>, ghost |-> FALSE]
\* What a client has been sent: the head, what follows it, whether [DONE] ends it.
Unsent == [head |-> "none", body |-> NoBody, form |-> "nothing", done |-> FALSE]

CoreInit ==
  /\ asked = [c \in Conversations |-> [phase |-> "answered", out |-> Unsent, keepAlive |-> FALSE]]
  /\ counters = [m \in Models |-> 0]
  /\ rounds = [c \in Conversations |-> 0]

-----------------------------------------------------------------------------
(* What is sent to the client *)

Answered(out) == [phase |-> "answered", out |-> out, keepAlive |-> FALSE]
Rejection(status) == Answered([head |-> status, body |-> NoBody, form |-> "error", done |-> FALSE])

\* writeHead() unless the stream has begun, then the bytes of the upstream.
Relayed(r, head, body) ==
  Answered([head |-> IF r.streaming THEN "sse" ELSE head, body |-> body, form |-> "raw", done |-> FALSE])

\* normalizeSuccessfulResponse(): leaked markup goes; where no text is left the reasoning
\* goes too, and becomes the text if it is long; and an empty answer is replaced by the
\* fallback unless there was reasoning, or calls are announced.
Normalized(body) ==
  LET kept == IF body.text = "clean" THEN "clean" ELSE "none"
      silent == kept = "none"
      promoted == IF silent /\ body.reasoning = "long" THEN "clean" ELSE kept
      falls == promoted = "none" /\ body.reasoning = "none" /\ body.calls = <<>> /\ ~ body.ghost
  IN IF body.choice
     THEN [body EXCEPT !.text = IF falls THEN "fallback" ELSE promoted,
                       !.reasoning = IF silent THEN "none" ELSE @]
     ELSE body

\* sendOk(): one JSON body, or the frames of its first choice and [DONE].
SendOk(r, body) ==
  Answered([head |-> IF r.streaming THEN "sse" ELSE "200", body |-> Normalized(body),
            form |-> IF ~ r.streaming THEN "json" ELSE IF body.choice THEN "frames" ELSE "nothing",
            done |-> r.streaming])

\* The repairs, in their order; a call is TRUE when its name is one of the tools.  The
\* one that applies is the last: it sends the answer.
Ghost(body) == body.ghost /\ body.calls = <<>>
Hallucinated(body) == \E i \in DOMAIN body.calls : ~ body.calls[i]
OnlyKnown(body) ==
  LET known == SelectSeq(body.calls, LAMBDA known : known)
  IN [body EXCEPT !.calls = known, !.ghost = IF known = <<>> THEN FALSE ELSE @]
Repaired(body) ==
  CASE Ghost(body) -> [body EXCEPT !.ghost = FALSE]
    [] ~ Ghost(body) /\ Hallucinated(body) -> OnlyKnown(body)
    [] ~ Ghost(body) /\ ~ Hallucinated(body) /\ Len(body.calls) > 1 -> [body EXCEPT !.calls = SubSeq(@, 1, 1)]
    [] OTHER -> body
IsRepaired(body) == body.json /\ body.choice /\ Repaired(body) # body

-----------------------------------------------------------------------------
(* A request arrives *)

\* The instruction to call one tool is put in front, unless it is there already;
\* trimSystemMessages() then cuts a system prompt that no longer fits to its ends, unless
\* it is short.
SystemLength(request) ==
  LET total(prompt) == prompt + (IF request.instructed THEN 0 ELSE Instruction)
  IN IF total(request.system) > MaxSystem /\ request.system > KeepSystem
     THEN total(CutSystem)
     ELSE total(request.system)
\* applyModelLimits(), after the history was trimmed.
WithinLimits(request) ==
  request.size # "too long with the instruction" /\ SystemLength(request) <= MaxSystem

\* mutant: whatever is not a tool result ends the run.
RunAfter(n, tail) == IF tail = "tool" THEN n + 1 ELSE 0
\* The counter of the model after a request whose last message is `tail`.
CounterAfter(n, tail) == CASE tail = "tool" -> n + 1 [] tail = "user" -> 0 [] OTHER -> n

\* Too long for any model, or for this one even with fewer tools.
TooLong(request) ==
  \/ request.size = "beyond ingress"
  \/ request.chat /\ (request.size = "too long" \/ request.system > MaxSystem)
  \/ request.chat /\ request.size = "fits with fewer tools" /\ request.tools <= ProactiveLimit

\* reduceTools(), by number.
Reduced(n, max) == IF n > max THEN max ELSE n

\* Sent on as it is, or buffered and streamed again where a stream would be flaky.
Plain(c, request) ==
  /\ ~ request.chat \/ request.tools = 0
  /\ LET flips == request.chat /\ request.stream /\ request.force
     IN asked' = [asked EXCEPT ![c] =
          [phase |-> IF flips THEN "flipping" ELSE "relaying", streaming |-> flips, keepAlive |-> flips, out |-> Unsent]]
  /\ UNCHANGED <<counters, rounds>>

\* With tools: reduced, trimmed, counted, and stripped of the tools at the limit.
WithTools(c, request) ==
  LET m == ModelOf[c]
      n == CounterAfter(counters[m], request.tail)
      cut == n >= ToolRoundLimit
      since == IF request.tail = "user" THEN 0 ELSE rounds[c]
  IN /\ request.chat /\ request.tools > 0
     /\ IF ~ WithinLimits(request)
        THEN asked' = [asked EXCEPT ![c] = Rejection("413")] /\ UNCHANGED <<counters, rounds>>
        ELSE /\ counters' = [counters EXCEPT ![m] = IF cut THEN 0 ELSE n]
             /\ rounds' = [rounds EXCEPT ![c] = IF cut THEN 0 ELSE IF request.tail = "tool" /\ since < ToolRoundLimit THEN since + 1 ELSE since]
             /\ asked' = [asked EXCEPT ![c] =
                  [phase |-> "calling", streaming |-> request.stream, keepAlive |-> request.stream, out |-> Unsent,
                   all |-> request.tools, tools |-> IF cut THEN 0 ELSE Reduced(request.tools, ProactiveLimit),
                   listed |-> TRUE, attempt |-> 1, waits |-> 0]]

\* A client asks again after any answer, a refused request with the same tail too.
Receive(c, request) ==
  /\ asked[c].phase = "answered"
  /\ IF TooLong(request)
     THEN asked' = [asked EXCEPT ![c] = Rejection("413")] /\ UNCHANGED <<counters, rounds>>
     ELSE \/ Plain(c, request)
          \/ WithTools(c, [request EXCEPT !.tools =
               IF request.size = "fits with fewer tools" THEN ProactiveLimit ELSE @])

-----------------------------------------------------------------------------
(* The upstream answers, with [status, body] *)

Relay(c, answer) ==
  /\ asked[c].phase = "relaying"
  /\ asked' = [asked EXCEPT ![c] = Relayed(@, answer.status, answer.body)]

Flip(c, answer) ==
  /\ asked[c].phase = "flipping"
  /\ asked' = [asked EXCEPT ![c] =
       CASE answer.status = "200" /\ answer.body.json -> SendOk(@, answer.body)
         [] answer.status = "200" /\ ~ answer.body.json -> Relayed(@, "200", answer.body)
         [] OTHER -> Answered([head |-> "sse", body |-> NoBody, form |-> "error frame", done |-> TRUE])]

\* A 429 is waited out within the attempt.
Wait(c, answer) ==
  /\ asked[c].phase = "calling"
  /\ answer.status = "429" /\ asked[c].waits < Max429Retries
  /\ asked' = [asked EXCEPT ![c].phase = "waiting"]

\* 400 "single tool-calls": the next attempt has fewer tools, then one that is forced,
\* then none, and no parameter of tools either.
Reduce(c, answer) ==
  LET r == asked[c]
  IN /\ r.phase = "calling"
     /\ answer.status = "single tool-calls" /\ r.attempt < MaxRetries
     /\ asked' = [asked EXCEPT ![c] =
          [r EXCEPT !.attempt = @ + 1, !.waits = 0,
                    !.tools = CASE r.attempt = 1 -> Reduced(r.all, SecondLimit)
                                [] r.attempt = 2 -> 1
                                [] OTHER -> 0,
                    !.listed = r.attempt <= 2]]

\* Any other answer is the last one.
Deliver(c, answer) ==
  LET r == asked[c]
  IN /\ r.phase = "calling"
     /\ answer.status = "429" => r.waits = Max429Retries
     /\ answer.status = "single tool-calls" => r.attempt = MaxRetries
     /\ asked' = [asked EXCEPT ![c] =
          CASE answer.status = "200" /\ r.listed /\ IsRepaired(answer.body) -> SendOk(r, Repaired(answer.body))
            [] answer.status = "200" /\ ~ (r.listed /\ IsRepaired(answer.body)) /\ r.streaming /\ answer.body.json ->
                 SendOk(r, answer.body)
            [] OTHER -> Relayed(r, answer.status, answer.body)]

UpstreamAnswers(c, answer) ==
  /\ \/ Relay(c, answer)
     \/ Flip(c, answer)
     \/ Wait(c, answer)
     \/ Reduce(c, answer)
     \/ Deliver(c, answer)
  /\ UNCHANGED <<counters, rounds>>

WaitOver(c) ==
  /\ asked[c].phase = "waiting"
  /\ asked' = [asked EXCEPT ![c].phase = "calling", ![c].waits = @ + 1]
  /\ UNCHANGED <<counters, rounds>>

\* sendUpstream() rejects; the process that starts again has counted nothing.
UpstreamThrows ==
  /\ \E c \in Conversations : asked[c].phase \in {"relaying", "flipping", "calling"}
  /\ asked' = [c \in Conversations |-> IF asked[c].phase = "answered" THEN asked[c] ELSE Answered(Unsent)]
  /\ counters' = [m \in Models |-> 0]
  /\ rounds' = [c \in Conversations |-> 0]

Answers ==
  {[status |-> "200", body |-> body] : body \in Bodies}
    \cup {[status |-> s, body |-> NoBody] : s \in {"429", "single tool-calls", "500", "302"}}

CoreNext ==
  \/ \E c \in Conversations :
       \/ \E request \in CoreRequests : Receive(c, request)
       \/ \E answer \in Answers : UpstreamAnswers(c, answer)
       \/ WaitOver(c)
  \/ UpstreamThrows

CoreSpec == CoreInit /\ [][CoreNext]_coreVars

-----------------------------------------------------------------------------
\* toolRoundLimit, "consecutive tool-call rounds before the proxy strips all tools": a
\* conversation that has its model to itself is given tools for fewer rounds than
\* that, whatever else it sends in between.
LoopIsCut ==
  \A c \in Conversations :
    (\A d \in Conversations \ {c} : ModelOf[d] # ModelOf[c]) => rounds[c] < ToolRoundLimit

=============================================================================
