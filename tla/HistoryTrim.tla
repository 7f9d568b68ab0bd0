---------------------------- MODULE HistoryTrim ----------------------------
(***************************************************************************)
(* What the gateway leaves of a long conversation: the history a client    *)
(* resends with every turn goes through trimConversationHistory() of       *)
(* src/src/proxy/core.mjs, trimHistoryToBudget() and repairToolPairing()   *)
(* of src/src/proxy/sanitizer.mjs, and then normalizeSystemMessageOrder(). *)
(*                                                                         *)
(* A message is its role, the calls it makes or the call it answers, and   *)
(* its place in the history.  A message weighs 1, a tool result that was   *)
(* not truncated 2; the budget is in the same unit.                        *)
(***************************************************************************)
EXTENDS Naturals, SequencesExt, FiniteSetsExt

CONSTANTS MaxMessages, \* bound: the length of a history
          MaxCalls,    \* bound: the calls of one assistant message
          KeepEnd      \* keepEnd; keepStart is 2

ASSUME TrimAssumption == {MaxMessages, MaxCalls, KeepEnd} \subseteq Nat \ {0}

KeepStart == 2
MinMessages == 6

VARIABLES history, \* the client's conversation
          budget,  \* maxBodyBytes when it was last sent
          trimmed, \* what trimming left of it
          sent     \* what goes to the backend

trimVars == <<history, budget, trimmed, sent>>

Message(role, calls, answers) ==
  [role |-> role, calls |-> calls, answers |-> answers, at |-> Len(history) + 1]
Prompt == [role |-> "system", calls |-> {}, answers |-> <<>>, at |-> 1]
Notice == [role |-> "system", calls |-> {}, answers |-> <<>>, at |-> 0]
AggressiveNotice == [Notice EXCEPT !.at = MaxMessages + 1]

TrimInit ==
  /\ history \in {<<>>, <<Prompt>>}
  /\ budget = 0
  /\ trimmed = <<>>
  /\ sent = <<>>

-----------------------------------------------------------------------------
(* repairToolPairing() *)

IsTool(m) == m.role = "tool"
Pick(s, indices) == FlattenSeq([i \in DOMAIN s |-> IF i \in indices THEN <<s[i]>> ELSE <<>>])
ToolsAfter(s, i) == {j \in i + 1 .. Len(s) : \A k \in i + 1 .. j : IsTool(s[k])}
CallsAnswered(s, i) == s[i].calls \subseteq {s[j].answers : j \in ToolsAfter(s, i)}

\* Leading tool results go, and a call with a missing answer goes with the answers
\* it has.
Repair(s) ==
  LET partial == {i \in DOMAIN s : ~ CallsAnswered(s, i)}
  IN Pick(s, DOMAIN s \ (ToolsAfter(s, 0) \cup partial
                         \cup UNION {ToolsAfter(s, i) : i \in partial}))

-----------------------------------------------------------------------------
(* trimHistoryToBudget() *)

System(s) == Pick(s, {i \in DOMAIN s : s[i].role = "system"})
Rest(s) == Pick(s, {i \in DOMAIN s : s[i].role # "system"})
Ending(s, n) == SubSeq(s, IF Len(s) > n THEN Len(s) - n + 1 ELSE 1, Len(s))

\* Pass A: the first messages, a notice for the middle, and a tail.
WithoutMiddle(s, tail) ==
  LET rest == Rest(s)
  IN System(s) \o SubSeq(rest, 1, KeepStart)
       \o (IF Len(rest) > KeepStart + tail THEN <<Notice>> ELSE <<>>) \o Repair(Ending(rest, tail))

\* Passes B and C: the first user message, a notice, and a short tail.
FirstUserAnd(s, tail) ==
  LET rest == Rest(s)
      users == Pick(rest, {i \in DOMAIN rest : rest[i].role = "user"})
      last == Repair(Ending(rest, tail))
  IN System(s)
       \o (IF users # <<>> /\ ~ Contains(last, users[1]) THEN <<users[1], AggressiveNotice>> ELSE <<>>)
       \o last

Shrunk(s, bytes) ==
  LET tails == {n \in 2 .. Min({KeepEnd, Len(Rest(s)) - KeepStart}) :
                  Len(WithoutMiddle(s, n)) <= bytes}
  IN IF tails # {} THEN WithoutMiddle(s, Max(tails))
     ELSE IF Len(FirstUserAnd(s, 4)) <= bytes THEN FirstUserAnd(s, 4)
     ELSE FirstUserAnd(s, 2)

\* mutant: the pieces are joined without a look at the seam.
JoinedOnly(s) == s
\* The repair of the whole, after the pieces were put together.
Assembled(s) == Repair(s)

\* Over the budget the tool results are truncated first.
Weight(s) == Len(s) + Len(SelectSeq(s, IsTool))
Trim(s, bytes) ==
  IF Len(s) < MinMessages \/ Weight(s) <= bytes \/ Len(s) <= bytes \/ Len(Rest(s)) <= 4 THEN s
  ELSE Assembled(Shrunk(s, bytes))

\* normalizeSystemMessageOrder(): one system message, in front.
Normalized(s) == IF System(s) = <<>> THEN s ELSE <<System(s)[1]>> \o Rest(s)

-----------------------------------------------------------------------------
(* The conversation *)

CallsOpen == \E i \in DOMAIN history : ~ CallsAnswered(history, i)
Says(m) == Len(history) < MaxMessages /\ history' = Append(history, m)
Forget ==
  /\ budget' = 0
  /\ trimmed' = <<>>
  /\ sent' = <<>>
LastRole == IF history = <<>> THEN "none" ELSE history[Len(history)].role

User ==
  /\ ~ CallsOpen
  /\ LastRole \in {"none", "system", "assistant"}
  /\ Says(Message("user", {}, <<>>))
  /\ Forget

\* The assistant answers in text or calls tools.
Assistant ==
  /\ ~ CallsOpen
  /\ LastRole \in {"user", "tool"}
  /\ \E calls \in 0 .. MaxCalls : Says(Message("assistant", {<<Len(history) + 1, k>> : k \in 1 .. calls}, <<>>))
  /\ Forget

\* The client answers the calls, in order.
Tool ==
  /\ \E i \in DOMAIN history :
       LET open == history[i].calls \ {history[j].answers : j \in ToolsAfter(history, i)}
       IN \E call \in open :
            /\ \A other \in open : call[2] <= other[2]
            /\ Says(Message("tool", {}, call))
  /\ Forget

\* A request: it ends with a user message or with the answers to the last calls.
Send ==
  /\ ~ CallsOpen
  /\ LastRole \in {"user", "tool"}
  /\ budget' \in 1 .. MaxMessages
  /\ trimmed' = Trim(history, budget')
  /\ sent' = Normalized(trimmed')
  /\ UNCHANGED history

\* A history as long as the model allows is given up.
StartOver ==
  /\ Len(history) = MaxMessages
  /\ history' \in {<<>>, <<Prompt>>}
  /\ Forget

TrimNext ==
  \/ User
  \/ Assistant
  \/ Tool
  \/ Send
  \/ StartOver

TrimSpec == TrimInit /\ [][TrimNext]_trimVars

-----------------------------------------------------------------------------

\* "Every tail slice is repaired to drop orphan tool messages and incomplete calls":
\* wherever the cuts fall, a backend never sees a result without its call, nor a call
\* without all of its results.
PairsStayWhole ==
  \A i \in DOMAIN sent :
    /\ CallsAnswered(sent, i)
    /\ IsTool(sent[i]) => \E c \in 1 .. i - 1 : i \in ToolsAfter(sent, c) /\ sent[i].answers \in sent[c].calls

=============================================================================
