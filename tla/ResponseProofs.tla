---------------------------- MODULE ResponseProofs ----------------------------
(***************************************************************************)
(* Proofs about what is sent to an upstream and what comes back:           *)
(*   ResponseContract, for any ids of tool calls and any number of frames, *)
(*     choices and calls;                                                  *)
(*   HistoryTrim, for any conversation and any budget;                     *)
(*   AnthropicBridge, for any number of turns and of blocks of an answer.  *)
(***************************************************************************)
EXTENDS ResponseContract, HistoryTrim, AnthropicBridge, LineLemmas, FiniteSetTheorems

-----------------------------------------------------------------------------
(* ResponseContract.  Fragment by fragment, what the stream check knows of *)
(* a choice and what a client makes of its frames hold the same calls, as  *)
(* long as the choice is valid, and every id is written down with the one  *)
(* call it belongs to.                                                     *)

\* Tables: some of the keys have a value.
Tables(K, V) == UNION {[D -> V] : D \in SUBSET K}
Pieces == {"part", "whole", "rest"}
Tells == [slot : Nat, id : Ids \cup {NoId}, piece : Pieces]
Frames == [kind : {"chunk", "usage", "done", "broken"}, choice : Nat, text : Texts, tools : Seq(Tells),
           finish : Reasons, usage : Usages]
Called == [id : Ids \cup {NoId}, args : Seq(Pieces)]
Callings == Tables(Nat, Called)
ChoiceStates == [visible : BOOLEAN, tools : BOOLEAN, valid : BOOLEAN, calls : Callings, reasons : Seq(Reasons)]
IdMaps == Tables(Ids, Nat \X Nat)

\* Putting a value in a table: it stays a table, and the others stay.
LEMMA WithIsTable ==
  ASSUME NEW K, NEW V, NEW f \in Tables(K, V), NEW k \in K, NEW v \in V
  PROVE  With(f, k, v) \in Tables(K, V)
<1>1. PICK D \in SUBSET K : f \in [D -> V]
  BY DEF Tables
<1>2. With(f, k, v) \in [D \cup {k} -> V] /\ D \cup {k} \in SUBSET K
  BY <1>1 DEF With
<1>3. QED
  BY <1>2 DEF Tables

LEMMA HeldFacts ==
  ASSUME NEW K, NEW V, NEW f \in Tables(K, V), NEW k, NEW v \in V
  PROVE  Held(f, k, v) \in V /\ DOMAIN f \subseteq K
BY DEF Held, Tables

Grows(ids, more) == \A i \in DOMAIN ids : i \in DOMAIN more /\ more[i] = ids[i]

\* What is known of a choice and what a client makes of it are the same, as long as
\* the choice is valid; and its ids are its own.
Follows(c, s, ids, calls) ==
  /\ s.tools <=> DOMAIN s.calls # {}
  /\ DOMAIN calls = DOMAIN s.calls
  /\ s.valid =>
       \A k \in DOMAIN s.calls :
         /\ calls[k] = s.calls[k]
         /\ s.calls[k].id # NoId => s.calls[k].id \in DOMAIN ids /\ ids[s.calls[k].id] = <<c, k>>

\* A fragment, for the client.
Joins(calls, t) ==
  LET call == Held(calls, t.slot, NewCall)
  IN With(calls, t.slot, [id |-> IF call.id = NoId THEN t.id ELSE call.id, args |-> Append(call.args, t.piece)])

LEMMA NewCallIsCalled == NewCall \in Called /\ NewCall.id = NoId
<1>1. <<>> \in Seq(Pieces)
  OBVIOUS
<1>2. QED
  BY <1>1 DEF NewCall, Called

LEMMA HeldCall ==
  ASSUME NEW calls \in Callings, NEW k
  PROVE  /\ Held(calls, k, NewCall) \in Called /\ DOMAIN calls \subseteq Nat
         /\ k \in DOMAIN calls => Held(calls, k, NewCall) = calls[k]
         /\ k \notin DOMAIN calls => Held(calls, k, NewCall) = NewCall
<1>1. Held(calls, k, NewCall) \in Called /\ DOMAIN calls \subseteq Nat
  BY NewCallIsCalled, HeldFacts DEF Callings
<1>2. QED
  BY <1>1 DEF Held

\* A call with a name and one more piece.
LEMMA PieceFacts ==
  ASSUME NEW call \in Called, NEW id \in Ids \cup {NoId}, NEW piece \in Pieces
  PROVE  [id |-> id, args |-> Append(call.args, piece)] \in Called
<1>1. call.args \in Seq(Pieces) /\ Append(call.args, piece) \in Seq(Pieces)
  BY DEF Called
<1>2. QED
  BY <1>1 DEF Called

LEMMA PieceAdded ==
  ASSUME NEW call \in Called, NEW piece
  PROVE  [call EXCEPT !.args = Append(@, piece)] = [id |-> call.id, args |-> Append(call.args, piece)]
<1> DEFINE args == Append(call.args, piece)
<1> HIDE DEF args
<1>1. [call EXCEPT !.args = args] = [id |-> call.id, args |-> args]
  BY DEF Called
<1>2. QED
  BY <1>1 DEF args

LEMMA CallNamed ==
  ASSUME NEW call \in Called, NEW id \in Ids \cup {NoId}
  PROVE  /\ [call EXCEPT !.id = id] \in Called
         /\ [call EXCEPT !.id = id].id = id
         /\ [call EXCEPT !.id = id].args = call.args
BY DEF Called

LEMMA CallingsWith ==
  ASSUME NEW calls \in Callings, NEW k \in Nat, NEW call \in Called
  PROVE  With(calls, k, call) \in Callings
BY WithIsTable DEF Callings

LEMMA IdMapsWith ==
  ASSUME NEW ids \in IdMaps, NEW k \in Ids, NEW owner \in Nat \X Nat
  PROVE  With(ids, k, owner) \in IdMaps
BY WithIsTable DEF IdMaps

LEMMA JoinsFacts ==
  ASSUME NEW calls \in Callings, NEW t \in Tells
  PROVE  /\ Joins(calls, t) \in Callings
         /\ DOMAIN Joins(calls, t) = DOMAIN calls \cup {t.slot}
         /\ Joins(calls, t)[t.slot] =
              [id |-> IF Held(calls, t.slot, NewCall).id = NoId THEN t.id ELSE Held(calls, t.slot, NewCall).id,
               args |-> Append(Held(calls, t.slot, NewCall).args, t.piece)]
         /\ \A x \in DOMAIN calls : x # t.slot => Joins(calls, t)[x] = calls[x]
<1> DEFINE call == Held(calls, t.slot, NewCall)
           id == IF call.id = NoId THEN t.id ELSE call.id
           more == [id |-> id, args |-> Append(call.args, t.piece)]
<1>1. call \in Called
  BY HeldCall
<1>2. t.slot \in Nat /\ t.id \in Ids \cup {NoId} /\ t.piece \in Pieces
  BY DEF Tells
<1>3. id \in Ids \cup {NoId}
  <2> HIDE DEF call
  <2>1. call.id \in Ids \cup {NoId}
    BY <1>1 DEF Called
  <2>2. QED
    BY <1>2, <2>1
<1>4. more \in Called
  <2> HIDE DEF call, id
  <2>1. QED
    BY <1>1, <1>2, <1>3, PieceFacts
<1>5. Joins(calls, t) = With(calls, t.slot, more)
  BY DEF Joins
<1> HIDE DEF call, id
<1>6. /\ With(calls, t.slot, more) \in Callings
      /\ DOMAIN With(calls, t.slot, more) = DOMAIN calls \cup {t.slot}
      /\ With(calls, t.slot, more)[t.slot] = more
      /\ \A x \in DOMAIN calls : x # t.slot => With(calls, t.slot, more)[x] = calls[x]
  <2> HIDE DEF more
  <2>1. With(calls, t.slot, more) \in Callings
    BY <1>2, <1>4, CallingsWith
  <2>2. DOMAIN With(calls, t.slot, more) = DOMAIN calls \cup {t.slot}
        /\ With(calls, t.slot, more)[t.slot] = more
        /\ \A x \in DOMAIN calls : x # t.slot => With(calls, t.slot, more)[x] = calls[x]
    BY DEF With
  <2>3. QED
    BY <2>1, <2>2
<1>7. QED
  BY <1>5, <1>6 DEF call, id

\* The call a fragment is about, whether its id is a bad one, and the id after it.
CallOf(s, t) == Held(s.calls, t.slot, NewCall)
Bad(c, s, ids, t) == t.id # NoId /\ IdTaken(ids, <<c, t.slot>>, CallOf(s, t), t.id)
IdAfter(c, s, ids, t) == IF t.id = NoId \/ Bad(c, s, ids, t) THEN CallOf(s, t).id ELSE t.id
Kept(c, s, ids, t) == IF t.id = NoId \/ Bad(c, s, ids, t) THEN ids ELSE With(ids, t.id, <<c, t.slot>>)
Named(c, s, ids, t) ==
  IF t.id = NoId \/ Bad(c, s, ids, t) THEN CallOf(s, t) ELSE [CallOf(s, t) EXCEPT !.id = t.id]
Added(call, piece) == [call EXCEPT !.args = Append(@, piece)]
More(c, s, ids, t) == [id |-> IdAfter(c, s, ids, t), args |-> Append(CallOf(s, t).args, t.piece)]

LEMMA TellFacts ==
  ASSUME NEW s \in ChoiceStates, NEW t \in Tells
  PROVE  /\ t.slot \in Nat /\ t.id \in Ids \cup {NoId} /\ t.piece \in Pieces
         /\ s.calls \in Callings
         /\ CallOf(s, t) \in Called /\ CallOf(s, t).id \in Ids \cup {NoId}
<1>1. /\ t.slot \in Nat /\ t.id \in Ids \cup {NoId} /\ t.piece \in Pieces
      /\ s.calls \in Callings
  BY DEF Tells, ChoiceStates
<1>2. CallOf(s, t) \in Called
  BY <1>1, HeldCall DEF CallOf
<1>3. QED
  BY <1>1, <1>2 DEF Called

LEMMA MoreFacts ==
  ASSUME NEW c, NEW s \in ChoiceStates, NEW ids, NEW t \in Tells
  PROVE  /\ More(c, s, ids, t) \in Called
         /\ Added(Named(c, s, ids, t), t.piece) = More(c, s, ids, t)
<1> DEFINE call == CallOf(s, t)
           named == Named(c, s, ids, t)
<1>1. t.id \in Ids \cup {NoId} /\ t.piece \in Pieces /\ call \in Called /\ call.id \in Ids \cup {NoId}
  BY TellFacts
<1>2. named \in Called /\ named.id = IdAfter(c, s, ids, t) /\ named.args = call.args
  <2> HIDE DEF call
  <2>1. CASE t.id = NoId \/ Bad(c, s, ids, t)
    BY <1>1, <2>1 DEF IdAfter, Named, call
  <2>2. CASE ~ (t.id = NoId \/ Bad(c, s, ids, t))
    <3>1. named = [call EXCEPT !.id = t.id] /\ IdAfter(c, s, ids, t) = t.id
      BY <2>2 DEF IdAfter, Named, call
    <3> HIDE DEF named
    <3>2. QED
      BY <1>1, <3>1, CallNamed
  <2>3. QED
    BY <2>1, <2>2
<1>3. IdAfter(c, s, ids, t) \in Ids \cup {NoId}
  BY <1>1 DEF IdAfter
<1>4. More(c, s, ids, t) \in Called
  BY <1>1, <1>3, PieceFacts DEF More
<1> HIDE DEF named, call
<1>5. Added(named, t.piece) = [id |-> named.id, args |-> Append(named.args, t.piece)]
  BY <1>2, PieceAdded DEF Added
<1>6. Added(named, t.piece) = More(c, s, ids, t)
  BY <1>2, <1>5 DEF More, call
<1>7. QED
  BY <1>4, <1>6 DEF named, call

Now(c, s, ids, t) ==
  [s EXCEPT !.tools = TRUE, !.valid = @ /\ ~ Bad(c, s, ids, t), !.calls = With(@, t.slot, More(c, s, ids, t))]

LEMMA CollectedIs ==
  ASSUME NEW c, NEW s \in ChoiceStates, NEW ids, NEW t \in Tells
  PROVE  Collected(c, s, ids, t) = <<Now(c, s, ids, t), Kept(c, s, ids, t)>>
<1> DEFINE more == Added(Named(c, s, ids, t), t.piece)
<1>1. Collected(c, s, ids, t) =
           <<[s EXCEPT !.tools = TRUE, !.valid = @ /\ ~ Bad(c, s, ids, t), !.calls = With(@, t.slot, more)],
             Kept(c, s, ids, t)>>
  BY Zenon DEF Collected, Kept, Named, Bad, CallOf, Added
<1>2. more = More(c, s, ids, t)
  BY MoreFacts
<1> HIDE DEF more
<1>3. QED
  BY <1>1, <1>2 DEF Now

\* The state after a fragment, and the table of ids.
CollectedWell(c, s, ids, t) ==
  LET after == Collected(c, s, ids, t)
  IN /\ after[1] \in ChoiceStates
     /\ after[1].visible = s.visible /\ after[1].reasons = s.reasons
     /\ after[1].tools = TRUE
     /\ after[1].valid = (s.valid /\ ~ Bad(c, s, ids, t))
     /\ DOMAIN after[1].calls = DOMAIN s.calls \cup {t.slot}
     /\ after[1].calls[t.slot] = More(c, s, ids, t)
     /\ \A x \in DOMAIN s.calls : x # t.slot => after[1].calls[x] = s.calls[x]
     /\ after[2] = Kept(c, s, ids, t)
     /\ after[2] \in IdMaps

LEMMA CollectedFacts ==
  ASSUME NEW c \in Nat, NEW s \in ChoiceStates, NEW ids \in IdMaps, NEW t \in Tells
  PROVE  CollectedWell(c, s, ids, t)
<1> DEFINE bad == Bad(c, s, ids, t)
           calls == With(s.calls, t.slot, More(c, s, ids, t))
           now == [s EXCEPT !.tools = TRUE, !.valid = @ /\ ~ bad, !.calls = calls]
           kept == Kept(c, s, ids, t)
<1>0. Collected(c, s, ids, t) = <<now, kept>>
  BY CollectedIs DEF Now
<1>1. t.slot \in Nat /\ t.id \in Ids \cup {NoId} /\ s.calls \in Callings
  BY TellFacts
<1>3. bad \in BOOLEAN
  BY DEF Bad
<1>4. More(c, s, ids, t) \in Called
  BY MoreFacts
<1>5. /\ calls \in Callings
      /\ DOMAIN calls = DOMAIN s.calls \cup {t.slot}
      /\ calls[t.slot] = More(c, s, ids, t)
      /\ \A x \in DOMAIN s.calls : x # t.slot => calls[x] = s.calls[x]
  <2> DEFINE more == More(c, s, ids, t)
  <2> HIDE DEF more
  <2>1. more \in Called
    BY <1>4 DEF more
  <2>2. With(s.calls, t.slot, more) \in Callings
    BY <1>1, <2>1, CallingsWith
  <2>3. DOMAIN With(s.calls, t.slot, more) = DOMAIN s.calls \cup {t.slot}
        /\ With(s.calls, t.slot, more)[t.slot] = more
        /\ \A x \in DOMAIN s.calls : x # t.slot => With(s.calls, t.slot, more)[x] = s.calls[x]
    BY DEF With
  <2>4. QED
    BY <2>2, <2>3 DEF more
<1> HIDE DEF calls, bad
<1>6. /\ now.visible = s.visible /\ now.reasons = s.reasons /\ now.tools = TRUE
      /\ now.valid = (s.valid /\ ~ bad) /\ now.calls = calls
  BY DEF ChoiceStates
<1>8. now \in ChoiceStates
  <2>1. (s.valid /\ ~ bad) \in BOOLEAN
    BY DEF ChoiceStates
  <2>2. QED
    BY <2>1, <1>5 DEF ChoiceStates
<1>9. kept \in IdMaps
  <2>1. CASE t.id = NoId \/ bad
    BY <2>1 DEF bad, Kept
  <2>2. CASE ~ (t.id = NoId \/ bad)
    <3>1. t.id \in Ids /\ <<c, t.slot>> \in Nat \X Nat
      BY <2>2, <1>1
    <3>2. With(ids, t.id, <<c, t.slot>>) \in IdMaps
      BY <3>1, IdMapsWith
    <3>3. QED
      BY <2>2, <3>2 DEF bad, Kept
  <2>3. QED
    BY <2>1, <2>2
<1> HIDE DEF now, kept
<1>10. Collected(c, s, ids, t)[1] = now /\ Collected(c, s, ids, t)[2] = kept
  BY <1>0
<1>11. QED
  BY <1>10, <1>5, <1>6, <1>8, <1>9 DEF bad, kept, CollectedWell

\* A fragment, for the choice it is about.
LEMMA FragmentFollows ==
  ASSUME NEW c \in Nat, NEW s \in ChoiceStates, NEW ids \in IdMaps, NEW calls \in Callings, NEW t \in Tells,
         Follows(c, s, ids, calls)
  PROVE  /\ Follows(c, Collected(c, s, ids, t)[1], Collected(c, s, ids, t)[2], Joins(calls, t))
         /\ Grows(ids, Collected(c, s, ids, t)[2])
<1> DEFINE call == CallOf(s, t)
           bad == Bad(c, s, ids, t)
           id == IdAfter(c, s, ids, t)
           now == Collected(c, s, ids, t)[1]
           kept == Collected(c, s, ids, t)[2]
           joined == Joins(calls, t)
           told == Held(calls, t.slot, NewCall)
<1>a. CollectedWell(c, s, ids, t)
  BY CollectedFacts
<1>0. /\ now.tools = TRUE /\ now.valid = (s.valid /\ ~ Bad(c, s, ids, t))
      /\ DOMAIN now.calls = DOMAIN s.calls \cup {t.slot}
      /\ now.calls[t.slot] = More(c, s, ids, t)
      /\ \A x \in DOMAIN s.calls : x # t.slot => now.calls[x] = s.calls[x]
      /\ kept = Kept(c, s, ids, t)
  BY <1>a DEF CollectedWell
<1>1. /\ now.tools = TRUE /\ now.valid = (s.valid /\ ~ bad)
      /\ DOMAIN now.calls = DOMAIN s.calls \cup {t.slot}
      /\ now.calls[t.slot] = [id |-> id, args |-> Append(call.args, t.piece)]
      /\ \A x \in DOMAIN s.calls : x # t.slot => now.calls[x] = s.calls[x]
      /\ kept = Kept(c, s, ids, t)
  BY <1>0, Zenon DEF More
<1>2. /\ DOMAIN joined = DOMAIN calls \cup {t.slot}
      /\ joined[t.slot] = [id |-> IF told.id = NoId THEN t.id ELSE told.id, args |-> Append(told.args, t.piece)]
      /\ \A x \in DOMAIN calls : x # t.slot => joined[x] = calls[x]
  BY JoinsFacts
<1>3. /\ s.tools <=> DOMAIN s.calls # {}
      /\ DOMAIN calls = DOMAIN s.calls
      /\ s.valid =>
           \A k \in DOMAIN s.calls :
             /\ calls[k] = s.calls[k]
             /\ s.calls[k].id # NoId => s.calls[k].id \in DOMAIN ids /\ ids[s.calls[k].id] = <<c, k>>
  BY DEF Follows
<1>4. t.slot \in Nat /\ t.id \in Ids \cup {NoId} /\ <<c, t.slot>> \in Nat \X Nat
  BY DEF Tells
<1>5. ~ (t.id = NoId \/ bad) =>
        /\ call.id = NoId \/ call.id = t.id
        /\ t.id \in Ids
        /\ t.id \in DOMAIN ids => ids[t.id] = <<c, t.slot>>
  BY <1>4 DEF Bad, IdTaken, Held
<1>6. ~ (t.id = NoId \/ bad) =>
        /\ DOMAIN kept = DOMAIN ids \cup {t.id}
        /\ kept[t.id] = <<c, t.slot>>
        /\ \A x \in DOMAIN ids : x # t.id => kept[x] = ids[x]
  <2>1. SUFFICES ASSUME ~ (t.id = NoId \/ bad)
                 PROVE  /\ DOMAIN kept = DOMAIN ids \cup {t.id}
                        /\ kept[t.id] = <<c, t.slot>>
                        /\ \A x \in DOMAIN ids : x # t.id => kept[x] = ids[x]
    OBVIOUS
  <2>2. kept = With(ids, t.id, <<c, t.slot>>)
    BY <2>1, <1>1 DEF Kept
  <2> DEFINE owner == <<c, t.slot>>
  <2> HIDE DEF bad, kept, owner
  <2>3. t.id \in Ids /\ owner \in Nat \X Nat
    BY <2>1, <1>4, <1>5 DEF owner
  <2>4. /\ DOMAIN With(ids, t.id, owner) = DOMAIN ids \cup {t.id}
        /\ With(ids, t.id, owner)[t.id] = owner
        /\ \A x \in DOMAIN ids : x # t.id => With(ids, t.id, owner)[x] = ids[x]
    BY DEF With
  <2>5. QED
    BY <2>2, <2>4 DEF owner
<1>6a. t.id = NoId \/ bad => kept = ids
  BY <1>1 DEF Kept
<1>6b. id = IF t.id = NoId \/ bad THEN call.id ELSE t.id
  BY DEF IdAfter
<1> HIDE DEF bad, kept, now, joined
<1>7. Grows(ids, kept)
  <2>1. CASE t.id = NoId \/ bad
    BY <2>1, <1>6a DEF Grows
  <2>2. CASE ~ (t.id = NoId \/ bad)
    BY <2>2, <1>5, <1>6 DEF Grows
  <2>3. QED
    BY <2>1, <2>2
<1>8. s.valid => told = call
  BY <1>3 DEF Held, CallOf
<1>9. t.slot \in DOMAIN s.calls => call = s.calls[t.slot]
  BY DEF Held, CallOf
<1>10. t.slot \notin DOMAIN s.calls => call.id = NoId
  BY NewCallIsCalled DEF Held, CallOf
<1> HIDE DEF call, told, id
<1>11. ASSUME now.valid, NEW k \in DOMAIN now.calls
       PROVE  /\ joined[k] = now.calls[k]
              /\ now.calls[k].id # NoId => now.calls[k].id \in DOMAIN kept /\ kept[now.calls[k].id] = <<c, k>>
  <2>1. s.valid /\ ~ bad
    BY <1>1, <1>11
  <2>2. CASE k # t.slot
    <3>1. k \in DOMAIN s.calls /\ now.calls[k] = s.calls[k] /\ joined[k] = calls[k]
      BY <2>2, <1>1, <1>2, <1>3
    <3>2. /\ calls[k] = s.calls[k]
          /\ s.calls[k].id # NoId => s.calls[k].id \in DOMAIN ids /\ ids[s.calls[k].id] = <<c, k>>
      BY <2>1, <3>1, <1>3
    <3>3. QED
      BY <3>1, <3>2, <1>7 DEF Grows
  <2>3. CASE k = t.slot
    <3>1. id = IF t.id = NoId THEN call.id ELSE t.id
      BY <2>1, <1>6b
    <3>2. joined[k] = now.calls[k]
      <4>1. (IF told.id = NoId THEN t.id ELSE told.id) = id
        BY <2>1, <3>1, <1>5, <1>8
      <4>2. QED
        BY <2>1, <2>3, <4>1, <1>1, <1>2, <1>8
    <3>3. now.calls[k].id = id
      BY <1>1, <2>3
    <3>4. id # NoId => id \in DOMAIN kept /\ kept[id] = <<c, k>>
      <4>1. CASE t.id # NoId
        BY <4>1, <2>1, <2>3, <3>1, <1>6
      <4>2. CASE t.id = NoId /\ call.id # NoId
        <5>1. call = s.calls[k] /\ k \in DOMAIN s.calls
          BY <4>2, <2>3, <1>9, <1>10
        <5>2. call.id \in DOMAIN ids /\ ids[call.id] = <<c, k>>
          BY <5>1, <4>2, <2>1, <1>3
        <5>3. QED
          BY <5>2, <4>2, <3>1, <1>7 DEF Grows
      <4>3. QED
        BY <4>1, <4>2, <3>1
    <3>5. QED
      BY <3>2, <3>3, <3>4
  <2>4. QED
    BY <2>2, <2>3
<1>12. now.tools <=> DOMAIN now.calls # {}
  BY <1>1
<1>13. DOMAIN joined = DOMAIN now.calls
  BY <1>1, <1>2, <1>3
<1>14. Follows(c, now, kept, joined)
  BY <1>11, <1>12, <1>13 DEF Follows
<1>15. QED
  BY <1>7, <1>14 DEF now, kept, joined

-----------------------------------------------------------------------------
\* What CollectedAll() and Joined() do fragment by fragment.
Steps(g, c, s, ids, fragments) ==
  /\ g[0] = <<s, ids>>
  /\ \A n \in 1 .. Len(fragments) : g[n] = Collected(c, g[n - 1][1], g[n - 1][2], fragments[n])
Joining(h, calls, fragments) ==
  /\ h[0] = calls
  /\ \A n \in 1 .. Len(fragments) : h[n] = Joins(h[n - 1], fragments[n])

LEMMA AfterTell ==
  ASSUME NEW c \in Nat, NEW s \in ChoiceStates, NEW ids \in IdMaps, NEW t \in Tells
  PROVE  Collected(c, s, ids, t) \in ChoiceStates \X IdMaps
<1>1. CollectedWell(c, s, ids, t)
  BY CollectedFacts
<1>2. Collected(c, s, ids, t)[1] \in ChoiceStates /\ Collected(c, s, ids, t)[2] \in IdMaps
  BY <1>1 DEF CollectedWell
<1>3. Collected(c, s, ids, t) = <<Now(c, s, ids, t), Kept(c, s, ids, t)>>
  BY CollectedIs
<1>4. QED
  BY <1>2, <1>3

LEMMA CollectedSteps ==
  ASSUME NEW c \in Nat, NEW s \in ChoiceStates, NEW ids \in IdMaps, NEW fragments \in Seq(Tells)
  PROVE  \E g : /\ Steps(g, c, s, ids, fragments)
                /\ CollectedAll(c, s, ids, fragments) = g[Len(fragments)]
<1> DEFINE last == Len(fragments)
           T == ChoiceStates \X IdMaps
           base == <<s, ids>>
           Next1(n, p) == Collected(c, p[1], p[2], fragments[n])
           step == [x \in Nat \X T |-> IF x[1] \in 1 .. last THEN Next1(x[1], x[2]) ELSE base]
           Sound(f) == f = [n \in 0 .. last |-> IF n = 0 THEN base ELSE Next1(n, f[n - 1])]
<1>1. last \in Nat /\ base \in T /\ \A n \in 1 .. last : fragments[n] \in Tells
  OBVIOUS
<1>2. step \in [Nat \X T -> T]
  <2>1. ASSUME NEW n \in 1 .. last, NEW p \in T
        PROVE  Next1(n, p) \in T
    <3>1. fragments[n] \in Tells /\ p[1] \in ChoiceStates /\ p[2] \in IdMaps
      BY <1>1
    <3>2. QED
      BY <3>1, AfterTell
  <2> HIDE DEF Next1, T, base, last
  <2>2. \A x \in Nat \X T : x[2] \in T
    OBVIOUS
  <2>3. QED
    BY <1>1, <2>1, <2>2
<1>3. PICK f : Recurs(f, T, base, step, last)
  <2> HIDE DEF T, step, base, last
  <2>1. QED
    BY <1>1, <1>2, Recursion, Zenon
<1>4. Sound(f)
  <2> USE <1>3 DEF Recurs
  <2>1. \A n \in 1 .. last : f[n] = Next1(n, f[n - 1])
    <3> HIDE DEF Next1, T, base, last
    <3>1. SUFFICES ASSUME NEW n \in 1 .. last
                   PROVE  f[n] = Next1(n, f[n - 1])
      OBVIOUS
    <3>2. n \in Nat /\ n - 1 \in 0 .. last
      BY <1>1
    <3>3. f[n - 1] \in T
      BY <1>3, <3>2
    <3>4. step[<<n, f[n - 1]>>] = Next1(n, f[n - 1])
      BY <3>2, <3>3
    <3>5. f[n] = step[<<n, f[n - 1]>>]
      BY <1>3
    <3>6. QED
      BY <3>4, <3>5
  <2> HIDE DEF Next1, T, base, step, last
  <2>2. \A n \in 0 .. last : n = 0 \/ n \in 1 .. last
    BY <1>1
  <2>3. QED
    BY <1>3, <2>1, <2>2
<1> DEFINE g == CHOOSE x : Sound(x)
<1>5. Sound(g)
  <2> HIDE DEF Sound
  <2>1. QED
    BY <1>4
<1>6. CollectedAll(c, s, ids, fragments) = g[last]
  BY DEF CollectedAll
<1>7. g[0] = base /\ \A n \in 1 .. last : g[n] = Next1(n, g[n - 1])
  <2> HIDE DEF g, base, Next1, last
  <2>1. 0 \in 0 .. last /\ \A n \in 1 .. last : n \in 0 .. last /\ n # 0
    BY <1>1
  <2>2. QED
    BY <1>5, <2>1
<1> HIDE DEF g
<1>8. QED
  BY <1>6, <1>7 DEF Steps

LEMMA JoinedSteps ==
  ASSUME NEW g, g.calls \in Callings, NEW f \in Frames
  PROVE  \E h : /\ Joining(h, g.calls, f.tools)
                /\ Joined(g, f).calls = h[Len(f.tools)]
<1> DEFINE last == Len(f.tools)
           base == g.calls
           step == [x \in Nat \X Callings |-> IF x[1] \in 1 .. last THEN Joins(x[2], f.tools[x[1]]) ELSE base]
           Sound(y) == y = [n \in 0 .. last |-> IF n = 0 THEN base ELSE Joins(y[n - 1], f.tools[n])]
<1>1. last \in Nat /\ \A n \in 1 .. last : f.tools[n] \in Tells
  <2>1. f.tools \in Seq(Tells)
    BY DEF Frames
  <2>2. QED
    BY <2>1
<1>2. step \in [Nat \X Callings -> Callings]
  <2>1. \A n \in 1 .. last, p \in Callings : Joins(p, f.tools[n]) \in Callings
    BY <1>1, JoinsFacts
  <2>2. \A x \in Nat \X Callings : x[2] \in Callings
    OBVIOUS
  <2> HIDE DEF last
  <2>3. QED
    BY <2>1, <2>2
<1>3. PICK y : Recurs(y, Callings, base, step, last)
  <2>1. base \in Callings
    OBVIOUS
  <2> HIDE DEF step, base, last
  <2>2. QED
    BY <1>1, <1>2, <2>1, Recursion, Zenon
<1>4. Sound(y)
  <2> USE <1>3 DEF Recurs
  <2>1. \A n \in 1 .. last : y[n] = Joins(y[n - 1], f.tools[n])
    <3> HIDE DEF base, last
    <3>1. SUFFICES ASSUME NEW n \in 1 .. last
                   PROVE  y[n] = Joins(y[n - 1], f.tools[n])
      OBVIOUS
    <3>2. n \in Nat /\ n - 1 \in 0 .. last
      BY <1>1
    <3>3. y[n - 1] \in Callings
      BY <1>3, <3>2
    <3>4. step[<<n, y[n - 1]>>] = Joins(y[n - 1], f.tools[n])
      BY <3>2, <3>3
    <3>5. y[n] = step[<<n, y[n - 1]>>]
      BY <1>3
    <3>6. QED
      BY <3>4, <3>5
  <2> HIDE DEF base, step, last
  <2>2. \A n \in 0 .. last : n = 0 \/ n \in 1 .. last
    BY <1>1
  <2>3. QED
    BY <1>3, <2>1, <2>2
<1> DEFINE h == CHOOSE x : Sound(x)
<1>5. Sound(h)
  <2> HIDE DEF Sound
  <2>1. QED
    BY <1>4
<1>6. Joined(g, f).calls = h[last]
  BY DEF Joined, Joins
<1>7. h[0] = base /\ \A n \in 1 .. last : h[n] = Joins(h[n - 1], f.tools[n])
  <2> HIDE DEF h, base, last
  <2>1. 0 \in 0 .. last /\ \A n \in 1 .. last : n \in 0 .. last /\ n # 0
    BY <1>1
  <2>2. QED
    BY <1>5, <2>1
<1> HIDE DEF h
<1>8. QED
  BY <1>6, <1>7 DEF Joining

-----------------------------------------------------------------------------
\* What is known of a choice, and what a client makes of it.
Gots == [text : Texts, calls : Callings, ends : Nat]
Alike(c, s, ids, g) ==
  /\ Follows(c, s, ids, g.calls)
  /\ s.visible <=> Visible(g.text)
  /\ g.ends = Len(s.reasons)

\* Calls that follow still do when more ids are known.
LEMMA FollowsGrown ==
  ASSUME NEW c, NEW s, NEW ids, NEW more, NEW calls, Follows(c, s, ids, calls), Grows(ids, more)
  PROVE  Follows(c, s, more, calls)
BY DEF Follows, Grows

LEMMA AlikeGrown ==
  ASSUME NEW c, NEW s, NEW ids, NEW more, NEW g, Alike(c, s, ids, g), Grows(ids, more)
  PROVE  Alike(c, s, more, g)
BY FollowsGrown DEF Alike

\* The fragments of a chunk, one after the other.
LEMMA FragmentsFollow ==
  ASSUME NEW c \in Nat, NEW s \in ChoiceStates, NEW ids \in IdMaps, NEW g, g.calls \in Callings, NEW f \in Frames,
         Follows(c, s, ids, g.calls)
  PROVE  LET after == CollectedAll(c, s, ids, f.tools)
         IN /\ after[1] \in ChoiceStates /\ after[2] \in IdMaps
            /\ after[1].visible = s.visible /\ after[1].reasons = s.reasons
            /\ Joined(g, f).calls \in Callings
            /\ Follows(c, after[1], after[2], Joined(g, f).calls)
            /\ Grows(ids, after[2])
<1> DEFINE last == Len(f.tools)
<1>1. f.tools \in Seq(Tells) /\ last \in Nat /\ \A n \in 1 .. last : f.tools[n] \in Tells
  <2>1. f.tools \in Seq(Tells)
    BY DEF Frames
  <2>2. QED
    BY <2>1
<1>2. PICK p : Steps(p, c, s, ids, f.tools) /\ CollectedAll(c, s, ids, f.tools) = p[last]
  BY <1>1, CollectedSteps
<1>3. PICK h : Joining(h, g.calls, f.tools) /\ Joined(g, f).calls = h[last]
  BY JoinedSteps
<1> HIDE DEF last
<1> DEFINE Well(n) == /\ p[n][1] \in ChoiceStates /\ p[n][2] \in IdMaps /\ h[n] \in Callings
                      /\ p[n][1].visible = s.visible /\ p[n][1].reasons = s.reasons
                      /\ Follows(c, p[n][1], p[n][2], h[n])
                      /\ Grows(ids, p[n][2])
           Fine == {n \in Nat : n <= last => Well(n)}
<1>4. 0 \in Fine
  <2>1. p[0] = <<s, ids>> /\ h[0] = g.calls
    BY <1>2, <1>3 DEF Steps, Joining
  <2>2. Grows(ids, ids)
    BY DEF Grows
  <2>3. QED
    BY <2>1, <2>2
<1>5. ASSUME NEW n \in Nat, n \in Fine
      PROVE  n + 1 \in Fine
  <2>1. SUFFICES ASSUME n + 1 <= last
                 PROVE  Well(n + 1)
    OBVIOUS
  <2>2. Well(n)
    BY <1>5, <1>1, <2>1
  <2> DEFINE now == p[n][1]
             held == p[n][2]
             t == f.tools[n + 1]
  <2>3. n + 1 \in 1 .. last /\ (n + 1) - 1 = n
    BY <1>1, <2>1
  <2>4. t \in Tells
    BY <1>1, <2>3
  <2>5. p[n + 1] = Collected(c, now, held, t) /\ h[n + 1] = Joins(h[n], t)
    BY <1>2, <1>3, <2>3 DEF Steps, Joining, last
  <2>6. /\ now \in ChoiceStates /\ held \in IdMaps /\ h[n] \in Callings
        /\ now.visible = s.visible /\ now.reasons = s.reasons
        /\ Follows(c, now, held, h[n]) /\ Grows(ids, held)
    BY <2>2
  <2> HIDE DEF now, held, t, Well
  <2>7. CollectedWell(c, now, held, t)
    BY <2>4, <2>6, CollectedFacts
  <2>8. /\ p[n + 1][1] \in ChoiceStates /\ p[n + 1][2] \in IdMaps
        /\ p[n + 1][1].visible = now.visible /\ p[n + 1][1].reasons = now.reasons
    BY <2>5, <2>7 DEF CollectedWell
  <2>9. h[n + 1] \in Callings
    BY <2>4, <2>5, <2>6, JoinsFacts
  <2>10. Follows(c, p[n + 1][1], p[n + 1][2], h[n + 1]) /\ Grows(held, p[n + 1][2])
    BY <2>4, <2>5, <2>6, FragmentFollows
  <2>11. Grows(ids, p[n + 1][2])
    BY <2>6, <2>10 DEF Grows
  <2>12. QED
    BY <2>6, <2>8, <2>9, <2>10, <2>11 DEF Well
<1> HIDE DEF Fine
<1>6. last \in Fine
  BY <1>1, <1>4, <1>5, NatSetInduction
<1>7. Well(last)
  BY <1>1, <1>6 DEF Fine
<1>8. QED
  BY <1>2, <1>3, <1>7

\* A chunk.
Seen(s, f) == [s EXCEPT !.visible = @ \/ Visible(f.text),
                        !.reasons = IF f.finish = "none" THEN @ ELSE Append(@, f.finish)]

LEMMA SeenFacts ==
  ASSUME NEW s \in ChoiceStates, NEW f \in Frames
  PROVE  /\ Seen(s, f) \in ChoiceStates
         /\ Seen(s, f).visible = (s.visible \/ Visible(f.text))
         /\ Seen(s, f).reasons = IF f.finish = "none" THEN s.reasons ELSE Append(s.reasons, f.finish)
         /\ Seen(s, f).tools = s.tools /\ Seen(s, f).valid = s.valid /\ Seen(s, f).calls = s.calls
<1> DEFINE visible == s.visible \/ Visible(f.text)
           reasons == IF f.finish = "none" THEN s.reasons ELSE Append(s.reasons, f.finish)
<1>1. visible \in BOOLEAN
  BY DEF Visible, ChoiceStates
<1>2. f.finish \in Reasons /\ s.reasons \in Seq(Reasons)
  BY DEF Frames, ChoiceStates
<1>3. reasons \in Seq(Reasons)
  BY <1>2
<1>4. Seen(s, f) = [s EXCEPT !.visible = visible, !.reasons = reasons]
  BY DEF Seen
<1> HIDE DEF visible, reasons
<1>5. /\ Seen(s, f) \in ChoiceStates
      /\ Seen(s, f).visible = visible /\ Seen(s, f).reasons = reasons
      /\ Seen(s, f).tools = s.tools /\ Seen(s, f).valid = s.valid /\ Seen(s, f).calls = s.calls
  BY <1>1, <1>3, <1>4 DEF ChoiceStates
<1>6. QED
  BY <1>5 DEF visible, reasons

LEMMA ChunkAlike ==
  ASSUME NEW c \in Nat, NEW s \in ChoiceStates, NEW ids \in IdMaps, NEW g \in Gots, NEW f \in Frames,
         Alike(c, s, ids, g)
  PROVE  LET after == CollectedAll(c, Seen(s, f), ids, f.tools)
         IN /\ after[1] \in ChoiceStates /\ after[2] \in IdMaps
            /\ Joined(g, f) \in Gots
            /\ Alike(c, after[1], after[2], Joined(g, f))
            /\ Grows(ids, after[2])
<1> DEFINE now == Seen(s, f)
           after == CollectedAll(c, now, ids, f.tools)
           joined == Joined(g, f)
<1>1. /\ now \in ChoiceStates
      /\ now.visible = (s.visible \/ Visible(f.text))
      /\ now.reasons = IF f.finish = "none" THEN s.reasons ELSE Append(s.reasons, f.finish)
      /\ now.tools = s.tools /\ now.valid = s.valid /\ now.calls = s.calls
  BY SeenFacts
<1>2. g.calls \in Callings /\ g.text \in Texts /\ g.ends \in Nat
  BY DEF Gots
<1>3. f.text \in Texts /\ f.finish \in Reasons /\ s.reasons \in Seq(Reasons) /\ s.visible \in BOOLEAN
  BY DEF Frames, ChoiceStates
<1>4. Follows(c, s, ids, g.calls) /\ (s.visible <=> Visible(g.text)) /\ g.ends = Len(s.reasons)
  BY DEF Alike
<1>5. joined = [text |-> IF Visible(f.text) THEN f.text ELSE g.text, calls |-> joined.calls,
                ends |-> g.ends + (IF f.finish = "none" THEN 0 ELSE 1)]
  BY DEF Joined
<1> HIDE DEF now, joined
<1>6. Follows(c, now, ids, g.calls)
  BY <1>1, <1>4 DEF Follows
<1>7. /\ after[1] \in ChoiceStates /\ after[2] \in IdMaps
      /\ after[1].visible = now.visible /\ after[1].reasons = now.reasons
      /\ joined.calls \in Callings
      /\ Follows(c, after[1], after[2], joined.calls)
      /\ Grows(ids, after[2])
  BY <1>1, <1>2, <1>6, FragmentsFollow DEF joined
<1> HIDE DEF after
<1>8. joined.text = (IF Visible(f.text) THEN f.text ELSE g.text)
      /\ joined.ends = g.ends + (IF f.finish = "none" THEN 0 ELSE 1)
  BY <1>5
<1>9. joined \in Gots
  <2>1. joined.text \in Texts /\ joined.ends \in Nat
    BY <1>2, <1>3, <1>8
  <2>2. joined = [text |-> joined.text, calls |-> joined.calls, ends |-> joined.ends]
    BY <1>5, <1>8
  <2>3. QED
    BY <2>1, <2>2, <1>7 DEF Gots
<1>10. after[1].visible <=> Visible(joined.text)
  BY <1>1, <1>3, <1>4, <1>7, <1>8
<1>11. joined.ends = Len(after[1].reasons)
  <2>1. f.finish # "none" => Len(Append(s.reasons, f.finish)) = Len(s.reasons) + 1
    BY <1>3
  <2>2. Len(s.reasons) \in Nat
    BY <1>3
  <2>3. after[1].reasons = IF f.finish = "none" THEN s.reasons ELSE Append(s.reasons, f.finish)
    BY <1>1, <1>7
  <2>4. CASE f.finish = "none"
    BY <2>2, <2>3, <2>4, <1>4, <1>8
  <2>5. CASE f.finish # "none"
    BY <2>1, <2>2, <2>3, <2>5, <1>4, <1>8
  <2>6. QED
    BY <2>4, <2>5
<1>12. Alike(c, after[1], after[2], joined)
  BY <1>7, <1>10, <1>11 DEF Alike
<1>13. QED
  BY <1>7, <1>9, <1>12 DEF after, now, joined

-----------------------------------------------------------------------------
\* The frames of a re-emission are frames.
ToldCalls == [id : Ids, args : {<<"whole">>}]
ToldChoices ==
  {x \in [text : {"none", "text", "think", "markup"}, calls : Seq(ToldCalls), finish : Reasons] :
     Len(x.calls) <= MaxSlots}
Told == [choices : Seq(ToldChoices), usage : Usages]

LEMMA ChunkIsFrame ==
  ASSUME NEW c \in Nat, NEW text \in Texts, NEW tools \in Seq(Tells), NEW finish \in Reasons
  PROVE  Chunk(c, text, tools, finish) \in Frames
BY DEF Chunk, Frames, Usages

LEMMA OtherFrames ==
  /\ \A usage \in Usages : UsageFrame(usage) \in Frames
  /\ DoneFrame \in Frames /\ BrokenFrame \in Frames
<1>1. <<>> \in Seq(Tells)
  OBVIOUS
<1>2. \A usage \in Usages : UsageFrame(usage) \in Frames
  BY <1>1 DEF UsageFrame, Frames, Texts, Reasons
<1>3. "absent" \in Usages
  BY DEF Usages
<1>4. UsageFrame("absent") \in Frames
  BY <1>2, <1>3
<1>5. DoneFrame \in Frames /\ BrokenFrame \in Frames
  BY <1>4 DEF DoneFrame, BrokenFrame, Frames
<1>6. QED
  BY <1>2, <1>5

LEMMA ToolFragmentsAreTells ==
  ASSUME NEW calls \in Seq(ToldCalls)
  PROVE  ToolFragments(calls) \in Seq(Tells)
<1>1. ASSUME NEW i \in DOMAIN calls
      PROVE  Fragment(i - 1, calls[i].id, calls[i].args[1]) \in Tells
  <2>1. calls[i] \in ToldCalls /\ i \in Nat /\ i >= 1
    OBVIOUS
  <2>2. i - 1 \in Nat
    BY <2>1
  <2>3. calls[i].id \in Ids /\ calls[i].args = <<"whole">>
    BY <2>1 DEF ToldCalls
  <2>4. calls[i].args[1] \in Pieces
    BY <2>3 DEF Pieces
  <2>5. QED
    BY <2>2, <2>3, <2>4 DEF Fragment, Tells
<1>2. DOMAIN calls = 1 .. Len(calls) /\ Len(calls) \in Nat
  OBVIOUS
<1>3. ToolFragments(calls) \in [1 .. Len(calls) -> Tells]
  BY <1>1, <1>2 DEF ToolFragments
<1>4. QED
  BY <1>2, <1>3

LEMMA ChoiceFramesAreFrames ==
  ASSUME NEW c \in Nat, NEW choice \in ToldChoices
  PROVE  ChoiceFrames(c, choice) \in Seq(Frames)
<1>1. choice.text \in Texts /\ choice.calls \in Seq(ToldCalls) /\ choice.finish \in Reasons
  BY DEF ToldChoices, Texts
<1>2. "none" \in Texts /\ "none" \in Reasons /\ "stop" \in Reasons /\ <<>> \in Seq(Tells)
  BY DEF Texts, Reasons
<1> DEFINE one == Chunk(c, "none", <<>>, "none")
           two == Chunk(c, choice.text, <<>>, "none")
           three == Chunk(c, "none", ToolFragments(choice.calls), "none")
           four == Chunk(c, "none", <<>>, IF choice.finish = "none" THEN "stop" ELSE choice.finish)
<1>3. one \in Frames /\ two \in Frames /\ three \in Frames /\ four \in Frames
  <2>1. one \in Frames
    BY <1>2, ChunkIsFrame
  <2>2. two \in Frames
    BY <1>1, <1>2, ChunkIsFrame
  <2>3. three \in Frames
    BY <1>1, <1>2, ToolFragmentsAreTells, ChunkIsFrame
  <2>4. (IF choice.finish = "none" THEN "stop" ELSE choice.finish) \in Reasons
    BY <1>1, <1>2
  <2>5. four \in Frames
    BY <2>4, <1>2, ChunkIsFrame
  <2>6. QED
    BY <2>1, <2>2, <2>3, <2>5
<1>4. ChoiceFrames(c, choice) =
        <<one>> \o (IF choice.text = "none" THEN <<>> ELSE <<two>>)
                \o (IF choice.calls = <<>> THEN <<>> ELSE <<three>>) \o <<four>>
  BY DEF ChoiceFrames
<1> HIDE DEF one, two, three, four
<1>5. QED
  BY <1>3, <1>4

\* The frames of its choices, and what follows them.
FramesOf(completion) == [n \in DOMAIN completion.choices |-> ChoiceFrames(n - 1, completion.choices[n])]
Ends(completion) ==
  (IF completion.usage = "absent" THEN <<>> ELSE <<UsageFrame(completion.usage)>>) \o <<DoneFrame>>

LEMMA ReemittedFrames ==
  ASSUME NEW completion \in Told
  PROVE  /\ Reemitted(completion) \in Seq(Frames)
         /\ FramesOf(completion) \in Seq(Seq(Frames))
         /\ FlattenSeq(FramesOf(completion)) \in Seq(Frames) /\ Ends(completion) \in Seq(Frames)
         /\ Reemitted(completion) = FlattenSeq(FramesOf(completion)) \o Ends(completion)
<1> DEFINE choices == completion.choices
           pieces == FramesOf(completion)
           usage == IF completion.usage = "absent" THEN <<>> ELSE <<UsageFrame(completion.usage)>>
<1>1. choices \in Seq(ToldChoices) /\ completion.usage \in Usages
  BY DEF Told
<1>2. Len(choices) \in Nat /\ DOMAIN choices = 1 .. Len(choices) /\ \A n \in 1 .. Len(choices) : choices[n] \in ToldChoices
  BY <1>1, LenProperties, ElementOfSeq
<1>3. pieces \in Seq(Seq(Frames))
  <2>1. \A n \in 1 .. Len(choices) : ChoiceFrames(n - 1, choices[n]) \in Seq(Frames)
    <3>1. TAKE n \in 1 .. Len(choices)
    <3>2. n - 1 \in Nat /\ choices[n] \in ToldChoices
      BY <1>2
    <3>3. QED
      BY <3>2, ChoiceFramesAreFrames
  <2> HIDE DEF choices
  <2>2. QED
    BY <1>2, <2>1 DEF FramesOf, choices
<1>4. FlattenSeq(pieces) \in Seq(Frames)
  BY <1>3, FlattenRange
<1>5. usage \in Seq(Frames) /\ <<DoneFrame>> \in Seq(Frames)
  <2>1. UsageFrame(completion.usage) \in Frames /\ DoneFrame \in Frames
    BY <1>1, OtherFrames
  <2>2. QED
    BY <2>1
<1>6. Reemitted(completion) = (FlattenSeq(pieces) \o usage) \o <<DoneFrame>>
  BY DEF Reemitted, FramesOf
<1>7. Ends(completion) = usage \o <<DoneFrame>>
  BY DEF Ends
<1> HIDE DEF pieces, usage
<1>8. (FlattenSeq(pieces) \o usage) \o <<DoneFrame>> = FlattenSeq(pieces) \o (usage \o <<DoneFrame>>)
  BY <1>4, <1>5, ConcatAssociative
<1>9. usage \o <<DoneFrame>> \in Seq(Frames) /\ FlattenSeq(pieces) \o (usage \o <<DoneFrame>>) \in Seq(Frames)
  BY <1>4, <1>5, ConcatProperties
<1>10. QED
  BY <1>3, <1>4, <1>6, <1>7, <1>8, <1>9 DEF pieces

LEMMA SomeCalls ==
  ASSUME NEW n \in Nat, NEW calls \in Calls(n)
  PROVE  calls \in Seq(ToldCalls) /\ Len(calls) = n
<1>1. calls \in [1 .. n -> ToldCalls]
  BY DEF Calls, ToldCalls
<1>2. QED
  BY <1>1

LEMMA ChoosableIsTold ==
  ASSUME NEW n \in 0 .. MaxSlots, NEW choice \in Choosable(n)
  PROVE  choice \in ToldChoices
<1>1. choice.text \in {"none", "text", "think", "markup"} /\ choice.calls \in Calls(n) /\ choice.finish \in Reasons
      /\ choice = [text |-> choice.text, calls |-> choice.calls, finish |-> choice.finish]
  BY DEF Choosable
<1>2. choice.calls \in Seq(ToldCalls) /\ Len(choice.calls) <= MaxSlots
  BY <1>1, SomeCalls
<1>3. QED
  BY <1>1, <1>2 DEF ToldChoices

\* The sanitizer leaves nothing that is not to be seen.
LEMMA SanitizedIsTold ==
  ASSUME NEW choice \in ToldChoices
  PROVE  Sanitized(choice) \in ToldChoices /\ Sanitized(choice).text \in {"none", "text"}
<1>1. Recovered \in ToldCalls
  <2>1. \E i \in Ids : TRUE
    BY ContractAssumption
  <2>2. (CHOOSE i \in Ids : TRUE) \in Ids
    BY <2>1
  <2>3. QED
    BY <2>2 DEF Recovered, ToldCalls
<1>2. <<Recovered>> \in Seq(ToldCalls) /\ Len(<<Recovered>>) <= MaxSlots
  <2>1. 1 <= MaxSlots
    BY ContractAssumption
  <2>2. QED
    BY <1>1, <2>1
<1> DEFINE called == [choice EXCEPT !.text = "none", !.calls = <<Recovered>>]
           silent == [choice EXCEPT !.text = "none"]
<1>3. called \in ToldChoices /\ called.text = "none"
  <2> DEFINE calls == <<Recovered>>
  <2> HIDE DEF calls
  <2>1. calls \in Seq(ToldCalls) /\ Len(calls) <= MaxSlots
    BY <1>2 DEF calls
  <2>2. [choice EXCEPT !.text = "none", !.calls = calls] \in ToldChoices
        /\ [choice EXCEPT !.text = "none", !.calls = calls].text = "none"
    BY <2>1 DEF ToldChoices
  <2>3. QED
    BY <2>2 DEF calls
<1>4. silent \in ToldChoices /\ silent.text = "none"
  BY DEF ToldChoices
<1>5. choice.text \in {"none", "text", "think", "markup"}
  BY DEF ToldChoices
<1> HIDE DEF called, silent
<1>6. Sanitized(choice) = IF choice.text = "markup" /\ choice.calls = <<>> THEN called
                          ELSE IF choice.text \in {"markup", "think"} THEN silent ELSE choice
  BY DEF Sanitized, called, silent
<1>7. QED
  BY <1>3, <1>4, <1>5, <1>6

LEMMA CompletionsAreTold ==
  ASSUME NEW completion \in Completions
  PROVE  completion \in Told
<1> DEFINE one(n) == {<<c>> : c \in Choosable(n)}
           two(n) == {<<c, d>> : c \in Choosable(n), d \in UNION {Choosable(m) : m \in 0 .. MaxSlots - n}}
           lists == UNION {one(n) \cup two(n) : n \in 0 .. MaxSlots}
<1>1. completion \in [choices : lists, usage : Usages]
  BY DEF Completions
<1>2. ASSUME NEW n \in 0 .. MaxSlots, NEW choices \in one(n) \cup two(n)
      PROVE  choices \in Seq(ToldChoices)
  <2>1. n \in 0 .. MaxSlots /\ \A m \in 0 .. MaxSlots - n : m \in 0 .. MaxSlots
    BY ContractAssumption
  <2>2. CASE choices \in one(n)
    <3>1. PICK c \in Choosable(n) : choices = <<c>>
      BY <2>2
    <3>2. c \in ToldChoices
      BY <2>1, ChoosableIsTold
    <3>3. QED
      BY <3>1, <3>2
  <2>3. CASE choices \in two(n)
    <3>1. PICK c \in Choosable(n), d \in UNION {Choosable(m) : m \in 0 .. MaxSlots - n} : choices = <<c, d>>
      BY <2>3
    <3>2. PICK m \in 0 .. MaxSlots - n : d \in Choosable(m)
      BY <3>1
    <3>3. c \in ToldChoices /\ d \in ToldChoices
      BY <2>1, <3>2, ChoosableIsTold
    <3>4. QED
      BY <3>1, <3>3
  <2>4. QED
    BY <1>2, <2>2, <2>3
<1> HIDE DEF one, two
<1>3. lists \subseteq Seq(ToldChoices)
  BY <1>2
<1> HIDE DEF lists
<1>4. QED
  BY <1>1, <1>3 DEF Told

LEMMA CodexCompletionsAreTold ==
  ASSUME NEW completion \in CodexCompletions
  PROVE  completion \in Told
<1>1. PICK text \in {"none", "text"}, calls \in UNION {Calls(n) : n \in 0 .. MaxSlots},
           finish \in {"stop", "length", "tool_calls"} :
        completion = [choices |-> <<[text |-> text, calls |-> calls, finish |-> finish]>>, usage |-> "good"]
  BY DEF CodexCompletions
<1>2. PICK n \in 0 .. MaxSlots : calls \in Calls(n)
  BY <1>1
<1>3. calls \in Seq(ToldCalls) /\ Len(calls) <= MaxSlots
  BY <1>2, SomeCalls
<1>4. [text |-> text, calls |-> calls, finish |-> finish] \in ToldChoices
  BY <1>3 DEF ToldChoices, Reasons
<1> HIDE DEF ToldChoices
<1>5. <<[text |-> text, calls |-> calls, finish |-> finish]>> \in Seq(ToldChoices)
  BY <1>4
<1>6. QED
  BY <1>1, <1>5 DEF Told, Usages

\* Whatever is emitted again has been sanitized.
Clean == {x \in Told : \A c \in DOMAIN x.choices : x.choices[c].text \in {"none", "text"}}

LEMMA CleanedIsClean ==
  ASSUME NEW completion \in Completions
  PROVE  [completion EXCEPT !.choices = [c \in DOMAIN @ |-> Sanitized(@[c])]] \in Clean
<1> DEFINE choices == completion.choices
           clean == [c \in DOMAIN choices |-> Sanitized(choices[c])]
<1>1. completion \in Told
  BY CompletionsAreTold
<1>2. choices \in Seq(ToldChoices)
  BY <1>1 DEF Told
<1>3. clean \in Seq(ToldChoices) /\ \A c \in DOMAIN clean : clean[c].text \in {"none", "text"}
  <2>1. DOMAIN choices = 1 .. Len(choices) /\ Len(choices) \in Nat
        /\ \A c \in DOMAIN choices : choices[c] \in ToldChoices
    BY <1>2
  <2> HIDE DEF choices
  <2>2. clean \in [1 .. Len(choices) -> ToldChoices] /\ \A c \in DOMAIN clean : clean[c].text \in {"none", "text"}
    BY <2>1, SanitizedIsTold
  <2>3. QED
    BY <2>1, <2>2
<1> HIDE DEF clean
<1>4. [completion EXCEPT !.choices = clean] \in Clean
  <2>1. [completion EXCEPT !.choices = clean] \in Told
    BY <1>1, <1>3 DEF Told
  <2>2. [completion EXCEPT !.choices = clean].choices = clean
    BY <1>1 DEF Told
  <2>3. QED
    BY <1>3, <2>1, <2>2 DEF Clean
<1>5. QED
  BY <1>4 DEF clean

LEMMA CodexHasOne ==
  ASSUME NEW completion \in CodexCompletions
  PROVE  completion.choices # <<>>
<1>1. PICK text \in {"none", "text"}, calls \in UNION {Calls(n) : n \in 0 .. MaxSlots},
           finish \in {"stop", "length", "tool_calls"} :
        completion = [choices |-> <<[text |-> text, calls |-> calls, finish |-> finish]>>, usage |-> "good"]
  BY DEF CodexCompletions
<1>2. completion.choices = <<[text |-> text, calls |-> calls, finish |-> finish]>>
  BY <1>1
<1>3. QED
  BY <1>2

LEMMA CodexIsClean ==
  ASSUME NEW completion \in CodexCompletions
  PROVE  completion \in Clean
<1>1. completion \in Told
  BY CodexCompletionsAreTold
<1>2. PICK text \in {"none", "text"}, calls \in UNION {Calls(n) : n \in 0 .. MaxSlots},
           finish \in {"stop", "length", "tool_calls"} :
        completion = [choices |-> <<[text |-> text, calls |-> calls, finish |-> finish]>>, usage |-> "good"]
  BY DEF CodexCompletions
<1> DEFINE one == [text |-> text, calls |-> calls, finish |-> finish]
<1>3. one.text = text
  OBVIOUS
<1> HIDE DEF one
<1>4. completion.choices = <<one>>
  BY <1>2 DEF one
<1>5. \A c \in DOMAIN completion.choices : completion.choices[c] = one
  BY <1>4
<1>6. QED
  BY <1>1, <1>3, <1>5 DEF Clean

LEMMA UpstreamFramesAreFrames == UpstreamFrames \subseteq Frames
<1> DEFINE going == {Chunk(c, t, <<>>, "none") : c \in Slots, t \in {"blank", "text"}}
           stopped == {Chunk(c, t, <<>>, "stop") : c \in Slots, t \in {"none", "text"}}
           called == {Chunk(0, "none", <<f>>, r) : f \in Fragments, r \in {"none", "tool_calls"}}
           first == {Chunk(c, "none", <<f>>, "tool_calls") : c \in Slots, f \in {x \in Fragments : x.slot = 0}}
           ended == {Chunk(0, "none", <<>>, r) : r \in {"tool_calls", "content_filter"}}
           counted == {[Chunk(0, t, <<>>, "stop") EXCEPT !.usage = "good"] : t \in {"none", "text"}}
           others == {UsageFrame("good"), UsageFrame("bad"), BrokenFrame, DoneFrame}
<1>1. \A f \in Fragments : f \in Tells
  BY DEF Fragments, Fragment, Tells, Slots, Pieces
<1>2. <<>> \in Seq(Tells) /\ \A f \in Fragments : <<f>> \in Seq(Tells)
  BY <1>1
<1>3. /\ 0 \in Nat /\ \A c \in Slots : c \in Nat
      /\ "stop" \in Reasons /\ "none" \in Reasons /\ "tool_calls" \in Reasons /\ "content_filter" \in Reasons
      /\ "none" \in Texts /\ "text" \in Texts /\ "blank" \in Texts /\ "good" \in Usages /\ "bad" \in Usages
  BY DEF Slots, Reasons, Texts, Usages
<1>4. /\ \A c \in Slots, t \in {"blank", "text"} : Chunk(c, t, <<>>, "none") \in Frames
      /\ \A c \in Slots, t \in {"none", "text"} : Chunk(c, t, <<>>, "stop") \in Frames
  <2>1. \A c \in Slots, t \in {"blank", "text"} : Chunk(c, t, <<>>, "none") \in Frames
    <3>1. SUFFICES ASSUME NEW c \in Slots, NEW t \in {"blank", "text"}
                   PROVE  Chunk(c, t, <<>>, "none") \in Frames
      OBVIOUS
    <3>2. c \in Nat /\ t \in Texts
      BY <1>3
    <3>3. QED
      BY <1>2, <1>3, <3>2, ChunkIsFrame
  <2>2. \A c \in Slots, t \in {"none", "text"} : Chunk(c, t, <<>>, "stop") \in Frames
    <3>1. SUFFICES ASSUME NEW c \in Slots, NEW t \in {"none", "text"}
                   PROVE  Chunk(c, t, <<>>, "stop") \in Frames
      OBVIOUS
    <3>2. c \in Nat /\ t \in Texts
      BY <1>3
    <3>3. QED
      BY <1>2, <1>3, <3>2, ChunkIsFrame
  <2>3. QED
    BY <2>1, <2>2
<1>5. \A c \in Nat, f \in Fragments, r \in Reasons : Chunk(c, "none", <<f>>, r) \in Frames
  <2>1. SUFFICES ASSUME NEW c \in Nat, NEW f \in Fragments, NEW r \in Reasons
                 PROVE  Chunk(c, "none", <<f>>, r) \in Frames
    OBVIOUS
  <2>2. <<f>> \in Seq(Tells)
    BY <1>2
  <2>3. QED
    BY <1>3, <2>2, ChunkIsFrame
<1>6. called \subseteq Frames
  <2> HIDE DEF called
  <2>1. SUFFICES ASSUME NEW x \in called
                 PROVE  x \in Frames
    OBVIOUS
  <2>2. PICK f \in Fragments, r \in {"none", "tool_calls"} : x = Chunk(0, "none", <<f>>, r)
    BY DEF called
  <2>3. QED
    BY <1>3, <1>5, <2>2
<1> DEFINE firsts == {x \in Fragments : x.slot = 0}
<1>6a. first \subseteq Frames
  <2>1. firsts \subseteq Fragments
    OBVIOUS
  <2> HIDE DEF first
  <2>2. SUFFICES ASSUME NEW x \in first
                 PROVE  x \in Frames
    OBVIOUS
  <2>3. PICK c \in Slots, f \in firsts : x = Chunk(c, "none", <<f>>, "tool_calls")
    BY DEF first
  <2> HIDE DEF firsts
  <2>4. QED
    BY <1>3, <1>5, <2>1, <2>3
<1>7. ended \subseteq Frames
  <2>1. \A r \in Reasons : Chunk(0, "none", <<>>, r) \in Frames
    BY <1>2, <1>3, ChunkIsFrame
  <2>2. QED
    BY <1>3, <2>1
<1>8. counted \subseteq Frames
  <2>1. \A t \in {"none", "text"} : Chunk(0, t, <<>>, "stop") \in Frames
    <3>1. \A t \in Texts : Chunk(0, t, <<>>, "stop") \in Frames
      BY <1>2, <1>3, ChunkIsFrame
    <3>2. QED
      BY <1>3, <3>1
  <2>2. \A f \in Frames : [f EXCEPT !.usage = "good"] \in Frames
    BY <1>3 DEF Frames
  <2>3. QED
    BY <2>1, <2>2
<1>9. others \subseteq Frames
  BY <1>3, OtherFrames
<1>10. going \subseteq Frames /\ stopped \subseteq Frames
  BY <1>4
<1>11. UpstreamFrames = going \cup stopped \cup called \cup first \cup ended \cup counted \cup others
  BY DEF UpstreamFrames
<1> HIDE DEF going, stopped, called, first, ended, counted, others
<1>12. QED
  BY <1>6, <1>6a, <1>7, <1>8, <1>9, <1>10, <1>11

-----------------------------------------------------------------------------
StreamInv ==
  /\ feed \in Seq(Frames)
  /\ states \in Tables(Nat, ChoiceStates) /\ toolIds \in IdMaps /\ got \in Tables(Nat, Gots)
  /\ DOMAIN got = DOMAIN states
  /\ \A c \in DOMAIN states : Alike(c, states[c], toolIds, got[c])
  /\ StreamIsComplete

LEMMA StreamInvInit == ContractInit => StreamInv
<1>1. SUFFICES ASSUME ContractInit
               PROVE  StreamInv
  OBVIOUS
<1>2. feed \in Seq(Frames)
  <2>1. CASE feed = <<>>
    BY <2>1
  <2>2. CASE \E completion \in CodexCompletions : feed = Reemitted(completion)
    BY <2>2, CodexCompletionsAreTold, ReemittedFrames
  <2>3. CASE \E completion \in Completions :
               feed = Reemitted([completion EXCEPT !.choices = [c \in DOMAIN @ |-> Sanitized(@[c])]])
    <3>1. PICK completion \in Completions :
            feed = Reemitted([completion EXCEPT !.choices = [c \in DOMAIN @ |-> Sanitized(@[c])]])
      BY <2>3
    <3> DEFINE clean == [completion EXCEPT !.choices = [c \in DOMAIN @ |-> Sanitized(@[c])]]
    <3>2. clean \in Told
      BY CleanedIsClean DEF Clean
    <3> HIDE DEF clean
    <3>3. QED
      BY <3>1, <3>2, ReemittedFrames DEF clean
  <2>4. QED
    BY <1>1, <2>1, <2>2, <2>3, Zenon DEF ContractInit
<1>3. states = <<>> /\ toolIds = <<>> /\ got = <<>> /\ verdict = "open"
  BY <1>1 DEF ContractInit
<1>4. \A K, V : <<>> \in Tables(K, V)
  <2>1. SUFFICES ASSUME NEW K, NEW V
                 PROVE  <<>> \in Tables(K, V)
    OBVIOUS
  <2>2. <<>> \in [{} -> V] /\ {} \in SUBSET K
    OBVIOUS
  <2>3. QED
    BY <2>2 DEF Tables
<1>5. states \in Tables(Nat, ChoiceStates) /\ toolIds \in IdMaps /\ got \in Tables(Nat, Gots)
  BY <1>3, <1>4 DEF IdMaps
<1>6. DOMAIN got = DOMAIN states /\ \A c \in DOMAIN states : Alike(c, states[c], toolIds, got[c])
  BY <1>3
<1>7. StreamIsComplete
  BY <1>3 DEF StreamIsComplete
<1>8. QED
  BY <1>2, <1>5, <1>6, <1>7 DEF StreamInv

StateTables == Tables(Nat, ChoiceStates)
GotTables == Tables(Nat, Gots)

LEMMA StatesWith ==
  ASSUME NEW f \in StateTables, NEW k \in Nat, NEW s \in ChoiceStates
  PROVE  With(f, k, s) \in StateTables
BY WithIsTable DEF StateTables

LEMMA GotsWith ==
  ASSUME NEW f \in GotTables, NEW k \in Nat, NEW g \in Gots
  PROVE  With(f, k, g) \in GotTables
BY WithIsTable DEF GotTables

NewGot == [text |-> "none", calls |-> <<>>, ends |-> 0]

LEMMA NewOnes ==
  ASSUME NEW c, NEW ids
  PROVE  /\ NewState \in ChoiceStates /\ NewGot \in Gots
         /\ Alike(c, NewState, ids, NewGot)
<1>1. <<>> \in Callings
  <2>1. <<>> \in [{} -> Called] /\ {} \in SUBSET Nat
    OBVIOUS
  <2>2. QED
    BY <2>1 DEF Callings, Tables
<1>2. <<>> \in Seq(Reasons) /\ DOMAIN <<>> = {}
  OBVIOUS
<1>3. NewState \in ChoiceStates /\ NewGot \in Gots
  BY <1>1, <1>2 DEF NewState, NewGot, ChoiceStates, Gots, Texts
<1>4. Follows(c, NewState, ids, NewGot.calls)
  BY <1>2 DEF NewState, NewGot, Follows
<1>5. QED
  BY <1>3, <1>4 DEF Alike, Visible, NewState, NewGot

\* The line of one frame.
LEMMA TakeKeeps ==
  ASSUME StreamInv, NEW f \in Frames, Take(f), verdict = "open"
  PROVE  /\ states' \in Tables(Nat, ChoiceStates) /\ toolIds' \in IdMaps /\ got' \in Tables(Nat, Gots)
         /\ DOMAIN got' = DOMAIN states'
         /\ \A c \in DOMAIN states' : Alike(c, states'[c], toolIds', got'[c])
         /\ StreamIsComplete'
<1>1. StreamIsComplete'
  BY DEF Take, StreamIsComplete
<1>2. CASE f.kind # "chunk"
  <2>1. UNCHANGED <<states, toolIds, got>>
    BY <1>2 DEF Take
  <2>2. QED
    BY <1>1, <2>1 DEF StreamInv
<1>3. CASE f.kind = "chunk"
  <2> DEFINE c == f.choice
             s == Held(states, c, NewState)
             g == Held(got, c, NewGot)
             after == CollectedAll(c, Seen(s, f), toolIds, f.tools)
  <2>1. /\ states' = With(states, c, after[1])
        /\ toolIds' = after[2]
        /\ got' = With(got, c, Joined(g, f))
    BY <1>3 DEF Take, Seen, NewGot
  <2>2. c \in Nat
    BY DEF Frames
  <2>3. s \in ChoiceStates /\ g \in Gots
    BY NewOnes, HeldFacts DEF StreamInv
  <2>4. Alike(c, s, toolIds, g)
    BY NewOnes DEF Held, StreamInv
  <2>5. toolIds \in IdMaps /\ states \in Tables(Nat, ChoiceStates) /\ got \in Tables(Nat, Gots)
        /\ DOMAIN got = DOMAIN states
        /\ \A x \in DOMAIN states : Alike(x, states[x], toolIds, got[x])
    BY DEF StreamInv
  <2> DEFINE joined == Joined(g, f)
  <2>6. /\ after[1] \in ChoiceStates /\ after[2] \in IdMaps
        /\ joined \in Gots
        /\ Alike(c, after[1], after[2], joined)
        /\ Grows(toolIds, after[2])
    BY <2>2, <2>3, <2>4, <2>5, ChunkAlike
  <2> HIDE DEF c, s, g, after, joined
  <2>7a. states \in StateTables /\ got \in GotTables
    BY <2>5 DEF StateTables, GotTables
  <2>7. /\ With(states, c, after[1]) \in StateTables
        /\ DOMAIN With(states, c, after[1]) = DOMAIN states \cup {c}
        /\ With(states, c, after[1])[c] = after[1]
        /\ \A x \in DOMAIN states : x # c => With(states, c, after[1])[x] = states[x]
    <3>1. With(states, c, after[1]) \in StateTables
      BY <2>7a, <2>2, <2>6, StatesWith
    <3>2. QED
      BY <3>1 DEF With
  <2>8. /\ With(got, c, joined) \in GotTables
        /\ DOMAIN With(got, c, joined) = DOMAIN got \cup {c}
        /\ With(got, c, joined)[c] = joined
        /\ \A x \in DOMAIN got : x # c => With(got, c, joined)[x] = got[x]
    <3>1. With(got, c, joined) \in GotTables
      BY <2>7a, <2>2, <2>6, GotsWith
    <3>2. QED
      BY <3>1 DEF With
  <2>9. got' = With(got, c, joined)
    BY <2>1 DEF joined
  <2>10. ASSUME NEW x \in DOMAIN states'
         PROVE  Alike(x, states'[x], toolIds', got'[x])
    <3>1. CASE x = c
      BY <3>1, <2>1, <2>6, <2>7, <2>8, <2>9
    <3>2. CASE x # c
      <4>1. x \in DOMAIN states /\ states'[x] = states[x] /\ got'[x] = got[x]
        BY <3>2, <2>1, <2>5, <2>7, <2>8, <2>9
      <4>2. Alike(x, states[x], toolIds, got[x])
        BY <4>1, <2>5
      <4>3. Alike(x, states[x], after[2], got[x])
        BY <4>2, <2>6, AlikeGrown
      <4>4. QED
        BY <4>1, <4>3, <2>1
    <3>3. QED
      BY <3>1, <3>2
  <2>11. QED
    BY <1>1, <2>1, <2>5, <2>6, <2>7, <2>8, <2>9, <2>10 DEF StateTables, GotTables
<1>4. QED
  BY <1>2, <1>3

LEMMA JudgeKeeps == StreamInv /\ Judge => StreamInv'
<1>1. SUFFICES ASSUME StreamInv, Judge
               PROVE  StreamInv'
  OBVIOUS
<1>2. UNCHANGED <<feed, states, toolIds, got>>
  BY <1>1 DEF Judge
<1>3. StreamIsComplete'
  <2>1. SUFFICES ASSUME verdict' = "accepted"
                 PROVE  /\ got # <<>>
                        /\ \A c \in DOMAIN got :
                             LET calls == got[c].calls IN
                             /\ got[c].ends = 1
                             /\ \A j, k \in DOMAIN calls : calls[j].id = calls[k].id => j = k
                             /\ \A k \in DOMAIN calls : calls[k].id # NoId /\ IsObject(calls[k].args)
                             /\ Visible(got[c].text) \/ DOMAIN calls # {}
    BY <1>2 DEF StreamIsComplete
  <2>2. /\ DOMAIN states # {}
        /\ \A c \in DOMAIN states :
             LET s == states[c] IN
             /\ ~ (/\ s.tools \/ \E i \in DOMAIN s.reasons : s.reasons[i] = "tool_calls"
                   /\ ~s.valid \/ ~Completed(s.calls) \/ s.reasons # <<"tool_calls">>)
             /\ s.visible \/ Completed(s.calls)
             /\ s.visible /\ ~s.tools => ValidCompletion(s)
    <3>1. verdict' # "rejected"
      BY <2>1
    <3>2. QED
      BY <1>1, <3>1, Zenon DEF Judge
  <2>3. DOMAIN got = DOMAIN states
    BY <1>1 DEF StreamInv
  <2>4. got # <<>>
    BY <2>2, <2>3
  <2>5. ASSUME NEW c \in DOMAIN got
        PROVE  LET calls == got[c].calls IN
               /\ got[c].ends = 1
               /\ \A j, k \in DOMAIN calls : calls[j].id = calls[k].id => j = k
               /\ \A k \in DOMAIN calls : calls[k].id # NoId /\ IsObject(calls[k].args)
               /\ Visible(got[c].text) \/ DOMAIN calls # {}
    <3> DEFINE s == states[c]
               calls == got[c].calls
    <3>1. /\ ~ (/\ s.tools \/ \E i \in DOMAIN s.reasons : s.reasons[i] = "tool_calls"
                /\ ~s.valid \/ ~Completed(s.calls) \/ s.reasons # <<"tool_calls">>)
          /\ s.visible \/ Completed(s.calls)
          /\ s.visible /\ ~s.tools => ValidCompletion(s)
      BY <2>2, <2>3
    <3>2. /\ Follows(c, s, toolIds, calls)
          /\ s.visible <=> Visible(got[c].text)
          /\ got[c].ends = Len(s.reasons)
      BY <1>1, <2>3 DEF StreamInv, Alike
    <3>3. /\ s.tools <=> DOMAIN s.calls # {}
          /\ DOMAIN calls = DOMAIN s.calls
          /\ s.valid =>
               \A k \in DOMAIN s.calls :
                 /\ calls[k] = s.calls[k]
                 /\ s.calls[k].id # NoId => s.calls[k].id \in DOMAIN toolIds /\ toolIds[s.calls[k].id] = <<c, k>>
      BY <3>2 DEF Follows
    <3> HIDE DEF s, calls
    <3>4. CASE s.tools
      <4>1. s.valid /\ Completed(s.calls) /\ s.reasons = <<"tool_calls">>
        BY <3>1, <3>4
      <4>2. \A k \in DOMAIN calls :
              /\ calls[k] = s.calls[k] /\ s.calls[k].id # NoId /\ IsObject(s.calls[k].args)
              /\ toolIds[s.calls[k].id] = <<c, k>>
        BY <4>1, <3>3 DEF Completed
      <4>3. \A j, k \in DOMAIN calls : calls[j].id = calls[k].id => j = k
        <5>1. SUFFICES ASSUME NEW j \in DOMAIN calls, NEW k \in DOMAIN calls, calls[j].id = calls[k].id
                       PROVE  j = k
          OBVIOUS
        <5>2. toolIds[calls[j].id] = <<c, j>> /\ toolIds[calls[k].id] = <<c, k>>
          BY <4>2
        <5>3. QED
          BY <5>1, <5>2
      <4>4. got[c].ends = 1
        BY <4>1, <3>2
      <4>5. DOMAIN calls # {}
        BY <3>3, <3>4
      <4>6. QED
        BY <4>2, <4>3, <4>4, <4>5 DEF calls
    <3>5. CASE ~ s.tools
      <4>1. DOMAIN calls = {} /\ ~ Completed(s.calls)
        BY <3>3, <3>5 DEF Completed
      <4>2. s.visible /\ ValidCompletion(s)
        BY <4>1, <3>1, <3>5
      <4>3. got[c].ends = 1 /\ Visible(got[c].text)
        BY <4>2, <3>2 DEF ValidCompletion
      <4>4. QED
        BY <4>1, <4>3 DEF calls
    <3>6. QED
      BY <3>4, <3>5
  <2>6. QED
    BY <2>4, <2>5
<1>4. QED
  BY <1>1, <1>2, <1>3 DEF StreamInv

LEMMA StreamInvStays == StreamInv /\ [ContractNext]_contractVars => StreamInv'
<1>1. SUFFICES ASSUME StreamInv, [ContractNext]_contractVars
               PROVE  StreamInv'
  OBVIOUS
<1>2. CASE \E f \in UpstreamFrames : TakeUpstream(f)
  <2>1. PICK f \in UpstreamFrames : TakeUpstream(f)
    BY <1>2
  <2>2. f \in Frames /\ Take(f) /\ verdict = "open" /\ feed' = feed
    BY <2>1, UpstreamFramesAreFrames DEF TakeUpstream
  <2>3. feed' \in Seq(Frames)
    BY <1>1, <2>2 DEF StreamInv
  <2>4. QED
    BY <1>1, <2>2, <2>3, TakeKeeps DEF StreamInv
<1>3. CASE TakeReemitted
  <2>1. feed # <<>> /\ feed \in Seq(Frames) /\ feed' = Tail(feed) /\ Take(Head(feed)) /\ verdict = "open"
    BY <1>1, <1>3 DEF TakeReemitted, StreamInv
  <2>2. Head(feed) \in Frames /\ feed' \in Seq(Frames)
    BY <2>1
  <2>3. QED
    BY <1>1, <2>1, <2>2, TakeKeeps DEF StreamInv
<1>4. CASE Judge
  BY <1>1, <1>4, JudgeKeeps
<1>5. CASE UNCHANGED contractVars
  BY <1>1, <1>5 DEF contractVars, StreamInv, StreamIsComplete
<1>6. QED
  BY <1>1, <1>2, <1>3, <1>4, <1>5 DEF ContractNext

\* Whatever frames an upstream sends, and whatever a completion is emitted again as, a
\* stream that the contract accepts leaves its client with whole calls only: each with an
\* id of its own and all its pieces.  enforceResponseContract() and the accumulators of
\* src/src/proxy/response-contract.mjs.
THEOREM AcceptedStreamsAreComplete == ContractSpec => []StreamIsComplete
<1>1. StreamInv => StreamIsComplete
  BY DEF StreamInv
<1>2. QED
  BY <1>1, StreamInvInit, StreamInvStays, PTL DEF ContractSpec

-----------------------------------------------------------------------------
(* A completion that is emitted again.  Frame by frame, the stream check   *)
(* knows of its choices what they are, as far as they have been told.      *)

EndOf(choice) == IF choice.finish = "none" THEN "stop" ELSE choice.finish

\* The first m calls of a choice, by slot.
Numbered(calls, m) == [k \in 0 .. m - 1 |-> calls[k + 1]]

LEMMA NumberedFacts ==
  ASSUME NEW calls \in Seq(ToldCalls)
  PROVE  /\ Numbered(calls, 0) = <<>>
         /\ \A m \in 0 .. Len(calls) - 1 :
              /\ Held(Numbered(calls, m), m, NewCall) = NewCall
              /\ With(Numbered(calls, m), m, calls[m + 1]) = Numbered(calls, m + 1)
<1>1. Len(calls) \in Nat
  BY LenProperties
<1>2. Numbered(calls, 0) = <<>>
  <2>1. 0 .. 0 - 1 = {}
    OBVIOUS
  <2>2. [k \in {} |-> calls[k + 1]] = <<>>
    OBVIOUS
  <2>3. QED
    BY <2>1, <2>2 DEF Numbered
<1>3. ASSUME NEW m \in 0 .. Len(calls) - 1
      PROVE  /\ Held(Numbered(calls, m), m, NewCall) = NewCall
             /\ With(Numbered(calls, m), m, calls[m + 1]) = Numbered(calls, m + 1)
  <2>1. m \in Nat /\ m \notin 0 .. m - 1 /\ 0 .. (m + 1) - 1 = (0 .. m - 1) \cup {m}
    BY <1>1
  <2>2. DOMAIN Numbered(calls, m) = 0 .. m - 1
    BY DEF Numbered
  <2>3. Held(Numbered(calls, m), m, NewCall) = NewCall
    BY <2>1, <2>2 DEF Held
  <2>4. With(Numbered(calls, m), m, calls[m + 1])
          = [x \in (0 .. m - 1) \cup {m} |-> IF x = m THEN calls[m + 1] ELSE Numbered(calls, m)[x]]
    BY <2>2 DEF With
  <2>5. \A x \in 0 .. m - 1 : x # m /\ Numbered(calls, m)[x] = calls[x + 1]
    BY <2>1 DEF Numbered
  <2>6. Numbered(calls, m + 1) = [x \in (0 .. m - 1) \cup {m} |-> calls[x + 1]]
    BY <2>1 DEF Numbered
  <2>7. QED
    BY <2>3, <2>4, <2>5, <2>6
<1>4. QED
  BY <1>2, <1>3

\* Ids that are known are those of calls that were told.
IsCall(completion, owner, id) ==
  /\ owner[1] + 1 \in DOMAIN completion.choices
  /\ owner[2] + 1 \in DOMAIN completion.choices[owner[1] + 1].calls
  /\ completion.choices[owner[1] + 1].calls[owner[2] + 1].id = id
Mine(completion, ids) == \A i \in DOMAIN ids : IsCall(completion, ids[i], i)

LEMMA ChoiceFacts ==
  ASSUME NEW completion \in Clean
  PROVE  /\ Len(completion.choices) \in Nat /\ DOMAIN completion.choices = 1 .. Len(completion.choices)
         /\ completion.usage \in Usages
         /\ \A c \in 1 .. Len(completion.choices) :
              LET choice == completion.choices[c]
              IN /\ choice \in ToldChoices /\ choice.text \in {"none", "text"} /\ choice.finish \in Reasons
                 /\ choice.calls \in Seq(ToldCalls) /\ Len(choice.calls) \in 0 .. MaxSlots
                 /\ DOMAIN choice.calls = 1 .. Len(choice.calls)
                 /\ \A k \in 1 .. Len(choice.calls) :
                      /\ choice.calls[k].id \in Ids /\ choice.calls[k].id # NoId
                      /\ choice.calls[k] = [id |-> choice.calls[k].id, args |-> <<"whole">>]
<1>1. completion.choices \in Seq(ToldChoices) /\ completion.usage \in Usages
  BY DEF Clean, Told
<1>2. /\ Len(completion.choices) \in Nat /\ DOMAIN completion.choices = 1 .. Len(completion.choices)
      /\ \A c \in 1 .. Len(completion.choices) : completion.choices[c] \in ToldChoices
  BY <1>1, LenProperties, ElementOfSeq
<1>3. \A c \in 1 .. Len(completion.choices) : completion.choices[c].text \in {"none", "text"}
  BY <1>2 DEF Clean
<1>4. ASSUME NEW choice \in ToldChoices
      PROVE  /\ choice.calls \in Seq(ToldCalls) /\ Len(choice.calls) \in 0 .. MaxSlots /\ choice.finish \in Reasons
             /\ DOMAIN choice.calls = 1 .. Len(choice.calls)
             /\ \A k \in 1 .. Len(choice.calls) :
                  /\ choice.calls[k].id \in Ids /\ choice.calls[k].id # NoId
                  /\ choice.calls[k] = [id |-> choice.calls[k].id, args |-> <<"whole">>]
  <2>1. choice.calls \in Seq(ToldCalls) /\ Len(choice.calls) <= MaxSlots /\ choice.finish \in Reasons
    BY DEF ToldChoices
  <2>2. Len(choice.calls) \in Nat /\ DOMAIN choice.calls = 1 .. Len(choice.calls)
        /\ \A k \in 1 .. Len(choice.calls) : choice.calls[k] \in ToldCalls
    BY <2>1, LenProperties, ElementOfSeq
  <2>3. MaxSlots \in Nat /\ NoId \notin Ids
    BY ContractAssumption
  <2>4. \A x \in ToldCalls : x.id \in Ids /\ x = [id |-> x.id, args |-> <<"whole">>]
    BY DEF ToldCalls
  <2>5. QED
    BY <2>1, <2>2, <2>3, <2>4
<1>5. QED
  BY <1>1, <1>2, <1>3, <1>4

\* One more call is told, with an id of its own.
LEMMA CallIsNew ==
  ASSUME NEW completion \in Clean, Regular(completion), NEW n \in 0 .. Len(completion.choices) - 1,
         NEW m \in 0 .. Len(completion.choices[n + 1].calls) - 1,
         NEW now \in ChoiceStates, NEW ids \in IdMaps, Mine(completion, ids),
         now.valid, now.calls = Numbered(completion.choices[n + 1].calls, m)
  PROVE  LET call == completion.choices[n + 1].calls[m + 1]
             t == Fragment(m, call.id, call.args[1])
             after == Collected(n, now, ids, t)
         IN /\ after[1] \in ChoiceStates /\ after[2] \in IdMaps
            /\ after[1].visible = now.visible /\ after[1].reasons = now.reasons
            /\ after[1].tools /\ after[1].valid
            /\ after[1].calls = Numbered(completion.choices[n + 1].calls, m + 1)
            /\ Mine(completion, after[2])
<1> DEFINE choice == completion.choices[n + 1]
           call == choice.calls[m + 1]
           t == Fragment(m, call.id, call.args[1])
           owner == <<n, m>>
<1>1. /\ n \in Nat /\ n + 1 \in 1 .. Len(completion.choices) /\ DOMAIN completion.choices = 1 .. Len(completion.choices)
  BY ChoiceFacts
<1>2. /\ choice.calls \in Seq(ToldCalls) /\ Len(choice.calls) \in 0 .. MaxSlots
      /\ DOMAIN choice.calls = 1 .. Len(choice.calls)
      /\ \A k \in 1 .. Len(choice.calls) :
           /\ choice.calls[k].id \in Ids /\ choice.calls[k].id # NoId
           /\ choice.calls[k] = [id |-> choice.calls[k].id, args |-> <<"whole">>]
  BY <1>1, ChoiceFacts
<1>3. m \in Nat /\ m + 1 \in 1 .. Len(choice.calls) /\ m + 1 \in 1 .. MaxSlots
  BY <1>2, ContractAssumption
<1>4. call.id \in Ids /\ call.id # NoId /\ call = [id |-> call.id, args |-> <<"whole">>] /\ call.args[1] = "whole"
  BY <1>2, <1>3
<1> HIDE DEF choice
<1>5. t.slot = m /\ t.id = call.id /\ t.piece = "whole" /\ t \in Tells
  BY <1>3, <1>4 DEF Fragment, Tells, Pieces
<1> HIDE DEF call, t
<1>6. CollectedWell(n, now, ids, t)
  BY <1>1, <1>5, CollectedFacts
<1>7. CallOf(now, t) = NewCall
  BY <1>2, <1>3, <1>5, NumberedFacts DEF CallOf, choice
<1>8. call.id \in DOMAIN ids => ids[call.id] = owner
  <2>1. SUFFICES ASSUME call.id \in DOMAIN ids
                 PROVE  ids[call.id] = owner
    OBVIOUS
  <2> DEFINE other == ids[call.id]
             x == <<other[1] + 1, other[2] + 1>>
             y == <<n + 1, m + 1>>
             slots == {z \in (DOMAIN completion.choices) \X (1 .. MaxSlots) : z[2] \in DOMAIN completion.choices[z[1]].calls}
  <2>2. other \in Nat \X Nat
    BY <2>1 DEF IdMaps, Tables
  <2>3. IsCall(completion, other, call.id)
    BY <2>1 DEF Mine
  <2> HIDE DEF other
  <2>4. /\ other[1] + 1 \in DOMAIN completion.choices
        /\ other[2] + 1 \in DOMAIN completion.choices[other[1] + 1].calls
        /\ completion.choices[other[1] + 1].calls[other[2] + 1].id = call.id
    BY <2>3 DEF IsCall
  <2>5. other[2] + 1 \in 1 .. MaxSlots
    <3>1. other[1] + 1 \in 1 .. Len(completion.choices)
      BY <1>1, <2>4
    <3>2. Len(completion.choices[other[1] + 1].calls) \in 0 .. MaxSlots
          /\ DOMAIN completion.choices[other[1] + 1].calls = 1 .. Len(completion.choices[other[1] + 1].calls)
      BY <3>1, ChoiceFacts
    <3>3. QED
      BY <2>2, <2>4, <3>2, ContractAssumption
  <2>6. x \in slots
    BY <2>4, <2>5
  <2>7. y \in slots
    BY <1>1, <1>2, <1>3 DEF choice
  <2>8. \A u, v \in slots : completion.choices[u[1]].calls[u[2]].id = completion.choices[v[1]].calls[v[2]].id => u = v
    BY DEF Regular
  <2>9. completion.choices[x[1]].calls[x[2]].id = completion.choices[y[1]].calls[y[2]].id
    BY <2>4 DEF call, choice
  <2> HIDE DEF slots
  <2>10. x = y
    BY <2>6, <2>7, <2>8, <2>9
  <2>11. other[1] = n /\ other[2] = m
    BY <1>1, <1>3, <2>2, <2>10
  <2>12. QED
    BY <2>2, <2>11 DEF other
<1>9. ~ Bad(n, now, ids, t)
  <2>1. NewCall.id = NoId
    BY NewCallIsCalled
  <2>2. Held(ids, call.id, owner) = owner
    BY <1>8 DEF Held
  <2>3. QED
    BY <1>5, <1>7, <2>1, <2>2 DEF Bad, IdTaken
<1>10. Kept(n, now, ids, t) = With(ids, call.id, owner)
  BY <1>4, <1>5, <1>9 DEF Kept
<1>11. More(n, now, ids, t) = call
  <2>1. IdAfter(n, now, ids, t) = call.id
    BY <1>4, <1>5, <1>9 DEF IdAfter
  <2>2. Append(NewCall.args, "whole") = <<"whole">>
    BY DEF NewCall
  <2>3. QED
    BY <1>4, <1>5, <1>7, <2>1, <2>2 DEF More
<1>12. Collected(n, now, ids, t) = <<Now(n, now, ids, t), Kept(n, now, ids, t)>>
  BY <1>5, CollectedIs
<1>13. Now(n, now, ids, t).calls = With(now.calls, m, call)
  BY <1>5, <1>11 DEF Now, ChoiceStates
<1>14. With(now.calls, m, call) = Numbered(choice.calls, m + 1)
  BY <1>2, <1>3, NumberedFacts DEF call, choice
<1>15. Mine(completion, With(ids, call.id, owner))
  <2>1. IsCall(completion, owner, call.id)
    BY <1>1, <1>2, <1>3 DEF IsCall, call, choice
  <2>2. \A i \in DOMAIN With(ids, call.id, owner) :
          \/ i = call.id /\ With(ids, call.id, owner)[i] = owner
          \/ i \in DOMAIN ids /\ With(ids, call.id, owner)[i] = ids[i]
    BY DEF With
  <2>3. QED
    BY <2>1, <2>2 DEF Mine
<1> DEFINE after == Collected(n, now, ids, t)
<1>16. after[1] = Now(n, now, ids, t) /\ after[2] = Kept(n, now, ids, t)
  BY <1>12
<1>17. after[1] \in ChoiceStates /\ after[2] \in IdMaps
  BY <1>6 DEF CollectedWell
<1>18. after[1].visible = now.visible /\ after[1].reasons = now.reasons /\ after[1].tools
  BY <1>6 DEF CollectedWell
<1>19. after[1].valid
  <2>1. after[1].valid = (now.valid /\ ~ Bad(n, now, ids, t))
    BY <1>6 DEF CollectedWell
  <2>2. QED
    BY <1>9, <2>1, Zenon
<1>20. after[1].calls = Numbered(choice.calls, m + 1)
  BY <1>13, <1>14, <1>16
<1>21. Mine(completion, after[2])
  BY <1>10, <1>15, <1>16
<1> HIDE DEF after
<1>22. QED
  BY <1>17, <1>18, <1>19, <1>20, <1>21 DEF after, t, call, choice

\* All the calls of a choice are told at once.
LEMMA CallsAreNew ==
  ASSUME NEW completion \in Clean, Regular(completion), NEW n \in 0 .. Len(completion.choices) - 1,
         NEW now \in ChoiceStates, NEW ids \in IdMaps, Mine(completion, ids), now.valid, now.calls = <<>>
  PROVE  LET choice == completion.choices[n + 1]
             after == CollectedAll(n, now, ids, ToolFragments(choice.calls))
         IN /\ after[1].visible = now.visible /\ after[1].reasons = now.reasons
            /\ choice.calls # <<>> => after[1].tools
            /\ after[1].valid
            /\ after[1].calls = Numbered(choice.calls, Len(choice.calls))
            /\ Mine(completion, after[2])
<1> DEFINE choice == completion.choices[n + 1]
           calls == choice.calls
           fragments == ToolFragments(calls)
           last == Len(calls)
<1>1. n \in Nat /\ n + 1 \in 1 .. Len(completion.choices)
  BY ChoiceFacts
<1>2. calls \in Seq(ToldCalls) /\ last \in Nat /\ DOMAIN calls = 1 .. last
  <2>1. calls \in Seq(ToldCalls)
    BY <1>1, ChoiceFacts
  <2> HIDE DEF choice, calls
  <2>2. QED
    BY <2>1, LenProperties
<1>3. fragments \in Seq(Tells)
  BY <1>2, ToolFragmentsAreTells
<1>4. Len(fragments) = last /\ \A k \in 1 .. last : fragments[k] = Fragment(k - 1, calls[k].id, calls[k].args[1])
  <2> HIDE DEF choice, calls, last
  <2>1. fragments = [k \in 1 .. last |-> Fragment(k - 1, calls[k].id, calls[k].args[1])]
    BY <1>2 DEF ToolFragments
  <2> HIDE DEF fragments
  <2>2. QED
    BY <1>2, <1>3, <2>1
<1> HIDE DEF fragments
<1>5. PICK g : Steps(g, n, now, ids, fragments) /\ CollectedAll(n, now, ids, fragments) = g[Len(fragments)]
  BY <1>1, <1>3, CollectedSteps
<1> DEFINE Well(k) == /\ g[k][1] \in ChoiceStates /\ g[k][2] \in IdMaps
                      /\ g[k][1].visible = now.visible /\ g[k][1].reasons = now.reasons
                      /\ k # 0 => g[k][1].tools
                      /\ g[k][1].valid
                      /\ g[k][1].calls = Numbered(calls, k)
                      /\ Mine(completion, g[k][2])
           Fine == {k \in Nat : k <= last => Well(k)}
<1>6. 0 \in Fine
  <2>1. g[0] = <<now, ids>>
    BY <1>5 DEF Steps
  <2>2. Numbered(calls, 0) = <<>>
    BY <1>2, NumberedFacts
  <2>3. Well(0)
    BY <2>1, <2>2
  <2> HIDE DEF Well
  <2>4. QED
    BY <2>3
<1>7. ASSUME NEW k \in Nat, k \in Fine
      PROVE  k + 1 \in Fine
  <2>1. SUFFICES ASSUME k + 1 <= last
                 PROVE  Well(k + 1)
    OBVIOUS
  <2>2. Well(k) /\ k \in 0 .. last - 1 /\ k + 1 \in 1 .. last /\ (k + 1) - 1 = k /\ k + 1 # 0
    BY <1>2, <1>7, <2>1
  <2> DEFINE t == Fragment(k, calls[k + 1].id, calls[k + 1].args[1])
             after == Collected(n, g[k][1], g[k][2], t)
  <2>3. fragments[k + 1] = t
    BY <1>4, <2>2
  <2>4. g[k + 1] = after
    <3>1. g[k + 1] = Collected(n, g[(k + 1) - 1][1], g[(k + 1) - 1][2], fragments[k + 1])
      BY <1>4, <1>5, <2>2 DEF Steps
    <3> HIDE DEF Well
    <3>2. QED
      BY <2>2, <2>3, <3>1
  <2>5. /\ after[1] \in ChoiceStates /\ after[2] \in IdMaps
        /\ after[1].visible = g[k][1].visible /\ after[1].reasons = g[k][1].reasons
        /\ after[1].tools /\ after[1].valid
        /\ after[1].calls = Numbered(calls, k + 1)
        /\ Mine(completion, after[2])
    BY <2>2, CallIsNew
  <2> HIDE DEF after
  <2>6. QED
    BY <2>2, <2>4, <2>5
<1> HIDE DEF Fine
<1>8. last \in Fine
  BY <1>2, <1>6, <1>7, NatSetInduction, Zenon DEF Fine
<1>9. Well(last)
  BY <1>2, <1>8 DEF Fine
<1>10. calls # <<>> => last # 0
  BY <1>2, EmptySeq
<1> HIDE DEF last
<1>11. QED
  BY <1>4, <1>5, <1>9, <1>10 DEF fragments, last

LEMMA NoFragments ==
  ASSUME NEW c \in Nat, NEW s \in ChoiceStates, NEW ids \in IdMaps
  PROVE  CollectedAll(c, s, ids, <<>>) = <<s, ids>>
<1>1. <<>> \in Seq(Tells) /\ Len(<<>>) = 0
  OBVIOUS
<1>2. PICK g : Steps(g, c, s, ids, <<>>) /\ CollectedAll(c, s, ids, <<>>) = g[Len(<<>>)]
  BY <1>1, CollectedSteps
<1>3. QED
  BY <1>1, <1>2 DEF Steps

\* The frames of a choice: its role, its text, its calls and its end.
Skipped(choice, j) == (j = 1 /\ choice.text = "none") \/ (j = 2 /\ choice.calls = <<>>)
FrameOf(c, choice, j) ==
  Chunk(c, IF j = 1 THEN choice.text ELSE "none", IF j = 2 THEN ToolFragments(choice.calls) ELSE <<>>,
        IF j = 3 THEN EndOf(choice) ELSE "none")
FrameIfAny(c, choice, j) == IF Skipped(choice, j) THEN <<>> ELSE <<FrameOf(c, choice, j)>>
Onward(c, choice, j) ==
  (IF j <= 0 THEN FrameIfAny(c, choice, 0) ELSE <<>>) \o (IF j <= 1 THEN FrameIfAny(c, choice, 1) ELSE <<>>)
    \o (IF j <= 2 THEN FrameIfAny(c, choice, 2) ELSE <<>>) \o (IF j <= 3 THEN FrameIfAny(c, choice, 3) ELSE <<>>)

LEMMA FrameOfFacts ==
  ASSUME NEW c \in Nat, NEW choice \in ToldChoices, NEW j \in 0 .. 3
  PROVE  FrameOf(c, choice, j) \in Frames /\ FrameIfAny(c, choice, j) \in Seq(Frames)
<1>1. choice.text \in Texts /\ choice.calls \in Seq(ToldCalls) /\ choice.finish \in Reasons
  BY DEF ToldChoices, Texts
<1>2. "none" \in Texts /\ "none" \in Reasons /\ "stop" \in Reasons /\ <<>> \in Seq(Tells)
  BY DEF Texts, Reasons
<1>3. ToolFragments(choice.calls) \in Seq(Tells)
  BY <1>1, ToolFragmentsAreTells
<1>4. EndOf(choice) \in Reasons
  BY <1>1, <1>2 DEF EndOf
<1> DEFINE text == IF j = 1 THEN choice.text ELSE "none"
           tools == IF j = 2 THEN ToolFragments(choice.calls) ELSE <<>>
           finish == IF j = 3 THEN EndOf(choice) ELSE "none"
<1>5. text \in Texts /\ tools \in Seq(Tells) /\ finish \in Reasons
  BY <1>1, <1>2, <1>3, <1>4
<1>6. FrameOf(c, choice, j) = Chunk(c, text, tools, finish)
  BY DEF FrameOf
<1> HIDE DEF text, tools, finish
<1>7. FrameOf(c, choice, j) \in Frames
  BY <1>5, <1>6, ChunkIsFrame
<1>8. QED
  BY <1>7 DEF FrameIfAny

LEMMA FramesInARow == \A x, y, z \in Seq(Frames) : (x \o y) \o z = x \o (y \o z)
BY ConcatAssociative

LEMMA OnwardFacts ==
  ASSUME NEW c \in Nat, NEW choice \in ToldChoices
  PROVE  /\ \A j \in 0 .. 4 : Onward(c, choice, j) \in Seq(Frames)
         /\ \A j \in 0 .. 3 : Onward(c, choice, j) = FrameIfAny(c, choice, j) \o Onward(c, choice, j + 1)
         /\ Onward(c, choice, 4) = <<>>
         /\ Onward(c, choice, 0) = ChoiceFrames(c, choice)
<1> DEFINE p == FrameIfAny(c, choice, 0)
           q == FrameIfAny(c, choice, 1)
           r == FrameIfAny(c, choice, 2)
           s == FrameIfAny(c, choice, 3)
<1>1. p \in Seq(Frames) /\ q \in Seq(Frames) /\ r \in Seq(Frames) /\ s \in Seq(Frames) /\ <<>> \in Seq(Frames)
  BY FrameOfFacts
<1>2. /\ Onward(c, choice, 0) = p \o q \o r \o s
      /\ Onward(c, choice, 1) = <<>> \o q \o r \o s
      /\ Onward(c, choice, 2) = <<>> \o <<>> \o r \o s
      /\ Onward(c, choice, 3) = <<>> \o <<>> \o <<>> \o s
      /\ Onward(c, choice, 4) = <<>> \o <<>> \o <<>> \o <<>>
  <2> HIDE DEF p, q, r, s
  <2>1. /\ 0 <= 0 /\ 0 <= 1 /\ 0 <= 2 /\ 0 <= 3 /\ ~ (1 <= 0) /\ 1 <= 1 /\ 1 <= 2 /\ 1 <= 3
        /\ ~ (2 <= 0) /\ ~ (2 <= 1) /\ 2 <= 2 /\ 2 <= 3 /\ ~ (3 <= 0) /\ ~ (3 <= 1) /\ ~ (3 <= 2) /\ 3 <= 3
        /\ ~ (4 <= 0) /\ ~ (4 <= 1) /\ ~ (4 <= 2) /\ ~ (4 <= 3)
    OBVIOUS
  <2>2. QED
    BY <2>1, Zenon DEF Onward, p, q, r, s
<1>3. /\ FrameIfAny(c, choice, 0) = <<Chunk(c, "none", <<>>, "none")>>
      /\ FrameIfAny(c, choice, 1) = (IF choice.text = "none" THEN <<>> ELSE <<Chunk(c, choice.text, <<>>, "none")>>)
      /\ FrameIfAny(c, choice, 2) = (IF choice.calls = <<>> THEN <<>>
                                 ELSE <<Chunk(c, "none", ToolFragments(choice.calls), "none")>>)
      /\ FrameIfAny(c, choice, 3)
           = <<Chunk(c, "none", <<>>, IF choice.finish = "none" THEN "stop" ELSE choice.finish)>>
  <2>1. FrameIfAny(c, choice, 0) = <<Chunk(c, "none", <<>>, "none")>>
    BY DEF FrameIfAny, Skipped, FrameOf
  <2>2. FrameIfAny(c, choice, 1) = (IF choice.text = "none" THEN <<>> ELSE <<Chunk(c, choice.text, <<>>, "none")>>)
    BY DEF FrameIfAny, Skipped, FrameOf
  <2>3. FrameIfAny(c, choice, 2) = (IF choice.calls = <<>> THEN <<>>
                                 ELSE <<Chunk(c, "none", ToolFragments(choice.calls), "none")>>)
    BY DEF FrameIfAny, Skipped, FrameOf
  <2>4. FrameIfAny(c, choice, 3)
           = <<Chunk(c, "none", <<>>, IF choice.finish = "none" THEN "stop" ELSE choice.finish)>>
    BY DEF FrameIfAny, Skipped, FrameOf, EndOf
  <2>5. QED
    BY <2>1, <2>2, <2>3, <2>4
<1>4. Onward(c, choice, 0) = ChoiceFrames(c, choice)
  BY <1>2, <1>3, Zenon DEF ChoiceFrames
<1> HIDE DEF p, q, r, s
<1>5. /\ <<>> \o <<>> = <<>> /\ \A x \in Seq(Frames) : <<>> \o x = x /\ x \o <<>> = x
      /\ \A x, y \in Seq(Frames) : x \o y \in Seq(Frames)
  OBVIOUS
<1>6. /\ Onward(c, choice, 4) = <<>> /\ Onward(c, choice, 3) = s /\ Onward(c, choice, 2) = r \o s
      /\ Onward(c, choice, 1) = (q \o r) \o s /\ Onward(c, choice, 0) = ((p \o q) \o r) \o s
  BY <1>1, <1>2, <1>5
<1>7. /\ (q \o r) \o s = q \o (r \o s) /\ ((p \o q) \o r) \o s = p \o ((q \o r) \o s) /\ s = s \o <<>>
  <2>1. \A x, y, z \in Seq(Frames) : (x \o y) \o z = x \o (y \o z)
    BY FramesInARow
  <2> DEFINE t == q \o r
  <2>2. t \in Seq(Frames) /\ p \in Seq(Frames) /\ q \in Seq(Frames) /\ r \in Seq(Frames) /\ s \in Seq(Frames)
    BY <1>1, <1>5
  <2>3. t \o s = q \o (r \o s)
    BY <2>1, <2>2, ZenonT(40)
  <2>4. (p \o q) \o r = p \o t
    BY <2>1, <2>2, ZenonT(40)
  <2> HIDE DEF t
  <2>5. (p \o t) \o s = p \o (t \o s)
    BY <2>1, <2>2, ZenonT(40)
  <2>6. s = s \o <<>>
    BY <2>2, <1>5
  <2>7. QED
    BY <2>3, <2>4, <2>5, <2>6 DEF t
<1>8. \A j \in 0 .. 4 : Onward(c, choice, j) \in Seq(Frames)
  <2>1. r \o s \in Seq(Frames) /\ q \o r \in Seq(Frames) /\ p \o q \in Seq(Frames)
    BY <1>1, <1>5
  <2>2. (q \o r) \o s \in Seq(Frames) /\ ((p \o q) \o r) \in Seq(Frames)
    BY <1>1, <1>5, <2>1
  <2>3. ((p \o q) \o r) \o s \in Seq(Frames)
    BY <1>1, <1>5, <2>2
  <2>4. \A j \in 0 .. 4 : j = 0 \/ j = 1 \/ j = 2 \/ j = 3 \/ j = 4
    OBVIOUS
  <2>5. QED
    BY <1>1, <1>6, <2>1, <2>2, <2>3, <2>4
<1>9. \A j \in 0 .. 3 : Onward(c, choice, j) = FrameIfAny(c, choice, j) \o Onward(c, choice, j + 1)
  <2>1. /\ Onward(c, choice, 0) = p \o Onward(c, choice, 1) /\ Onward(c, choice, 1) = q \o Onward(c, choice, 2)
        /\ Onward(c, choice, 2) = r \o Onward(c, choice, 3) /\ Onward(c, choice, 3) = s \o Onward(c, choice, 4)
    BY <1>6, <1>7
  <2>2. /\ 0 + 1 = 1 /\ 1 + 1 = 2 /\ 2 + 1 = 3 /\ 3 + 1 = 4
        /\ \A j \in 0 .. 3 : j = 0 \/ j = 1 \/ j = 2 \/ j = 3
    OBVIOUS
  <2>3. QED
    BY <2>1, <2>2 DEF p, q, r, s
<1>10. QED
  BY <1>4, <1>6, <1>8, <1>9

\* What is still to come when n choices were told, and j frames of the next one.
ToCome(completion, n) ==
  FlattenSeq(SubSeq(FramesOf(completion), n + 1, Len(FramesOf(completion)))) \o Ends(completion)
Pending(completion, n, j) == Onward(n, completion.choices[n + 1], j) \o ToCome(completion, n + 1)

LEMMA ToComeFacts ==
  ASSUME NEW completion \in Clean
  PROVE  /\ ToCome(completion, 0) = Reemitted(completion)
         /\ ToCome(completion, Len(completion.choices)) = Ends(completion)
         /\ \A n \in 0 .. Len(completion.choices) : ToCome(completion, n) \in Seq(Frames)
         /\ \A n \in 0 .. Len(completion.choices) - 1 : ToCome(completion, n) = Pending(completion, n, 0)
<1> DEFINE all == FramesOf(completion)
           last == Len(completion.choices)
           ends == Ends(completion)
           rest(n) == SubSeq(all, n + 1, last)
<1>1. /\ completion \in Told /\ last \in Nat /\ DOMAIN completion.choices = 1 .. last
      /\ \A n \in 1 .. last : completion.choices[n] \in ToldChoices
  BY ChoiceFacts DEF Clean
<1>2. /\ all \in Seq(Seq(Frames)) /\ ends \in Seq(Frames)
      /\ Reemitted(completion) = FlattenSeq(all) \o ends
  BY <1>1, ReemittedFrames
<1>3. Len(all) = last /\ \A n \in 1 .. last : all[n] = ChoiceFrames(n - 1, completion.choices[n])
  <2>1. all = [n \in 1 .. last |-> ChoiceFrames(n - 1, completion.choices[n])]
    BY <1>1 DEF FramesOf
  <2> HIDE DEF last, all
  <2>2. QED
    BY <1>1, <1>2, <2>1
<1>4. \A n \in 0 .. last : ToCome(completion, n) = FlattenSeq(rest(n)) \o ends
  BY <1>3 DEF ToCome
<1> HIDE DEF all, ends, last
<1>5. \A n \in 0 .. last : rest(n) \in Seq(Seq(Frames))
  <2>1. SUFFICES ASSUME NEW n \in 0 .. last
                 PROVE  rest(n) \in Seq(Seq(Frames))
    OBVIOUS
  <2>2. \A i \in n + 1 .. last : all[i] \in Seq(Frames)
    <3>1. SUFFICES ASSUME NEW i \in n + 1 .. last
                   PROVE  all[i] \in Seq(Frames)
      OBVIOUS
    <3>2. i \in 1 .. Len(all)
      BY <1>1, <1>3
    <3>3. QED
      BY <1>2, <3>2, ElementOfSeq
  <2>3. n + 1 \in Int /\ last \in Int
    BY <1>1
  <2>4. QED
    BY <2>2, <2>3, SubSeqProperties
<1>6. \A n \in 0 .. last : FlattenSeq(rest(n)) \in Seq(Frames)
  BY <1>5, FlattenRange
<1>7. \A n \in 0 .. last : ToCome(completion, n) \in Seq(Frames)
  BY <1>2, <1>4, <1>6, ConcatProperties
<1>8. rest(0) = all
  BY <1>2, <1>3, SubSeqFull
<1>9. rest(last) = <<>>
  BY <1>1, SubSeqEmpty
<1>10. ToCome(completion, 0) = Reemitted(completion)
  <2>1. 0 \in 0 .. last
    BY <1>1
  <2>2. QED
    BY <1>2, <1>4, <1>8, <2>1
<1>11. ToCome(completion, last) = ends
  <2>1. last \in 0 .. last
    BY <1>1
  <2>2. FlattenSeq(rest(last)) = <<>>
    BY <1>2, <1>9, FlattenAppend, EmptySeq
  <2>3. <<>> \o ends = ends
    BY <1>2, ConcatEmptySeq
  <2>4. QED
    BY <1>4, <2>1, <2>2, <2>3
<1>12. ASSUME NEW n \in 0 .. last - 1
       PROVE  ToCome(completion, n) = Pending(completion, n, 0)
  <2> DEFINE frames == ChoiceFrames(n, completion.choices[n + 1])
  <2>1. /\ n \in Nat /\ n \in 0 .. last /\ n + 1 \in 0 .. last /\ n + 1 \in 1 .. last /\ (n + 1) - 1 = n
        /\ completion.choices[n + 1] \in ToldChoices
    BY <1>1
  <2>2. all[n + 1] = frames
    BY <1>3, <2>1
  <2>3. frames \in Seq(Frames)
    BY <2>1, ChoiceFramesAreFrames
  <2>4. rest(n) = <<all[n + 1]>> \o rest(n + 1)
    <3>1. n + 1 \in 1 .. Len(all) /\ last \in n + 1 .. Len(all)
      BY <1>1, <1>3, <2>1
    <3>2. QED
      BY <1>2, <3>1, SubSeqRecursiveFirst
  <2> HIDE DEF frames, rest
  <2>5. FlattenSeq(rest(n)) = frames \o FlattenSeq(rest(n + 1))
    <3>1. rest(n + 1) \in Seq(Seq(Frames))
      BY <1>5, <2>1
    <3>2. FlattenSeq(<<frames>> \o rest(n + 1)) = frames \o FlattenSeq(rest(n + 1))
      BY <2>3, <3>1, FlattenFirst
    <3>3. QED
      BY <2>2, <2>4, <3>2
  <2>6. FlattenSeq(rest(n + 1)) \in Seq(Frames)
    BY <1>6, <2>1
  <2>7. (frames \o FlattenSeq(rest(n + 1))) \o ends = frames \o (FlattenSeq(rest(n + 1)) \o ends)
    <3> DEFINE flat == FlattenSeq(rest(n + 1))
    <3> HIDE DEF flat
    <3>1. flat \in Seq(Frames)
      BY <2>6 DEF flat
    <3>2. (frames \o flat) \o ends = frames \o (flat \o ends)
      BY <1>2, <2>3, <3>1, FramesInARow, ZenonT(40)
    <3>3. QED
      BY <3>2 DEF flat
  <2>8. ToCome(completion, n) = frames \o ToCome(completion, n + 1)
    BY <1>4, <2>1, <2>5, <2>7
  <2>9. Onward(n, completion.choices[n + 1], 0) = frames
    BY <2>1, OnwardFacts DEF frames
  <2>10. QED
    BY <2>8, <2>9 DEF Pending
<1>13. QED
  BY <1>7, <1>10, <1>11, <1>12 DEF last, ends

LEMMA FirstFrame ==
  ASSUME NEW f \in Frames, NEW s \in Seq(Frames)
  PROVE  <<f>> \o s # <<>> /\ Head(<<f>> \o s) = f /\ Tail(<<f>> \o s) = s
BY FirstOfLine

LEMMA PendingFacts ==
  ASSUME NEW completion \in Clean, NEW n \in 0 .. Len(completion.choices) - 1
  PROVE  LET choice == completion.choices[n + 1]
         IN /\ \A j \in 0 .. 3 :
                 IF Skipped(choice, j) THEN Pending(completion, n, j) = Pending(completion, n, j + 1)
                 ELSE /\ FrameOf(n, choice, j) \in Frames
                      /\ Pending(completion, n, j) # <<>>
                      /\ Head(Pending(completion, n, j)) = FrameOf(n, choice, j)
                      /\ Tail(Pending(completion, n, j)) = Pending(completion, n, j + 1)
            /\ Pending(completion, n, 4) = ToCome(completion, n + 1)
<1> DEFINE choice == completion.choices[n + 1]
           rest == ToCome(completion, n + 1)
<1>1. n \in Nat /\ n + 1 \in 1 .. Len(completion.choices) /\ n + 1 \in 0 .. Len(completion.choices)
  BY ChoiceFacts
<1>2. choice \in ToldChoices /\ rest \in Seq(Frames)
  BY <1>1, ChoiceFacts, ToComeFacts
<1> HIDE DEF choice, rest
<1>3. \A j \in 0 .. 4 : Pending(completion, n, j) = Onward(n, choice, j) \o rest
  BY DEF Pending, choice, rest
<1>4. /\ \A j \in 0 .. 4 : Onward(n, choice, j) \in Seq(Frames)
      /\ \A j \in 0 .. 3 : Onward(n, choice, j) = FrameIfAny(n, choice, j) \o Onward(n, choice, j + 1)
      /\ Onward(n, choice, 4) = <<>>
  BY <1>1, <1>2, OnwardFacts
<1>5. Pending(completion, n, 4) = rest
  <2>1. <<>> \o rest = rest
    BY <1>2, ConcatEmptySeq
  <2>2. Pending(completion, n, 4) = Onward(n, choice, 4) \o rest
    BY DEF Pending, choice, rest
  <2>3. QED
    BY <1>4, <2>1, <2>2
<1>6. ASSUME NEW j \in 0 .. 3
      PROVE  IF Skipped(choice, j) THEN Pending(completion, n, j) = Pending(completion, n, j + 1)
             ELSE /\ FrameOf(n, choice, j) \in Frames
                  /\ Pending(completion, n, j) # <<>>
                  /\ Head(Pending(completion, n, j)) = FrameOf(n, choice, j)
                  /\ Tail(Pending(completion, n, j)) = Pending(completion, n, j + 1)
  <2> DEFINE f == FrameOf(n, choice, j)
             later == Onward(n, choice, j + 1)
             after == Pending(completion, n, j + 1)
  <2>1. j \in 0 .. 4 /\ j + 1 \in 0 .. 4
    OBVIOUS
  <2>2. f \in Frames
    BY <1>1, <1>2, FrameOfFacts
  <2>3. later \in Seq(Frames) /\ after = later \o rest
    BY <1>3, <1>4, <2>1
  <2>4. Pending(completion, n, j) = Onward(n, choice, j) \o rest
        /\ Onward(n, choice, j) = FrameIfAny(n, choice, j) \o later
    BY <1>3, <1>4, <2>1
  <2> HIDE DEF f, later, after
  <2>5. CASE Skipped(choice, j)
    <3>1. FrameIfAny(n, choice, j) = <<>>
      BY <2>5 DEF FrameIfAny
    <3>2. <<>> \o later = later
      BY <2>3, ConcatEmptySeq
    <3>3. QED
      BY <2>3, <2>4, <2>5, <3>1, <3>2 DEF after
  <2>6. CASE ~ Skipped(choice, j)
    <3>1. FrameIfAny(n, choice, j) = <<f>>
      BY <2>6 DEF FrameIfAny, f
    <3>2. <<f>> \in Seq(Frames)
      BY <2>2
    <3>3. (<<f>> \o later) \o rest = <<f>> \o (later \o rest)
      BY <1>2, <2>3, <3>2, FramesInARow, ZenonT(40)
    <3>4. Pending(completion, n, j) = <<f>> \o after /\ after \in Seq(Frames)
      BY <1>2, <2>3, <2>4, <3>1, <3>3, ConcatProperties
    <3>5. <<f>> \o after # <<>> /\ Head(<<f>> \o after) = f /\ Tail(<<f>> \o after) = after
      BY <2>2, <3>4, FirstFrame
    <3>6. QED
      BY <2>2, <2>6, <3>4, <3>5 DEF f, after
  <2>7. QED
    BY <2>5, <2>6
<1>7. QED
  BY <1>5, <1>6 DEF choice, rest

\* What is known of a choice, and what a client has read of it, when j of its frames
\* were told.
Reached(choice, j, s, text) ==
  /\ s.valid
  /\ s.visible <=> j >= 2 /\ choice.text # "none"
  /\ s.tools <=> j >= 3 /\ choice.calls # <<>>
  /\ s.calls = IF j >= 3 THEN Numbered(choice.calls, Len(choice.calls)) ELSE <<>>
  /\ s.reasons = IF j >= 4 THEN <<EndOf(choice)>> ELSE <<>>
  /\ text = IF j >= 2 THEN choice.text ELSE "none"

LEMMA SkippedIsReached ==
  ASSUME NEW choice \in ToldChoices, NEW j \in 0 .. 3, NEW s, NEW text, Skipped(choice, j), Reached(choice, j, s, text)
  PROVE  Reached(choice, j + 1, s, text)
<1>1. CASE j = 1
  <2>1. choice.text = "none"
    BY <1>1 DEF Skipped
  <2>2. QED
    BY <1>1, <2>1 DEF Reached
<1>2. CASE j = 2
  <2>1. choice.calls = <<>>
    BY <1>2 DEF Skipped
  <2>2. Numbered(choice.calls, Len(choice.calls)) = <<>>
    <3>1. <<>> \in Seq(ToldCalls) /\ Len(<<>>) = 0
      OBVIOUS
    <3>2. Numbered(<<>>, 0) = <<>>
      BY <3>1, NumberedFacts
    <3>3. QED
      BY <2>1, <3>1, <3>2
  <2>3. s.calls = <<>> /\ ~ s.tools
    BY <1>2 DEF Reached
  <2>4. QED
    BY <1>2, <2>1, <2>2, <2>3 DEF Reached
<1>3. QED
  BY <1>1, <1>2 DEF Skipped

LEMMA FrameParts ==
  ASSUME NEW c, NEW choice, NEW j
  PROVE  LET f == FrameOf(c, choice, j)
         IN /\ f.kind = "chunk" /\ f.choice = c /\ f.usage = "absent"
            /\ f.text = (IF j = 1 THEN choice.text ELSE "none")
            /\ f.tools = (IF j = 2 THEN ToolFragments(choice.calls) ELSE <<>>)
            /\ f.finish = (IF j = 3 THEN EndOf(choice) ELSE "none")
<1> DEFINE text == IF j = 1 THEN choice.text ELSE "none"
           tools == IF j = 2 THEN ToolFragments(choice.calls) ELSE <<>>
           finish == IF j = 3 THEN EndOf(choice) ELSE "none"
<1>1. FrameOf(c, choice, j) = Chunk(c, text, tools, finish)
  BY DEF FrameOf
<1> HIDE DEF text, tools, finish
<1>2. LET f == Chunk(c, text, tools, finish)
      IN f.kind = "chunk" /\ f.choice = c /\ f.usage = "absent" /\ f.text = text /\ f.tools = tools /\ f.finish = finish
  BY DEF Chunk
<1>3. QED
  BY <1>1, <1>2 DEF text, tools, finish

\* One more frame of a choice.
LEMMA FrameIsReached ==
  ASSUME NEW completion \in Clean, Regular(completion), NEW n \in 0 .. Len(completion.choices) - 1,
         NEW j \in 0 .. 3, ~ Skipped(completion.choices[n + 1], j),
         NEW s \in ChoiceStates, NEW g \in Gots, NEW ids \in IdMaps, Mine(completion, ids),
         Reached(completion.choices[n + 1], j, s, g.text)
  PROVE  LET choice == completion.choices[n + 1]
             f == FrameOf(n, choice, j)
             after == CollectedAll(n, Seen(s, f), ids, f.tools)
         IN Reached(choice, j + 1, after[1], Joined(g, f).text) /\ Mine(completion, after[2])
<1> DEFINE choice == completion.choices[n + 1]
           f == FrameOf(n, choice, j)
           now == Seen(s, f)
           after == CollectedAll(n, now, ids, f.tools)
           joined == Joined(g, f)
<1>1. n \in Nat /\ n + 1 \in 1 .. Len(completion.choices)
  BY ChoiceFacts
<1>2. /\ choice \in ToldChoices /\ choice.text \in {"none", "text"} /\ choice.finish \in Reasons
      /\ choice.calls \in Seq(ToldCalls)
  BY <1>1, ChoiceFacts
<1>3. EndOf(choice) # "none"
  BY DEF EndOf
<1>4. f \in Frames
  BY <1>1, <1>2, FrameOfFacts
<1>5. /\ f.text = (IF j = 1 THEN choice.text ELSE "none")
      /\ f.tools = (IF j = 2 THEN ToolFragments(choice.calls) ELSE <<>>)
      /\ f.finish = (IF j = 3 THEN EndOf(choice) ELSE "none")
  BY FrameParts
<1>6. joined.text = IF Visible(f.text) THEN f.text ELSE g.text
  BY DEF Joined
<1> HIDE DEF joined, f
<1>7. /\ now \in ChoiceStates
      /\ now.visible = (s.visible \/ Visible(f.text))
      /\ now.reasons = IF f.finish = "none" THEN s.reasons ELSE Append(s.reasons, f.finish)
      /\ now.tools = s.tools /\ now.valid = s.valid /\ now.calls = s.calls
  BY <1>4, SeenFacts
<1> HIDE DEF now, choice
<1>8. /\ s.valid
      /\ s.visible <=> j >= 2 /\ choice.text # "none"
      /\ s.tools <=> j >= 3 /\ choice.calls # <<>>
      /\ s.calls = IF j >= 3 THEN Numbered(choice.calls, Len(choice.calls)) ELSE <<>>
      /\ s.reasons = <<>>
      /\ g.text = IF j >= 2 THEN choice.text ELSE "none"
  <2>1. ~ (j >= 4) /\ Reached(choice, j, s, g.text)
    BY DEF choice
  <2>2. QED
    BY <2>1 DEF Reached
<1>9. /\ now.visible <=> j + 1 >= 2 /\ choice.text # "none"
      /\ joined.text = IF j + 1 >= 2 THEN choice.text ELSE "none"
  <2>1. CASE j = 1
    <3>1. choice.text # "none"
      BY <2>1 DEF Skipped, choice
    <3>2. f.text = "text" /\ Visible(f.text) /\ choice.text = "text"
      BY <1>2, <1>5, <2>1, <3>1 DEF Visible
    <3>3. now.visible
      BY <1>7, <3>2
    <3>4. joined.text = choice.text
      BY <1>6, <3>2
    <3>5. j + 1 >= 2
      BY <2>1
    <3>6. QED
      BY <3>1, <3>3, <3>4, <3>5
  <2>2. CASE j # 1
    <3>1. ~ Visible(f.text)
      BY <1>5, <2>2 DEF Visible
    <3>2. j + 1 >= 2 <=> j >= 2
      BY <2>2
    <3>3. QED
      BY <1>6, <1>7, <1>8, <3>1, <3>2
  <2>3. QED
    BY <2>1, <2>2
<1>10. now.reasons = IF j + 1 >= 4 THEN <<EndOf(choice)>> ELSE <<>>
  <2>1. CASE j = 3
    <3>1. now.reasons = Append(<<>>, EndOf(choice))
      BY <1>3, <1>5, <1>7, <1>8, <2>1
    <3>2. QED
      BY <2>1, <3>1
  <2>2. CASE j # 3
    <3>1. f.finish = "none" /\ ~ (j + 1 >= 4)
      BY <1>5, <2>2
    <3>2. QED
      BY <1>7, <1>8, <3>1
  <2>3. QED
    BY <2>1, <2>2
<1>11. /\ after[1].visible = now.visible /\ after[1].reasons = now.reasons /\ after[1].valid
       /\ after[1].tools <=> j + 1 >= 3 /\ choice.calls # <<>>
       /\ after[1].calls = IF j + 1 >= 3 THEN Numbered(choice.calls, Len(choice.calls)) ELSE <<>>
       /\ Mine(completion, after[2])
  <2>1. CASE j = 2
    <3>1. choice.calls # <<>>
      BY <2>1 DEF Skipped, choice
    <3>2. f.tools = ToolFragments(choice.calls) /\ j + 1 >= 3 /\ ~ (j >= 3)
      BY <1>5, <2>1
    <3>3. now.valid /\ now.calls = <<>>
      BY <1>7, <1>8, <3>2
    <3> DEFINE told == CollectedAll(n, now, ids, ToolFragments(choice.calls))
    <3>4. /\ told[1].visible = now.visible /\ told[1].reasons = now.reasons /\ told[1].valid
          /\ choice.calls # <<>> => told[1].tools
          /\ told[1].calls = Numbered(choice.calls, Len(choice.calls))
          /\ Mine(completion, told[2])
      BY <1>7, <3>3, CallsAreNew DEF choice
    <3>5. after = told
      BY <3>2
    <3> HIDE DEF told, after
    <3>6. QED
      BY <3>1, <3>2, <3>4, <3>5
  <2>2. CASE j # 2
    <3>1. f.tools = <<>> /\ (j + 1 >= 3 <=> j >= 3)
      BY <1>5, <2>2
    <3>2. after = <<now, ids>>
      BY <1>1, <1>7, <3>1, NoFragments
    <3> HIDE DEF after
    <3>3. after[1] = now /\ after[2] = ids
      BY <3>2
    <3>4. QED
      BY <1>7, <1>8, <3>1, <3>3
  <2>3. QED
    BY <2>1, <2>2
<1> HIDE DEF after
<1>12. Reached(choice, j + 1, after[1], joined.text)
  BY <1>9, <1>10, <1>11 DEF Reached
<1>13. QED
  BY <1>11, <1>12 DEF after, joined, now, f, choice

\* Where an emission is: j frames of the choice after the first n are told, or only the
\* end is to come, or nothing.
Inside(completion, n, j) ==
  /\ n \in 0 .. Len(completion.choices) - 1 /\ j \in 0 .. 4
  /\ feed = Pending(completion, n, j)
  /\ DOMAIN states = IF j = 0 THEN 0 .. n - 1 ELSE 0 .. n
  /\ \A c \in DOMAIN states :
       Reached(completion.choices[c + 1], IF c < n THEN 4 ELSE j, states[c], got[c].text)
  /\ ~ stream.done /\ ~ stream.invalid /\ ~ stream.usageSeen
AllTold(completion) ==
  /\ DOMAIN states = 0 .. Len(completion.choices) - 1
  /\ \A c \in DOMAIN states : Reached(completion.choices[c + 1], 4, states[c], got[c].text)
AtEnd(completion) ==
  AllTold(completion) /\ feed = <<DoneFrame>> /\ ~ stream.done /\ (stream.invalid => ~ AllValid(states))
Over(completion) ==
  AllTold(completion) /\ feed = <<>> /\ stream.done /\ (stream.invalid <=> ~ AllValid(states))

LEMMA StreamAfter ==
  ASSUME NEW f, Take(f)
  PROVE  /\ stream'.done = (stream.done \/ f.kind = "done")
         /\ stream'.invalid = \/ stream.invalid
                              \/ stream.done \/ (f.kind = "chunk" /\ Held(states, f.choice, NewState).reasons # <<>>)
                              \/ f.kind = "broken" \/ UsageBad(f)
                              \/ f.kind = "done" /\ ~ AllValid(states)
         /\ stream'.usageSeen = (stream.usageSeen \/ f.usage # "absent")
         /\ f.kind # "chunk" => UNCHANGED <<states, toolIds, got>>
         /\ UNCHANGED <<given, verdict>>
<1> DEFINE done == stream.done \/ f.kind = "done"
           late == stream.done \/ (f.kind = "chunk" /\ Held(states, f.choice, NewState).reasons # <<>>)
           invalid == \/ stream.invalid \/ late \/ f.kind = "broken" \/ UsageBad(f)
                      \/ f.kind = "done" /\ ~ AllValid(states)
           seen == stream.usageSeen \/ f.usage # "absent"
<1>1. stream' = [done |-> done, invalid |-> invalid, usageSeen |-> seen]
  BY Zenon DEF Take
<1>2. (f.kind # "chunk" => UNCHANGED <<states, toolIds, got>>) /\ UNCHANGED <<given, verdict>>
  BY DEF Take
<1> HIDE DEF done, invalid, seen
<1>3. stream'.done = done /\ stream'.invalid = invalid /\ stream'.usageSeen = seen
  BY <1>1
<1>4. QED
  BY <1>2, <1>3, Zenon DEF done, invalid, late, seen

\* It is between two frames that are to come, or at the end of the last choice.
LEMMA InsideAtFrame ==
  ASSUME NEW completion \in Clean, NEW n \in Nat, NEW j \in Nat, Inside(completion, n, j)
  PROVE  \E m, i \in Nat : /\ Inside(completion, m, i)
                           /\ \/ i \in 0 .. 3 /\ ~ Skipped(completion.choices[m + 1], i)
                              \/ i = 4 /\ m = Len(completion.choices) - 1
<1> DEFINE Settled(m, i) == \/ i \in 0 .. 3 /\ ~ Skipped(completion.choices[m + 1], i)
                            \/ i = 4 /\ m = Len(completion.choices) - 1
<1>1. n \in 0 .. Len(completion.choices) - 1 /\ j \in 0 .. 4 /\ Len(completion.choices) \in Nat
  BY ChoiceFacts DEF Inside
<1>2. ASSUME NEW i \in 1 .. 2, Inside(completion, n, i), Skipped(completion.choices[n + 1], i)
      PROVE  Inside(completion, n, i + 1)
  <2>1. i \in 0 .. 3 /\ i # 0 /\ i + 1 # 0 /\ i + 1 \in 0 .. 4 /\ n + 1 \in 1 .. Len(completion.choices)
    BY <1>1
  <2>2. completion.choices[n + 1] \in ToldChoices
    BY <2>1, ChoiceFacts
  <2>3. Pending(completion, n, i) = Pending(completion, n, i + 1)
    BY <1>1, <1>2, <2>1, PendingFacts
  <2>4. ASSUME NEW c \in DOMAIN states
        PROVE  Reached(completion.choices[c + 1], IF c < n THEN 4 ELSE i + 1, states[c], got[c].text)
    <3>1. c \in 0 .. n /\ Reached(completion.choices[c + 1], IF c < n THEN 4 ELSE i, states[c], got[c].text)
      BY <1>2, <2>1 DEF Inside
    <3>2. CASE c < n
      BY <3>1, <3>2
    <3>3. CASE ~ (c < n)
      <4>1. c = n /\ Reached(completion.choices[n + 1], i, states[n], got[n].text)
        BY <1>1, <3>1, <3>3
      <4>2. Reached(completion.choices[n + 1], i + 1, states[n], got[n].text)
        BY <1>2, <2>1, <2>2, <4>1, SkippedIsReached
      <4>3. QED
        BY <3>3, <4>1, <4>2
    <3>4. QED
      BY <3>2, <3>3
  <2>5. QED
    BY <1>2, <2>1, <2>3, <2>4 DEF Inside
<1>3. CASE j = 4
  <2>1. CASE n = Len(completion.choices) - 1
    BY <1>3, <2>1
  <2>2. CASE n # Len(completion.choices) - 1
    <3>1. n + 1 \in 0 .. Len(completion.choices) - 1 /\ n + 1 \in Nat /\ (n + 1) - 1 = n
      BY <1>1, <2>2
    <3>2. feed = Pending(completion, n + 1, 0)
      <4>1. feed = ToCome(completion, n + 1)
        BY <1>1, <1>3, PendingFacts DEF Inside
      <4>2. QED
        BY <3>1, <4>1, ToComeFacts
    <3>3. DOMAIN states = 0 .. (n + 1) - 1
      BY <1>3, <3>1 DEF Inside
    <3>4. ASSUME NEW c \in DOMAIN states
          PROVE  Reached(completion.choices[c + 1], IF c < n + 1 THEN 4 ELSE 0, states[c], got[c].text)
      <4>1. c \in 0 .. n /\ c < n + 1
        BY <1>1, <3>1, <3>3
      <4>2. Reached(completion.choices[c + 1], IF c < n THEN 4 ELSE 4, states[c], got[c].text)
        BY <1>3 DEF Inside
      <4>3. QED
        BY <4>1, <4>2
    <3>5. Inside(completion, n + 1, 0)
      BY <3>1, <3>2, <3>3, <3>4 DEF Inside
    <3>6. ~ Skipped(completion.choices[(n + 1) + 1], 0) /\ 0 \in 0 .. 3 /\ 0 \in Nat
      BY DEF Skipped
    <3>7. QED
      BY <3>1, <3>5, <3>6
  <2>3. QED
    BY <2>1, <2>2
<1>4. CASE j \in 0 .. 3 /\ ~ Skipped(completion.choices[n + 1], j)
  BY <1>4
<1>5. CASE j \in 0 .. 3 /\ Skipped(completion.choices[n + 1], j)
  <2>1. j \in 1 .. 2 /\ j + 1 \in 2 .. 3
    BY <1>5 DEF Skipped
  <2>2. Inside(completion, n, j + 1)
    BY <1>2, <1>5, <2>1
  <2>3. CASE ~ Skipped(completion.choices[n + 1], j + 1)
    BY <2>1, <2>2, <2>3
  <2>4. CASE Skipped(completion.choices[n + 1], j + 1)
    <3>1. j + 1 = 2
      BY <2>1, <2>4 DEF Skipped
    <3>2. Inside(completion, n, 2 + 1)
      BY <1>2, <2>2, <2>4, <3>1
    <3>3. 2 + 1 = 3 /\ 3 \in 0 .. 3 /\ 3 \in Nat /\ ~ Skipped(completion.choices[n + 1], 3)
      BY DEF Skipped
    <3>4. QED
      BY <3>2, <3>3
  <2>5. QED
    BY <2>3, <2>4
<1>6. j = 4 \/ j \in 0 .. 3
  BY <1>1
<1>7. QED
  BY <1>3, <1>4, <1>5, <1>6, Zenon

\* A frame of a choice is taken.
LEMMA InsideTakes ==
  ASSUME StreamInv, NEW completion \in Clean, Regular(completion), Mine(completion, toolIds),
         NEW n \in Nat, NEW j \in 0 .. 3, Inside(completion, n, j), ~ Skipped(completion.choices[n + 1], j),
         TakeReemitted
  PROVE  Inside(completion, n, j + 1)' /\ Mine(completion, toolIds')
<1> DEFINE choice == completion.choices[n + 1]
           f == FrameOf(n, choice, j)
           s == Held(states, n, NewState)
           g == Held(got, n, NewGot)
           after == CollectedAll(n, Seen(s, f), toolIds, f.tools)
           joined == Joined(g, f)
<1>1. n \in 0 .. Len(completion.choices) - 1 /\ j \in 0 .. 4
  BY DEF Inside
<1>2. f \in Frames /\ Head(feed) = f /\ Tail(feed) = Pending(completion, n, j + 1)
  BY <1>1, PendingFacts DEF Inside
<1>3. Take(f) /\ feed' = Pending(completion, n, j + 1)
  BY <1>2 DEF TakeReemitted
<1>4. f.kind = "chunk" /\ f.choice = n /\ f.usage = "absent"
  BY FrameParts
<1>5. /\ states' = With(states, n, after[1])
      /\ toolIds' = after[2]
      /\ got' = With(got, n, joined)
  BY <1>3, <1>4 DEF Take, Seen, NewGot
<1>6. toolIds \in IdMaps /\ states \in StateTables /\ got \in GotTables /\ DOMAIN got = DOMAIN states
  BY DEF StreamInv, StateTables, GotTables
<1>7. s \in ChoiceStates /\ g \in Gots
  BY NewOnes, HeldFacts DEF StreamInv
<1> HIDE DEF f, after, joined
<1>8. Reached(choice, j, s, g.text)
  <2>1. CASE j = 0
    <3>1. n \notin DOMAIN states
      BY <1>1, <2>1 DEF Inside
    <3>2. s = NewState /\ g = NewGot
      BY <1>6, <3>1 DEF Held
    <3>3. QED
      BY <2>1, <3>2 DEF Reached, NewState, NewGot
  <2>2. CASE j # 0
    <3>1. n \in DOMAIN states /\ ~ (n < n)
      BY <1>1, <2>2 DEF Inside
    <3>2. s = states[n] /\ g = got[n]
      BY <1>6, <3>1 DEF Held
    <3>3. Reached(choice, IF n < n THEN 4 ELSE j, states[n], got[n].text)
      BY <3>1 DEF Inside
    <3>4. QED
      BY <3>1, <3>2, <3>3
  <2>3. QED
    BY <2>1, <2>2
<1>9. Reached(choice, j + 1, after[1], joined.text) /\ Mine(completion, after[2])
  BY <1>1, <1>6, <1>7, <1>8, FrameIsReached DEF after, joined, f
<1>10. s.reasons = <<>>
  <2>1. ~ (j >= 4)
    OBVIOUS
  <2>2. QED
    BY <1>8, <2>1 DEF Reached
<1>11. after[1] \in ChoiceStates /\ joined \in Gots
  <2>1. Alike(n, s, toolIds, g)
    BY NewOnes DEF Held, StreamInv
  <2>2. QED
    BY <1>2, <1>6, <1>7, <2>1, ChunkAlike DEF after, joined
<1>12. /\ DOMAIN states' = DOMAIN states \cup {n}
       /\ states'[n] = after[1] /\ \A x \in DOMAIN states : x # n => states'[x] = states[x]
  BY <1>5 DEF With
<1>13. got'[n] = joined /\ \A x \in DOMAIN got : x # n => got'[x] = got[x]
  BY <1>5 DEF With
<1>14. DOMAIN states' = 0 .. n
  <2>1. (0 .. n - 1) \cup {n} = 0 .. n /\ (0 .. n) \cup {n} = 0 .. n
    BY <1>1
  <2>2. DOMAIN states = 0 .. n - 1 \/ DOMAIN states = 0 .. n
    BY DEF Inside
  <2>3. QED
    BY <1>12, <2>1, <2>2
<1>15. ASSUME NEW c \in DOMAIN states'
       PROVE  Reached(completion.choices[c + 1], IF c < n THEN 4 ELSE j + 1, states'[c], got'[c].text)
  <2>1. c \in 0 .. n
    BY <1>14
  <2>2. CASE c = n
    <3>1. ~ (c < n)
      BY <2>1, <2>2
    <3>2. QED
      BY <1>9, <1>12, <1>13, <2>2, <3>1
  <2>3. CASE c # n
    <3>1. c < n
      BY <2>1, <2>3
    <3>2. c \in DOMAIN states /\ c \in DOMAIN got
      BY <1>6, <1>12, <2>3
    <3>3. Reached(completion.choices[c + 1], IF c < n THEN 4 ELSE j, states[c], got[c].text)
      BY <3>2 DEF Inside
    <3>4. states'[c] = states[c] /\ got'[c] = got[c]
      BY <1>12, <1>13, <2>3, <3>2
    <3>5. QED
      BY <3>1, <3>3, <3>4
  <2>4. QED
    BY <2>2, <2>3
<1>16. ~ stream'.done /\ ~ stream'.invalid /\ ~ stream'.usageSeen
  <2>1. ~ stream.done /\ ~ stream.invalid /\ ~ stream.usageSeen
    BY DEF Inside
  <2>2. ~ UsageBad(f)
    BY <1>4 DEF UsageBad
  <2>3. Held(states, f.choice, NewState).reasons = <<>>
    BY <1>4, <1>10
  <2>4. QED
    BY <1>3, <1>4, <2>1, <2>2, <2>3, StreamAfter
<1>17. j + 1 \in 0 .. 4 /\ j + 1 # 0
  OBVIOUS
<1>18. Inside(completion, n, j + 1)'
  BY <1>1, <1>3, <1>14, <1>15, <1>16, <1>17 DEF Inside
<1>19. QED
  BY <1>5, <1>9, <1>18

\* All choices are told: the usage is taken, if there is one, and the end.
LEMMA EndTakes ==
  ASSUME NEW completion \in Clean, AtEnd(completion), TakeReemitted
  PROVE  Over(completion)' /\ toolIds' = toolIds
<1>1. feed = <<DoneFrame>>
  BY DEF AtEnd
<1>2. Take(DoneFrame) /\ feed' = <<>>
  BY <1>1 DEF TakeReemitted
<1>3. DoneFrame.kind = "done" /\ DoneFrame.usage = "absent"
  BY DEF DoneFrame, UsageFrame
<1>4. ~ UsageBad(DoneFrame)
  BY <1>3 DEF UsageBad
<1>5. UNCHANGED <<states, toolIds, got>>
  BY <1>2, <1>3, StreamAfter
<1>6. stream'.done
  BY <1>2, <1>3, StreamAfter
<1>7. stream'.invalid <=> ~ AllValid(states)
  <2>1. ~ stream.done /\ (stream.invalid => ~ AllValid(states))
    BY DEF AtEnd
  <2>2. stream'.invalid = \/ stream.invalid
                          \/ stream.done
                             \/ (DoneFrame.kind = "chunk" /\ Held(states, DoneFrame.choice, NewState).reasons # <<>>)
                          \/ DoneFrame.kind = "broken" \/ UsageBad(DoneFrame)
                          \/ DoneFrame.kind = "done" /\ ~ AllValid(states)
    BY <1>2, StreamAfter
  <2>3. QED
    BY <1>3, <1>4, <2>1, <2>2
<1>8. AllTold(completion)' /\ AllValid(states)' = AllValid(states)
  BY <1>5 DEF AtEnd, AllTold, AllValid
<1>9. QED
  BY <1>2, <1>5, <1>6, <1>7, <1>8 DEF Over

LEMMA LastIsTold ==
  ASSUME NEW completion \in Clean, completion.choices # <<>>, Inside(completion, Len(completion.choices) - 1, 4)
  PROVE  AllTold(completion) /\ DOMAIN states # {} /\ feed = Ends(completion)
<1> DEFINE last == Len(completion.choices)
<1>1. last \in Nat /\ last # 0
  <2>1. completion.choices \in Seq(ToldChoices)
    BY DEF Clean, Told
  <2>2. QED
    BY <2>1, EmptySeq, LenProperties
<1> HIDE DEF last
<1>2. DOMAIN states = 0 .. last - 1 /\ 0 \in 0 .. last - 1
  BY <1>1 DEF Inside, last
<1>3. last - 1 \in 0 .. last - 1 /\ (last - 1) + 1 = last
  BY <1>1
<1>4. feed = Ends(completion)
  <2>1. feed = Pending(completion, last - 1, 4)
    BY DEF Inside, last
  <2>2. Pending(completion, last - 1, 4) = ToCome(completion, (last - 1) + 1)
    BY <1>3, PendingFacts DEF last
  <2>3. ToCome(completion, last) = Ends(completion)
    BY ToComeFacts DEF last
  <2>4. QED
    BY <1>3, <2>1, <2>2, <2>3
<1>5. AllTold(completion)
  BY <1>2 DEF AllTold, Inside, last
<1>6. QED
  BY <1>2, <1>4, <1>5

LEMMA LastTakes ==
  ASSUME NEW completion \in Clean, Regular(completion), completion.choices # <<>>,
         Inside(completion, Len(completion.choices) - 1, 4), TakeReemitted
  PROVE  (AtEnd(completion) \/ Over(completion))' /\ toolIds' = toolIds
<1>1. AllTold(completion) /\ DOMAIN states # {} /\ feed = Ends(completion)
  BY LastIsTold
<1>2. ~ stream.done /\ ~ stream.invalid /\ ~ stream.usageSeen
  BY DEF Inside
<1>3. completion.usage \in Usages /\ completion.usage # "bad" /\ DoneFrame \in Frames
  BY ChoiceFacts, OtherFrames DEF Regular
<1>4. CASE completion.usage = "absent"
  <2>1. feed = <<DoneFrame>>
    BY <1>1, <1>3, <1>4 DEF Ends
  <2>2. AtEnd(completion)
    BY <1>1, <1>2, <2>1 DEF AtEnd
  <2>3. QED
    BY <2>2, EndTakes
<1>5. CASE completion.usage # "absent"
  <2> DEFINE f == UsageFrame(completion.usage)
  <2>1. f \in Frames /\ <<DoneFrame>> \in Seq(Frames)
    BY <1>3, OtherFrames
  <2>2. feed = <<f>> \o <<DoneFrame>>
    BY <1>1, <1>5 DEF Ends
  <2>3. f.kind = "usage" /\ f.usage = completion.usage
    BY DEF UsageFrame
  <2> HIDE DEF f
  <2>4. Head(feed) = f /\ Tail(feed) = <<DoneFrame>>
    BY <2>1, <2>2, FirstFrame
  <2>5. Take(f) /\ feed' = <<DoneFrame>>
    BY <2>4 DEF TakeReemitted
  <2>6. UNCHANGED <<states, toolIds, got>>
    BY <2>3, <2>5, StreamAfter
  <2>7. UsageBad(f) <=> ~ AllValid(states)
    BY <1>1, <1>2, <1>3, <1>5, <2>3 DEF UsageBad
  <2>8. ~ stream'.done
    BY <1>2, <2>3, <2>5, StreamAfter
  <2>9. stream'.invalid => ~ AllValid(states)
    <3>1. stream'.invalid = \/ stream.invalid
                            \/ stream.done \/ (f.kind = "chunk" /\ Held(states, f.choice, NewState).reasons # <<>>)
                            \/ f.kind = "broken" \/ UsageBad(f)
                            \/ f.kind = "done" /\ ~ AllValid(states)
      BY <2>5, StreamAfter
    <3>2. QED
      BY <1>2, <2>3, <2>7, <3>1
  <2>10. AllTold(completion)' /\ AllValid(states)' = AllValid(states)
    BY <1>1, <2>6 DEF AllTold, AllValid
  <2>11. QED
    BY <2>5, <2>6, <2>8, <2>9, <2>10 DEF AtEnd
<1>6. QED
  BY <1>4, <1>5

\* The check of a stream and the check of a buffered body ask the same of a choice.
FineAlone(choice) ==
  /\ choice.calls = <<>> \/ ValidCalls(choice.calls)
  /\ Visible(choice.text) \/ ValidCalls(choice.calls)

LEMMA ToldIsValid ==
  ASSUME NEW completion \in Clean, Regular(completion), NEW c \in 1 .. Len(completion.choices),
         NEW s, NEW text, Reached(completion.choices[c], 4, s, text)
  PROVE  ValidCompletion(s) <=> FineAlone(completion.choices[c])
<1> DEFINE choice == completion.choices[c]
           calls == choice.calls
<1>1. /\ choice.text \in {"none", "text"} /\ choice.finish \in Reasons
      /\ calls \in Seq(ToldCalls) /\ DOMAIN calls = 1 .. Len(calls) /\ Len(calls) \in 0 .. MaxSlots
      /\ \A k \in 1 .. Len(calls) : calls[k].id # NoId /\ calls[k] = [id |-> calls[k].id, args |-> <<"whole">>]
  BY ChoiceFacts
<1>2. c \in DOMAIN completion.choices
  BY ChoiceFacts
<1>3. IF calls # <<>> THEN choice.finish = "tool_calls" ELSE choice.finish \in {"none", "stop", "length"}
  BY <1>2 DEF Regular
<1>4. \A i, j \in DOMAIN calls : calls[i].id = calls[j].id => i = j
  <2> DEFINE slots == {x \in (DOMAIN completion.choices) \X (1 .. MaxSlots) : x[2] \in DOMAIN completion.choices[x[1]].calls}
  <2>1. SUFFICES ASSUME NEW i \in DOMAIN calls, NEW j \in DOMAIN calls, calls[i].id = calls[j].id
                 PROVE  i = j
    OBVIOUS
  <2>2. i \in 1 .. MaxSlots /\ j \in 1 .. MaxSlots
    BY <1>1, ContractAssumption
  <2>3. <<c, i>> \in slots /\ <<c, j>> \in slots
    BY <1>2, <2>2
  <2>4. \A x, y \in slots : completion.choices[x[1]].calls[x[2]].id = completion.choices[y[1]].calls[y[2]].id => x = y
    BY DEF Regular
  <2> HIDE DEF slots
  <2>5. <<c, i>> = <<c, j>>
    BY <2>1, <2>3, <2>4
  <2>6. QED
    BY <2>5
<1> HIDE DEF choice
<1>5. /\ s.valid /\ (s.visible <=> choice.text # "none") /\ (s.tools <=> calls # <<>>)
      /\ s.calls = Numbered(calls, Len(calls)) /\ s.reasons = <<EndOf(choice)>>
  BY DEF Reached, choice
<1>6. Len(s.reasons) = 1 /\ s.reasons[1] = EndOf(choice)
  BY <1>5
<1>7. IsObject(<<"whole">>)
  BY DEF IsObject
<1>8. CASE calls # <<>>
  <2>1. EndOf(choice) = "tool_calls"
    BY <1>3, <1>8 DEF EndOf
  <2>2. Len(calls) \in Nat /\ Len(calls) # 0
    BY <1>1, <1>8, EmptySeq, ContractAssumption
  <2>3. DOMAIN s.calls = 0 .. Len(calls) - 1 /\ 0 \in 0 .. Len(calls) - 1
    BY <1>5, <2>2 DEF Numbered
  <2>4. \A k \in DOMAIN s.calls : s.calls[k].id # NoId /\ IsObject(s.calls[k].args)
    <3>1. SUFFICES ASSUME NEW k \in 0 .. Len(calls) - 1
                   PROVE  s.calls[k].id # NoId /\ IsObject(s.calls[k].args)
      BY <2>3
    <3>2. s.calls[k] = calls[k + 1] /\ k + 1 \in 1 .. Len(calls)
      BY <1>5, <2>2 DEF Numbered
    <3>3. calls[k + 1].id # NoId /\ calls[k + 1] = [id |-> calls[k + 1].id, args |-> <<"whole">>]
      BY <1>1, <3>2
    <3>4. calls[k + 1].args = <<"whole">>
      BY <3>3
    <3>5. QED
      BY <1>7, <3>2, <3>3, <3>4
  <2>5. ValidCompletion(s)
    BY <1>5, <1>6, <1>8, <2>1, <2>3, <2>4 DEF ValidCompletion, Completed
  <2>6. \A k \in DOMAIN calls : calls[k].id # NoId /\ IsObject(calls[k].args)
    <3>1. SUFFICES ASSUME NEW k \in 1 .. Len(calls)
                   PROVE  calls[k].id # NoId /\ IsObject(calls[k].args)
      BY <1>1
    <3>2. calls[k].id # NoId /\ calls[k] = [id |-> calls[k].id, args |-> <<"whole">>]
      BY <1>1
    <3>3. calls[k].args = <<"whole">>
      BY <3>2
    <3>4. QED
      BY <1>7, <3>2, <3>3
  <2> HIDE DEF calls
  <2>7. ValidCalls(calls)
    BY <1>4, <1>8, <2>6 DEF ValidCalls
  <2>8. QED
    BY <2>5, <2>7 DEF FineAlone, choice, calls
<1>9. CASE calls = <<>>
  <2>1. EndOf(choice) \in {"stop", "length"}
    BY <1>3, <1>9 DEF EndOf
  <2>2. ValidCompletion(s) <=> choice.text # "none"
    BY <1>5, <1>6, <1>9, <2>1 DEF ValidCompletion
  <2>3. Visible(choice.text) <=> choice.text # "none"
    BY <1>1 DEF Visible
  <2>4. ~ ValidCalls(calls)
    BY <1>9 DEF ValidCalls
  <2>5. QED
    BY <1>9, <2>2, <2>3, <2>4 DEF FineAlone, choice
<1>10. QED
  BY <1>8, <1>9

\* What the check asks at the end of the body.
FailsAtEnd(s) ==
  \/ /\ s.tools \/ \E i \in DOMAIN s.reasons : s.reasons[i] = "tool_calls"
     /\ ~s.valid \/ ~Completed(s.calls) \/ s.reasons # <<"tool_calls">>
  \/ ~s.visible /\ ~Completed(s.calls)
  \/ s.visible /\ ~s.tools /\ ~ValidCompletion(s)

LEMMA ValidPasses ==
  ASSUME NEW s \in ChoiceStates, ValidCompletion(s)
  PROVE  ~ FailsAtEnd(s)
<1>1. s.reasons \in Seq(Reasons) /\ Len(s.reasons) = 1
  BY DEF ChoiceStates, ValidCompletion
<1>2. s.reasons = <<s.reasons[1]>> /\ DOMAIN s.reasons = {1}
  <2>1. DOMAIN s.reasons = 1 .. 1
    BY <1>1, LenProperties
  <2>2. 1 .. 1 = {1}
    OBVIOUS
  <2>3. s.reasons = <<s.reasons[1]>>
    BY <1>1
  <2>4. QED
    BY <2>1, <2>2, <2>3
<1>3. CASE s.tools
  <2>1. s.valid /\ Completed(s.calls) /\ s.reasons[1] = "tool_calls"
    BY <1>3 DEF ValidCompletion
  <2>2. s.reasons = <<"tool_calls">>
    BY <1>2, <2>1
  <2>3. QED
    BY <1>3, <2>1, <2>2, Zenon DEF FailsAtEnd
<1>4. CASE ~ s.tools
  <2>1. s.visible /\ s.reasons[1] \in {"stop", "length"}
    BY <1>4 DEF ValidCompletion
  <2>2. ~ \E i \in DOMAIN s.reasons : s.reasons[i] = "tool_calls"
    BY <1>2, <2>1
  <2>3. QED
    BY <1>4, <2>1, <2>2, Zenon DEF FailsAtEnd
<1>5. QED
  BY <1>3, <1>4

\* The verdict on an emission.
LEMMA VerdictIsFair ==
  ASSUME StreamInv, NEW completion \in Clean, Regular(completion), completion.choices # <<>>, Over(completion), Judge
  PROVE  /\ (verdict' = "accepted") <=> BufferedAccepted(completion.choices)
         /\ \A c \in DOMAIN completion.choices :
              /\ got[c - 1].text = completion.choices[c].text
              /\ \A i \in DOMAIN completion.choices[c].calls :
                   got[c - 1].calls[i - 1] = completion.choices[c].calls[i]
<1> DEFINE choices == completion.choices
           last == Len(choices)
<1>1. last \in Nat /\ last # 0 /\ DOMAIN choices = 1 .. last
  <2>1. choices \in Seq(ToldChoices)
    BY DEF Clean, Told
  <2>2. QED
    BY <2>1, EmptySeq, LenProperties
<1>2. DOMAIN states = 0 .. last - 1 /\ \A c \in DOMAIN states : Reached(choices[c + 1], 4, states[c], got[c].text)
  BY DEF Over, AllTold
<1>3. DOMAIN states # {}
  <2> HIDE DEF last
  <2>1. 0 \in 0 .. last - 1
    BY <1>1
  <2>2. QED
    BY <1>2, <2>1
<1>4. \A c \in DOMAIN states : states[c] \in ChoiceStates
  BY DEF StreamInv, Tables
<1>5. stream.done /\ (stream.invalid <=> ~ AllValid(states))
  BY DEF Over
<1>6. verdict' = IF \/ DOMAIN states = {} \/ stream.invalid \/ ~stream.done
                    \/ \E c \in DOMAIN states : FailsAtEnd(states[c])
                 THEN "rejected" ELSE "accepted"
  <2> DEFINE invalidTools(s) ==
               /\ s.tools \/ \E i \in DOMAIN s.reasons : s.reasons[i] = "tool_calls"
               /\ ~s.valid \/ ~Completed(s.calls) \/ s.reasons # <<"tool_calls">>
             empty(s) == ~s.visible /\ ~Completed(s.calls)
  <2>1. verdict' = IF \/ DOMAIN states = {} \/ stream.invalid \/ ~stream.done
                      \/ \E c \in DOMAIN states :
                           \/ invalidTools(states[c]) \/ empty(states[c])
                           \/ states[c].visible /\ ~states[c].tools /\ ~ValidCompletion(states[c])
                   THEN "rejected" ELSE "accepted"
    BY Zenon DEF Judge
  <2>2. \A c \in DOMAIN states :
          FailsAtEnd(states[c])
            <=> \/ invalidTools(states[c]) \/ empty(states[c])
                \/ states[c].visible /\ ~states[c].tools /\ ~ValidCompletion(states[c])
    BY Zenon DEF FailsAtEnd
  <2> HIDE DEF invalidTools, empty
  <2>3. QED
    BY <2>1, <2>2, Zenon
<1>7. (verdict' = "accepted") <=> AllValid(states)
  <2>1. AllValid(states) => \A c \in DOMAIN states : ~ FailsAtEnd(states[c])
    BY <1>4, ValidPasses DEF AllValid
  <2>2. "accepted" # "rejected"
    OBVIOUS
  <2>3. QED
    BY <1>3, <1>5, <1>6, <2>1, <2>2, Zenon
<1>8. \A c \in 1 .. last : ValidCompletion(states[c - 1]) <=> FineAlone(choices[c])
  <2>1. SUFFICES ASSUME NEW c \in 1 .. last
                 PROVE  ValidCompletion(states[c - 1]) <=> FineAlone(choices[c])
    OBVIOUS
  <2>2. c - 1 \in 0 .. last - 1 /\ (c - 1) + 1 = c
    BY <1>1
  <2>3. Reached(choices[c], 4, states[c - 1], got[c - 1].text)
    BY <1>2, <2>2
  <2>4. QED
    BY <2>3, ToldIsValid
<1> HIDE DEF choices, last
<1>9. AllValid(states) <=> BufferedAccepted(choices)
  <2>1. AllValid(states) <=> \A c \in 1 .. last : ValidCompletion(states[c - 1])
    <3>1. \A c \in 0 .. last - 1 : c + 1 \in 1 .. last /\ (c + 1) - 1 = c
      BY <1>1
    <3>2. \A c \in 1 .. last : c - 1 \in 0 .. last - 1
      BY <1>1
    <3>3. QED
      BY <1>2, <3>1, <3>2 DEF AllValid
  <2>2. BufferedAccepted(choices) <=> \A c \in 1 .. last : FineAlone(choices[c])
    <3>1. choices # <<>>
      BY DEF choices
    <3>2. QED
      BY <1>1, <3>1, Zenon DEF BufferedAccepted, FineAlone
  <2>3. QED
    BY <1>8, <2>1, <2>2
<1>10. ASSUME NEW c \in DOMAIN choices
       PROVE  got[c - 1].text = choices[c].text
              /\ \A i \in DOMAIN choices[c].calls : got[c - 1].calls[i - 1] = choices[c].calls[i]
  <2> DEFINE s == states[c - 1]
             g == got[c - 1]
             calls == choices[c].calls
  <2>1. c \in 1 .. last /\ c - 1 \in DOMAIN states /\ (c - 1) + 1 = c
    BY <1>1, <1>2
  <2>2. Reached(choices[c], 4, s, g.text)
    BY <1>2, <2>1
  <2>3. Alike(c - 1, s, toolIds, g)
    BY <2>1 DEF StreamInv
  <2> HIDE DEF s, g
  <2>4. s.valid /\ s.calls = Numbered(calls, Len(calls)) /\ g.text = choices[c].text
    BY <2>2 DEF Reached
  <2>5. \A k \in DOMAIN s.calls : g.calls[k] = s.calls[k]
    BY <2>3, <2>4 DEF Alike, Follows
  <2>6. DOMAIN calls = 1 .. Len(calls) /\ Len(calls) \in 0 .. MaxSlots
    BY <2>1, ChoiceFacts DEF choices, last
  <2>7. ASSUME NEW i \in DOMAIN calls
        PROVE  g.calls[i - 1] = calls[i]
    <3>1. i - 1 \in 0 .. Len(calls) - 1 /\ (i - 1) + 1 = i
      BY <2>6, ContractAssumption
    <3>2. DOMAIN s.calls = 0 .. Len(calls) - 1 /\ s.calls[i - 1] = calls[(i - 1) + 1]
      BY <2>4, <3>1 DEF Numbered
    <3>3. QED
      BY <2>5, <3>1, <3>2
  <2>8. QED
    BY <2>4, <2>7 DEF g
<1>11. QED
  BY <1>7, <1>9, <1>10 DEF choices

\* The invariant of an emission.
Emitting(completion) == (\E n, j \in Nat : Inside(completion, n, j)) \/ AtEnd(completion) \/ Over(completion)
EmissionInv ==
  /\ given # <<>> =>
       /\ given[1] \in Clean /\ given[1].choices # <<>>
       /\ verdict = "open" /\ Regular(given[1]) => Mine(given[1], toolIds) /\ Emitting(given[1])
  /\ ReemissionSaysTheSame

LEMMA EmissionBegins == ContractInit => EmissionInv
<1>1. SUFFICES ASSUME ContractInit
               PROVE  EmissionInv
  OBVIOUS
<1>2. ReemissionSaysTheSame
  BY <1>1 DEF ContractInit, ReemissionSaysTheSame
<1>3. ASSUME NEW completion \in Clean, completion.choices # <<>>, given = <<completion>>, feed = Reemitted(completion)
      PROVE  EmissionInv
  <2>1. states = <<>> /\ toolIds = <<>> /\ stream = [done |-> FALSE, invalid |-> FALSE, usageSeen |-> FALSE]
    BY <1>1 DEF ContractInit
  <2>2. given[1] = completion
    BY <1>3
  <2>3. Mine(completion, toolIds)
    BY <2>1 DEF Mine
  <2>4. 0 \in 0 .. Len(completion.choices) - 1 /\ 0 \in 0 .. 4 /\ 0 \in Nat
    <3>1. completion.choices \in Seq(ToldChoices)
      BY DEF Clean, Told
    <3>2. Len(completion.choices) \in Nat /\ Len(completion.choices) # 0
      BY <1>3, <3>1, EmptySeq, LenProperties
    <3>3. QED
      BY <3>2
  <2>5. feed = Pending(completion, 0, 0)
    <3>1. 0 \in 0 .. Len(completion.choices) - 1
      BY <2>4
    <3>2. ToCome(completion, 0) = Reemitted(completion) /\ ToCome(completion, 0) = Pending(completion, 0, 0)
      BY <3>1, ToComeFacts
    <3>3. QED
      BY <1>3, <3>2
  <2>6. DOMAIN states = {} /\ 0 .. 0 - 1 = {}
    BY <2>1
  <2>7. Inside(completion, 0, 0)
    BY <2>1, <2>4, <2>5, <2>6 DEF Inside
  <2>8. QED
    BY <1>2, <1>3, <2>2, <2>3, <2>4, <2>7 DEF EmissionInv, Emitting
<1>4. CASE feed = <<>> /\ given = <<>>
  BY <1>2, <1>4 DEF EmissionInv
<1>5. CASE \E completion \in CodexCompletions : given = <<completion>> /\ feed = Reemitted(completion)
  <2>1. PICK completion \in CodexCompletions : given = <<completion>> /\ feed = Reemitted(completion)
    BY <1>5
  <2>2. completion.choices # <<>>
    BY CodexHasOne
  <2>3. completion \in Clean
    BY CodexIsClean
  <2>4. QED
    BY <1>3, <2>1, <2>2, <2>3
<1>6. CASE \E completion \in Completions :
             LET clean == [completion EXCEPT !.choices = [c \in DOMAIN @ |-> Sanitized(@[c])]] IN
             BufferedAccepted(clean.choices) /\ given = <<clean>> /\ feed = Reemitted(clean)
  <2>1. PICK completion \in Completions :
             LET clean == [completion EXCEPT !.choices = [c \in DOMAIN @ |-> Sanitized(@[c])]] IN
             BufferedAccepted(clean.choices) /\ given = <<clean>> /\ feed = Reemitted(clean)
    BY <1>6, Zenon
  <2> DEFINE clean == [completion EXCEPT !.choices = [c \in DOMAIN @ |-> Sanitized(@[c])]]
  <2>2. clean \in Clean
    BY CleanedIsClean
  <2>3. BufferedAccepted(clean.choices) /\ given = <<clean>> /\ feed = Reemitted(clean)
    BY <2>1, Zenon
  <2> HIDE DEF clean
  <2>4. clean.choices # <<>>
    BY <2>3 DEF BufferedAccepted
  <2>5. QED
    BY <1>3, <2>2, <2>3, <2>4
<1>7. QED
  BY <1>1, <1>4, <1>5, <1>6, Zenon DEF ContractInit

LEMMA EmissionStays == StreamInv /\ EmissionInv /\ [ContractNext]_contractVars => EmissionInv'
<1>1. SUFFICES ASSUME StreamInv, EmissionInv, [ContractNext]_contractVars
               PROVE  EmissionInv'
  OBVIOUS
<1>2. CASE UNCHANGED contractVars
  <2>1. given' = given /\ verdict' = verdict /\ toolIds' = toolIds /\ feed' = feed /\ states' = states
        /\ got' = got /\ stream' = stream
    BY <1>2 DEF contractVars
  <2>2. ReemissionSaysTheSame'
    BY <1>1, <2>1 DEF EmissionInv, ReemissionSaysTheSame
  <2>3. ASSUME NEW completion, Emitting(completion)
        PROVE  Emitting(completion)'
    BY <2>1, <2>3 DEF Emitting, Inside, AtEnd, Over, AllTold, AllValid
  <2>4. QED
    <3>1. CASE given = <<>>
      BY <2>1, <2>2, <3>1 DEF EmissionInv
    <3>2. CASE given # <<>>
      <4>1. PICK completion \in Clean : completion = given[1]
        BY <1>1, <3>2 DEF EmissionInv
      <4>2. Emitting(completion) => Emitting(completion)'
        BY <2>3
      <4>3. given'[1] = completion
        BY <2>1, <4>1
      <4>4. QED
        BY <1>1, <2>1, <2>2, <3>2, <4>1, <4>2, <4>3 DEF EmissionInv
    <3>3. QED
      BY <3>1, <3>2
<1>3. CASE \E f \in UpstreamFrames : TakeUpstream(f)
  <2>1. given = <<>> /\ given' = <<>>
    BY <1>3 DEF TakeUpstream, Take
  <2>2. QED
    BY <2>1 DEF EmissionInv, ReemissionSaysTheSame
<1>4. CASE TakeReemitted
  <2>1. verdict = "open" /\ verdict' = "open" /\ given' = given /\ feed # <<>>
    BY <1>4 DEF TakeReemitted, Take
  <2>2. ReemissionSaysTheSame'
    BY <2>1 DEF ReemissionSaysTheSame
  <2>3. CASE given = <<>>
    BY <2>1, <2>2, <2>3 DEF EmissionInv
  <2>4. CASE given # <<>>
    <3>1. PICK completion \in Clean : completion = given[1]
      BY <1>1, <2>4 DEF EmissionInv
    <3>2. completion.choices # <<>>
      BY <1>1, <2>4, <3>1 DEF EmissionInv
    <3>3. ASSUME Regular(completion)
          PROVE  Mine(completion, toolIds') /\ Emitting(completion)'
      <4>1. Mine(completion, toolIds) /\ Emitting(completion)
        BY <1>1, <2>1, <2>4, <3>1, <3>3 DEF EmissionInv
      <4>2. CASE \E n, j \in Nat : Inside(completion, n, j)
        <5>1. PICK n \in Nat, j \in Nat : /\ Inside(completion, n, j)
                                         /\ \/ j \in 0 .. 3 /\ ~ Skipped(completion.choices[n + 1], j)
                                            \/ j = 4 /\ n = Len(completion.choices) - 1
          BY <4>2, InsideAtFrame
        <5>2. CASE j \in 0 .. 3 /\ ~ Skipped(completion.choices[n + 1], j)
          <6>1. Inside(completion, n, j + 1)' /\ Mine(completion, toolIds')
            BY <1>1, <1>4, <3>3, <4>1, <5>1, <5>2, InsideTakes
          <6>2. j + 1 \in Nat
            OBVIOUS
          <6>3. QED
            BY <6>1, <6>2 DEF Emitting
        <5>3. CASE j = 4 /\ n = Len(completion.choices) - 1
          <6>1. Inside(completion, Len(completion.choices) - 1, 4)
            BY <5>1, <5>3
          <6>2. (AtEnd(completion) \/ Over(completion))' /\ toolIds' = toolIds
            BY <1>4, <3>2, <3>3, <6>1, LastTakes
          <6>3. QED
            BY <4>1, <6>2 DEF Emitting
        <5>4. QED
          BY <5>1, <5>2, <5>3
      <4>3. CASE AtEnd(completion)
        BY <1>4, <4>1, <4>3, EndTakes DEF Emitting
      <4>4. CASE Over(completion)
        BY <2>1, <4>4 DEF Over
      <4>5. QED
        BY <4>1, <4>2, <4>3, <4>4 DEF Emitting
    <3>4. given'[1] = completion
      BY <2>1, <3>1
    <3>5. QED
      BY <2>1, <2>2, <3>1, <3>2, <3>3, <3>4 DEF EmissionInv
  <2>5. QED
    BY <2>3, <2>4
<1>5. CASE Judge
  <2>1. /\ verdict = "open" /\ verdict' # "open" /\ feed = <<>>
        /\ given' = given /\ got' = got
    BY <1>5 DEF Judge
  <2>2. CASE given = <<>>
    BY <2>1, <2>2 DEF EmissionInv, ReemissionSaysTheSame
  <2>3. CASE given # <<>>
    <3>1. PICK completion \in Clean : completion = given[1]
      BY <1>1, <2>3 DEF EmissionInv
    <3>2. completion.choices # <<>>
      BY <1>1, <2>3, <3>1 DEF EmissionInv
    <3>3. ASSUME Regular(completion)
          PROVE  Over(completion)
      <4>1. Emitting(completion)
        BY <1>1, <2>1, <2>3, <3>1, <3>3 DEF EmissionInv
      <4>2. ~ AtEnd(completion)
        BY <2>1 DEF AtEnd
      <4>3. ~ \E n, j \in Nat : Inside(completion, n, j)
        <5>1. SUFFICES ASSUME \E n, j \in Nat : Inside(completion, n, j)
                       PROVE  FALSE
          OBVIOUS
        <5>2. PICK n \in Nat, j \in Nat : /\ Inside(completion, n, j)
                                         /\ \/ j \in 0 .. 3 /\ ~ Skipped(completion.choices[n + 1], j)
                                            \/ j = 4 /\ n = Len(completion.choices) - 1
          BY <5>1, InsideAtFrame
        <5>3. CASE j \in 0 .. 3 /\ ~ Skipped(completion.choices[n + 1], j)
          <6>1. n \in 0 .. Len(completion.choices) - 1 /\ feed = Pending(completion, n, j)
            BY <5>2 DEF Inside
          <6>2. Pending(completion, n, j) # <<>>
            BY <5>3, <6>1, PendingFacts
          <6>3. QED
            BY <2>1, <6>1, <6>2
        <5>4. CASE j = 4 /\ n = Len(completion.choices) - 1
          <6>1. Inside(completion, Len(completion.choices) - 1, 4)
            BY <5>2, <5>4
          <6>2. feed = Ends(completion)
            BY <3>2, <6>1, LastIsTold
          <6>3. Ends(completion) # <<>>
            BY DEF Ends
          <6>4. QED
            BY <2>1, <6>2, <6>3
        <5>5. QED
          BY <5>2, <5>3, <5>4
      <4>4. QED
        BY <4>1, <4>2, <4>3 DEF Emitting
    <3>4. given'[1] = completion
      BY <2>1, <3>1
    <3>5. ASSUME Regular(completion)
          PROVE  /\ (verdict' = "accepted") <=> BufferedAccepted(completion.choices)
                 /\ \A c \in DOMAIN completion.choices :
                      /\ got[c - 1].text = completion.choices[c].text
                      /\ \A i \in DOMAIN completion.choices[c].calls :
                           got[c - 1].calls[i - 1] = completion.choices[c].calls[i]
      BY <1>1, <1>5, <3>2, <3>3, <3>5, VerdictIsFair
    <3>6. ReemissionSaysTheSame'
      BY <2>1, <3>4, <3>5 DEF ReemissionSaysTheSame
    <3>7. QED
      BY <2>1, <3>1, <3>2, <3>4, <3>6 DEF EmissionInv
  <2>4. QED
    BY <2>2, <2>3
<1>6. QED
  BY <1>1, <1>2, <1>3, <1>4, <1>5 DEF ContractNext

\* A client that asked for a stream gets what any other client gets: a regular completion
\* that is emitted again frame by frame is accepted as a stream if and only if it is
\* accepted as a buffered body, and what the client puts together says the same text and
\* the same calls.  routeAndSend() in src/src/proxy/router.mjs, _openaiJsonToSSE() in
\* src/src/proxy/stream.mjs, fromCodexResponse() in src/src/proxy/codex-adapter.mjs.
THEOREM ReemissionIsFaithful == ContractSpec => []ReemissionSaysTheSame
<1>1. EmissionInv => ReemissionSaysTheSame
  BY DEF EmissionInv
<1>2. QED
  BY <1>1, StreamInvInit, StreamInvStays, EmissionBegins, EmissionStays, PTL DEF ContractSpec

-----------------------------------------------------------------------------
(* HistoryTrim.  Wherever a tail of a conversation is cut, a result has    *)
(* its call before it, or stands in the run the cut left at the front: of  *)
(* such a line the repair leaves whole pairs only, and putting whole       *)
(* pieces together, one after the other, breaks none.                      *)

Roles == {"system", "user", "assistant", "tool"}
Callables == Nat \X Nat
\* Only the assistant makes calls.
Said == {m \in [role : Roles, calls : SUBSET Callables, answers : Callables \cup {<<>>}, at : Nat] :
           m.calls # {} => m.role = "assistant"}

\* A tool result stands in the run after the message whose call it answers.
Answers(s, i) == \E c \in 1 .. i - 1 : i \in ToolsAfter(s, c) /\ s[i].answers \in s[c].calls
Rooted(s) == \A i \in DOMAIN s : IsTool(s[i]) => Answers(s, i)
\* The same, where the front may have been cut off.
Linked(s) == \A i \in DOMAIN s : IsTool(s[i]) => i \in ToolsAfter(s, 0) \/ Answers(s, i)
Paired(s) == Rooted(s) /\ \A i \in DOMAIN s : CallsAnswered(s, i)

LEMMA SaidFacts ==
  ASSUME NEW s \in Seq(Said)
  PROVE  /\ Len(s) \in Nat /\ DOMAIN s = 1 .. Len(s)
         /\ \A i \in DOMAIN s : s[i] \in Said
         /\ \A i \in DOMAIN s : s[i].calls # {} => ~ IsTool(s[i]) /\ s[i].role # "system"
<1>1. Len(s) \in Nat /\ DOMAIN s = 1 .. Len(s) /\ \A i \in DOMAIN s : s[i] \in Said
  BY LenProperties, ElementOfSeq
<1>2. \A m \in Said : m.calls # {} => ~ IsTool(m) /\ m.role # "system"
  BY DEF Said, IsTool
<1>3. QED
  BY <1>1, <1>2

\* The places h of s in I are those of p, in their order.
Places(p, h, s, I) ==
  /\ \A j \in DOMAIN p : h[j] \in DOMAIN s \cap I /\ p[j] = s[h[j]]
  /\ \A i, j \in DOMAIN p : i < j => h[i] < h[j]
  /\ \A i \in DOMAIN s \cap I : \E j \in DOMAIN p : h[j] = i

LEMMA PickWhere ==
  ASSUME NEW s \in Seq(Said), NEW I
  PROVE  /\ Pick(s, I) \in Seq(Said)
         /\ \E h : Places(Pick(s, I), h, s, I)
<1>1. Pick(s, I) = Picked(s, I)
  BY DEF Pick, Picked
<1>2. Pick(s, I) \in Seq(Said)
  BY <1>1, PickedFacts
<1>3. PICK h : PicksBy(Pick(s, I), h, s, I, Len(s))
  BY <1>1, PickedFacts
<1>4. DOMAIN Pick(s, I) = 1 .. Len(Pick(s, I)) /\ DOMAIN s = 1 .. Len(s)
  BY <1>2, SaidFacts
<1> DEFINE p == Pick(s, I)
<1> HIDE DEF p
<1>5. /\ h \in [1 .. Len(p) -> 1 .. Len(s)]
      /\ \A j \in 1 .. Len(p) : h[j] \in I /\ p[j] = s[h[j]]
      /\ \A i, j \in 1 .. Len(p) : i < j => h[i] < h[j]
      /\ \A i \in 1 .. Len(s) : i \in I => \E j \in 1 .. Len(p) : h[j] = i
  BY <1>3 DEF PicksBy, p
<1>6. Places(p, h, s, I)
  BY <1>4, <1>5 DEF Places, p
<1>7. QED
  BY <1>2, <1>6 DEF p

\* A run of results stays one.
LEMMA RunStays ==
  ASSUME NEW s \in Seq(Said), NEW I, NEW p \in Seq(Said), NEW h,
         \A j \in DOMAIN p : h[j] \in DOMAIN s \cap I /\ p[j] = s[h[j]],
         \A i, j \in DOMAIN p : i < j => h[i] < h[j]
  PROVE  /\ \A i, j \in DOMAIN p : h[j] \in ToolsAfter(s, h[i]) => i < j /\ j \in ToolsAfter(p, i)
         /\ \A j \in DOMAIN p : h[j] \in ToolsAfter(s, 0) => j \in ToolsAfter(p, 0)
<1>1. /\ DOMAIN p = 1 .. Len(p) /\ Len(p) \in Nat
      /\ DOMAIN s = 1 .. Len(s) /\ Len(s) \in Nat
  BY SaidFacts
<1>2. \A j \in DOMAIN p : h[j] \in 1 .. Len(s) /\ p[j] = s[h[j]]
  BY <1>1
<1>3. ASSUME NEW i \in DOMAIN p, NEW j \in DOMAIN p, h[j] \in ToolsAfter(s, h[i])
      PROVE  i < j /\ j \in ToolsAfter(p, i)
  <2>1. h[i] < h[j] /\ \A k \in h[i] + 1 .. h[j] : IsTool(s[k])
    BY <1>1, <1>2, <1>3 DEF ToolsAfter
  <2>2. i < j
    <3>1. i = j \/ j < i \/ i < j
      BY <1>1
    <3>2. j < i => h[j] < h[i]
      OBVIOUS
    <3>3. QED
      BY <1>2, <1>1, <2>1, <3>1, <3>2
  <2>3. ASSUME NEW k \in i + 1 .. j
        PROVE  IsTool(p[k])
    <3>1. k \in DOMAIN p /\ i < k /\ (k = j \/ k < j)
      BY <1>1
    <3>2. h[i] < h[k] /\ (k = j \/ h[k] < h[j])
      BY <3>1
    <3>3. h[k] \in h[i] + 1 .. h[j]
      BY <1>1, <1>2, <3>1, <3>2
    <3>4. QED
      BY <1>2, <2>1, <3>1, <3>3
  <2>4. QED
    BY <1>1, <2>2, <2>3 DEF ToolsAfter
<1>4. ASSUME NEW j \in DOMAIN p, h[j] \in ToolsAfter(s, 0)
      PROVE  j \in ToolsAfter(p, 0)
  <2>1. \A k \in 1 .. h[j] : IsTool(s[k])
    BY <1>1, <1>2, <1>4 DEF ToolsAfter
  <2>2. ASSUME NEW k \in 1 .. j
        PROVE  IsTool(p[k])
    <3>1. k \in DOMAIN p /\ (k = j \/ k < j)
      BY <1>1
    <3>2. k = j \/ h[k] < h[j]
      BY <3>1
    <3>3. h[k] \in 1 .. h[j]
      BY <1>1, <1>2, <3>1, <3>2
    <3>4. QED
      BY <1>2, <2>1, <3>1, <3>3
  <2>3. QED
    BY <1>1, <2>2 DEF ToolsAfter
<1>5. QED
  BY <1>3, <1>4

\* Results are picked with their callers.
LEMMA PickRooted ==
  ASSUME NEW s \in Seq(Said), NEW I,
         \A j \in DOMAIN s \cap I :
           IsTool(s[j]) => \E c \in I \cap (1 .. j - 1) : j \in ToolsAfter(s, c) /\ s[j].answers \in s[c].calls
  PROVE  Rooted(Pick(s, I))
<1> DEFINE p == Pick(s, I)
<1>0. PICK h : Places(p, h, s, I)
  BY PickWhere
<1>2. p \in Seq(Said)
  BY PickWhere
<1> HIDE DEF p
<1>1. /\ \A j \in DOMAIN p : h[j] \in DOMAIN s \cap I /\ p[j] = s[h[j]]
      /\ \A i, j \in DOMAIN p : i < j => h[i] < h[j]
      /\ \A i \in DOMAIN s \cap I : \E j \in DOMAIN p : h[j] = i
  BY <1>0 DEF Places
<1>3. /\ DOMAIN p = 1 .. Len(p) /\ Len(p) \in Nat
      /\ DOMAIN s = 1 .. Len(s) /\ Len(s) \in Nat
  BY <1>2, SaidFacts
<1>4. ASSUME NEW j \in DOMAIN p, IsTool(p[j])
      PROVE  Answers(p, j)
  <2>1. h[j] \in DOMAIN s \cap I /\ p[j] = s[h[j]]
    BY <1>1
  <2>2. PICK c \in I \cap (1 .. h[j] - 1) : h[j] \in ToolsAfter(s, c) /\ s[h[j]].answers \in s[c].calls
    BY <2>1, <1>4
  <2>3. c \in DOMAIN s \cap I
    BY <1>3, <2>1, <2>2
  <2>4. PICK i \in DOMAIN p : h[i] = c
    BY <1>1, <2>3
  <2>5. i < j /\ j \in ToolsAfter(p, i)
    BY <1>1, <1>2, <2>2, <2>4, RunStays
  <2>6. p[i] = s[c]
    BY <1>1, <2>4
  <2>7. i \in 1 .. j - 1
    BY <1>3, <2>5
  <2>8. QED
    BY <2>1, <2>2, <2>5, <2>6, <2>7 DEF Answers
<1>5. QED
  BY <1>4 DEF Rooted, p

\* Callers are picked with all their results.
LEMMA PickAnswered ==
  ASSUME NEW s \in Seq(Said), NEW I,
         \A j \in DOMAIN s \cap I : s[j].calls \subseteq {s[k].answers : k \in ToolsAfter(s, j) \cap I}
  PROVE  \A j \in DOMAIN Pick(s, I) : CallsAnswered(Pick(s, I), j)
<1> DEFINE p == Pick(s, I)
<1>0. PICK h : Places(p, h, s, I)
  BY PickWhere
<1>2. p \in Seq(Said)
  BY PickWhere
<1> HIDE DEF p
<1>1. /\ \A j \in DOMAIN p : h[j] \in DOMAIN s \cap I /\ p[j] = s[h[j]]
      /\ \A i, j \in DOMAIN p : i < j => h[i] < h[j]
      /\ \A i \in DOMAIN s \cap I : \E j \in DOMAIN p : h[j] = i
  BY <1>0 DEF Places
<1>3. ASSUME NEW j \in DOMAIN p, NEW call \in p[j].calls
      PROVE  call \in {p[k].answers : k \in ToolsAfter(p, j)}
  <2>1. h[j] \in DOMAIN s \cap I /\ p[j] = s[h[j]]
    BY <1>1
  <2>2. PICK k \in ToolsAfter(s, h[j]) \cap I : s[k].answers = call
    BY <1>3, <2>1
  <2>3. k \in DOMAIN s \cap I
    BY <2>1, <2>2, SaidFacts DEF ToolsAfter
  <2>4. PICK i \in DOMAIN p : h[i] = k
    BY <1>1, <2>3
  <2>5. i \in ToolsAfter(p, j)
    BY <1>1, <1>2, <2>2, <2>4, RunStays
  <2>6. p[i].answers = call
    BY <1>1, <2>2, <2>4
  <2>7. QED
    BY <2>5, <2>6
<1>4. QED
  BY <1>3 DEF CallsAnswered, p

-----------------------------------------------------------------------------
\* The repair pairs whatever was cut out of a conversation.
LEMMA RepairPairs ==
  ASSUME NEW s \in Seq(Said), Linked(s)
  PROVE  Repair(s) \in Seq(Said) /\ Paired(Repair(s))
<1> DEFINE partial == {i \in DOMAIN s : ~ CallsAnswered(s, i)}
           gone == ToolsAfter(s, 0) \cup partial \cup UNION {ToolsAfter(s, i) : i \in partial}
           I == DOMAIN s \ gone
<1>1. Repair(s) = Pick(s, I)
  BY DEF Repair
<1>2. Repair(s) \in Seq(Said)
  BY <1>1, PickWhere
<1>3. /\ Len(s) \in Nat /\ DOMAIN s = 1 .. Len(s)
      /\ \A i \in DOMAIN s : s[i].calls # {} => ~ IsTool(s[i])
  BY SaidFacts
<1>4. \A i, k \in Nat : k \in ToolsAfter(s, i) => IsTool(s[k]) /\ i < k /\ k \in DOMAIN s
  BY <1>3 DEF ToolsAfter
<1>5. ASSUME NEW i \in DOMAIN s, s[i].calls # {}, CallsAnswered(s, i)
      PROVE  i \in I
  <2>1. ~ IsTool(s[i]) /\ i \notin partial
    BY <1>3, <1>5
  <2>2. \A k \in Nat : i \notin ToolsAfter(s, k)
    BY <1>3, <1>4, <2>1
  <2>3. i \notin ToolsAfter(s, 0) /\ \A k \in partial : i \notin ToolsAfter(s, k)
    BY <1>3, <2>2
  <2> HIDE DEF partial
  <2>4. i \notin UNION {ToolsAfter(s, k) : k \in partial}
    BY <2>3
  <2>5. QED
    BY <2>1, <2>3, <2>4
<1>6. ASSUME NEW i \in DOMAIN s, s[i].calls # {}, CallsAnswered(s, i), NEW k \in ToolsAfter(s, i)
      PROVE  k \in I
  <2>1. k \in DOMAIN s /\ IsTool(s[k]) /\ i < k
    BY <1>3 DEF ToolsAfter
  <2>2. ~ IsTool(s[i])
    BY <1>3, <1>6
  <2>3. k \notin ToolsAfter(s, 0)
    BY <1>3, <2>1, <2>2 DEF ToolsAfter
  <2>4. k \notin partial
    BY <1>3, <2>1 DEF CallsAnswered
  <2>5. ASSUME NEW j \in partial, k \in ToolsAfter(s, j)
        PROVE  FALSE
    <3>1. j \in DOMAIN s /\ s[j].calls # {} /\ ~ CallsAnswered(s, j)
      BY DEF CallsAnswered
    <3>2. j # i /\ ~ IsTool(s[j])
      BY <1>3, <1>6, <3>1
    <3>3. j < k
      BY <1>3, <2>5, <3>1 DEF ToolsAfter
    <3>4. CASE j < i
      BY <1>3, <2>1, <2>2, <2>5, <3>1, <3>4 DEF ToolsAfter
    <3>5. CASE i < j
      BY <1>3, <1>6, <3>1, <3>2, <3>3, <3>5 DEF ToolsAfter
    <3>6. QED
      BY <1>3, <3>1, <3>2, <3>4, <3>5
  <2>6. QED
    BY <2>1, <2>3, <2>4, <2>5
<1>7. ASSUME NEW j \in DOMAIN s \cap I, IsTool(s[j])
      PROVE  \E c \in I \cap (1 .. j - 1) : j \in ToolsAfter(s, c) /\ s[j].answers \in s[c].calls
  <2>1. j \notin ToolsAfter(s, 0)
    OBVIOUS
  <2>2. PICK c \in 1 .. j - 1 : j \in ToolsAfter(s, c) /\ s[j].answers \in s[c].calls
    BY <1>7, <2>1 DEF Linked, Answers
  <2>3. c \in DOMAIN s /\ s[c].calls # {}
    BY <1>3, <2>2
  <2>4. CallsAnswered(s, c)
    BY <2>2, <2>3
  <2>5. c \in I
    BY <1>5, <2>3, <2>4
  <2>6. QED
    BY <2>2, <2>5
<1>8. ASSUME NEW j \in DOMAIN s \cap I
      PROVE  s[j].calls \subseteq {s[k].answers : k \in ToolsAfter(s, j) \cap I}
  <2>1. CallsAnswered(s, j)
    OBVIOUS
  <2>2. CASE s[j].calls = {}
    BY <2>2
  <2>3. CASE s[j].calls # {}
    <3>1. ToolsAfter(s, j) \subseteq I
      BY <1>6, <2>1, <2>3
    <3>2. ToolsAfter(s, j) \cap I = ToolsAfter(s, j)
      BY <3>1
    <3>3. QED
      BY <2>1, <3>2 DEF CallsAnswered
  <2>4. QED
    BY <2>2, <2>3
<1> HIDE DEF I
<1>9. Rooted(Pick(s, I))
  BY <1>7, PickRooted
<1>10. \A j \in DOMAIN Pick(s, I) : CallsAnswered(Pick(s, I), j)
  BY <1>8, PickAnswered
<1>11. QED
  BY <1>1, <1>2, <1>9, <1>10 DEF Paired

\* A tail of a conversation.
LEMMA TailLinked ==
  ASSUME NEW s \in Seq(Said), Rooted(s), NEW n \in Nat
  PROVE  Ending(s, n) \in Seq(Said) /\ Linked(Ending(s, n))
<1> DEFINE a == IF Len(s) > n THEN Len(s) - n + 1 ELSE 1
           e == SubSeq(s, a, Len(s))
<1>1. Len(s) \in Nat /\ DOMAIN s = 1 .. Len(s) /\ \A i \in DOMAIN s : s[i] \in Said
  BY SaidFacts
<1>2. a \in 1 .. Len(s) + 1
  BY <1>1
<1> HIDE DEF a
<1>3. /\ e \in Seq(Said) /\ DOMAIN e = 1 .. Len(s) - a + 1
      /\ \A i \in 1 .. Len(s) - a + 1 : e[i] = s[a + i - 1]
  BY <1>1, <1>2
<1> HIDE DEF e
<1>4. \A c, i \in DOMAIN e : a + i - 1 \in ToolsAfter(s, a + c - 1) => i \in ToolsAfter(e, c)
  <2>1. SUFFICES ASSUME NEW c \in DOMAIN e, NEW i \in DOMAIN e, a + i - 1 \in ToolsAfter(s, a + c - 1)
                 PROVE  i \in ToolsAfter(e, c)
    OBVIOUS
  <2>2. \A k \in (a + c - 1) + 1 .. a + i - 1 : IsTool(s[k])
    BY <2>1 DEF ToolsAfter
  <2>3. c < i
    BY <1>1, <1>2, <1>3, <2>1 DEF ToolsAfter
  <2>4. \A k \in c + 1 .. i : IsTool(e[k])
    <3>1. SUFFICES ASSUME NEW k \in c + 1 .. i
                   PROVE  IsTool(e[k])
      OBVIOUS
    <3>2. a + k - 1 \in (a + c - 1) + 1 .. a + i - 1 /\ k \in 1 .. Len(s) - a + 1
      BY <1>1, <1>2, <1>3
    <3>3. QED
      BY <1>3, <2>2, <3>2
  <2>5. i \in c + 1 .. Len(e)
    BY <1>1, <1>2, <1>3, <2>3
  <2>6. QED
    BY <2>4, <2>5 DEF ToolsAfter
<1>5. ASSUME NEW i \in DOMAIN e, IsTool(e[i])
      PROVE  i \in ToolsAfter(e, 0) \/ Answers(e, i)
  <2>1. a + i - 1 \in DOMAIN s /\ e[i] = s[a + i - 1]
    BY <1>1, <1>2, <1>3
  <2>2. PICK c \in 1 .. (a + i - 1) - 1 : a + i - 1 \in ToolsAfter(s, c) /\ s[a + i - 1].answers \in s[c].calls
    BY <1>5, <2>1 DEF Rooted, Answers
  <2>3. CASE c < a
    <3>1. \A k \in c + 1 .. a + i - 1 : IsTool(s[k])
      BY <2>2 DEF ToolsAfter
    <3>2. \A k \in 1 .. i : IsTool(e[k])
      <4>1. SUFFICES ASSUME NEW k \in 1 .. i
                     PROVE  IsTool(e[k])
        OBVIOUS
      <4>2. a + k - 1 \in c + 1 .. a + i - 1 /\ k \in 1 .. Len(s) - a + 1
        BY <1>1, <1>2, <1>3, <2>3
      <4>3. QED
        BY <1>3, <3>1, <4>2
    <3>3. i \in 0 + 1 .. Len(e)
      BY <1>1, <1>2, <1>3
    <3>4. QED
      BY <3>2, <3>3 DEF ToolsAfter
  <2>4. CASE c >= a
    <3> DEFINE d == c - a + 1
    <3>1. d \in DOMAIN e /\ a + d - 1 = c /\ d \in 1 .. i - 1
      BY <1>1, <1>2, <1>3, <2>2, <2>4
    <3> HIDE DEF d
    <3>2. e[d] = s[c]
      BY <1>3, <3>1
    <3>3. i \in ToolsAfter(e, d)
      BY <1>4, <2>2, <3>1
    <3>4. QED
      BY <2>1, <2>2, <3>1, <3>2, <3>3 DEF Answers
  <2>5. QED
    BY <1>1, <1>2, <2>2, <2>3, <2>4
<1>6. Ending(s, n) = e
  BY DEF Ending, a, e
<1>7. QED
  BY <1>3, <1>5, <1>6 DEF Linked

\* The first messages of a conversation.
LEMMA HeadRooted ==
  ASSUME NEW s \in Seq(Said), Rooted(s), NEW n \in 0 .. Len(s)
  PROVE  SubSeq(s, 1, n) \in Seq(Said) /\ Rooted(SubSeq(s, 1, n))
<1> DEFINE e == SubSeq(s, 1, n)
<1>1. Len(s) \in Nat /\ DOMAIN s = 1 .. Len(s)
  BY SaidFacts
<1>2. e \in Seq(Said) /\ DOMAIN e = 1 .. n /\ Len(e) = n /\ \A i \in 1 .. n : e[i] = s[i]
  BY <1>1
<1> HIDE DEF e
<1>3. ASSUME NEW i \in DOMAIN e, IsTool(e[i])
      PROVE  Answers(e, i)
  <2>1. i \in DOMAIN s /\ e[i] = s[i] /\ i \in 1 .. n
    BY <1>1, <1>2
  <2>2. PICK c \in 1 .. i - 1 : i \in ToolsAfter(s, c) /\ s[i].answers \in s[c].calls
    BY <1>3, <2>1 DEF Rooted, Answers
  <2>3. c \in 1 .. n /\ e[c] = s[c] /\ \A k \in c + 1 .. i : k \in 1 .. n /\ e[k] = s[k]
    BY <1>2, <2>1
  <2>4. i \in ToolsAfter(e, c)
    BY <1>2, <2>1, <2>2, <2>3 DEF ToolsAfter
  <2>5. QED
    BY <2>1, <2>2, <2>3, <2>4 DEF Answers
<1>4. QED
  BY <1>2, <1>3 DEF Rooted, e

\* One piece after another.
LEMMA BothRooted ==
  ASSUME NEW s \in Seq(Said), Rooted(s), NEW t \in Seq(Said), Rooted(t)
  PROVE  s \o t \in Seq(Said) /\ Rooted(s \o t)
<1> DEFINE e == s \o t
           n == Len(s)
           m == Len(t)
<1>1. n \in Nat /\ m \in Nat /\ DOMAIN s = 1 .. n /\ DOMAIN t = 1 .. m
  BY SaidFacts
<1>2. /\ e \in Seq(Said) /\ DOMAIN e = 1 .. n + m /\ Len(e) = n + m
      /\ \A i \in 1 .. n : e[i] = s[i]
      /\ \A i \in 1 .. m : e[n + i] = t[i]
  BY <1>1
<1> HIDE DEF e
<1>3. ASSUME NEW i \in DOMAIN e, IsTool(e[i]), i \in 1 .. n
      PROVE  Answers(e, i)
  <2>1. e[i] = s[i]
    BY <1>2, <1>3
  <2>2. PICK c \in 1 .. i - 1 : i \in ToolsAfter(s, c) /\ s[i].answers \in s[c].calls
    BY <1>1, <1>3, <2>1 DEF Rooted, Answers
  <2>3. c \in 1 .. n /\ e[c] = s[c] /\ \A k \in c + 1 .. i : k \in 1 .. n /\ e[k] = s[k]
    BY <1>1, <1>2, <1>3
  <2>4. i \in ToolsAfter(e, c)
    BY <1>1, <1>2, <1>3, <2>2, <2>3 DEF ToolsAfter
  <2>5. QED
    BY <2>1, <2>2, <2>3, <2>4 DEF Answers
<1>4. ASSUME NEW i \in 1 .. m, IsTool(t[i])
      PROVE  Answers(e, n + i)
  <2>1. e[n + i] = t[i]
    BY <1>2
  <2>2. PICK c \in 1 .. i - 1 : i \in ToolsAfter(t, c) /\ t[i].answers \in t[c].calls
    BY <1>1, <1>4 DEF Rooted, Answers
  <2>3. c \in 1 .. m /\ e[n + c] = t[c] /\ n + c \in 1 .. (n + i) - 1
    BY <1>1, <1>2
  <2>4. n + i \in ToolsAfter(e, n + c)
    <3>1. \A k \in c + 1 .. i : IsTool(t[k])
      BY <2>2 DEF ToolsAfter
    <3>2. \A k \in (n + c) + 1 .. n + i : IsTool(e[k])
      <4>1. SUFFICES ASSUME NEW k \in (n + c) + 1 .. n + i
                     PROVE  IsTool(e[k])
        OBVIOUS
      <4>2. k - n \in c + 1 .. i /\ k - n \in 1 .. m /\ n + (k - n) = k
        BY <1>1, <2>3
      <4>3. QED
        BY <1>2, <3>1, <4>2
    <3>3. n + i \in (n + c) + 1 .. Len(e)
      BY <1>1, <1>2, <2>3
    <3>4. QED
      BY <3>2, <3>3 DEF ToolsAfter
  <2>5. QED
    BY <2>1, <2>2, <2>3, <2>4 DEF Answers
<1>5. ASSUME NEW i \in DOMAIN e, IsTool(e[i])
      PROVE  Answers(e, i)
  <2>1. CASE i \in 1 .. n
    BY <1>3, <1>5, <2>1
  <2>2. CASE i \notin 1 .. n
    <3>1. i - n \in 1 .. m /\ n + (i - n) = i
      BY <1>1, <1>2, <2>2
    <3>2. IsTool(t[i - n])
      BY <1>2, <1>5, <3>1
    <3>3. QED
      BY <1>4, <3>1, <3>2
  <2>3. QED
    BY <2>1, <2>2
<1>6. QED
  BY <1>2, <1>5 DEF Rooted, e

\* A message without a part in any call.
Plain(m) == m \in Said /\ m.calls = {} /\ ~ IsTool(m)

LEMMA PlainRooted ==
  ASSUME NEW s \in Seq(Said), \A i \in DOMAIN s : ~ IsTool(s[i])
  PROVE  Rooted(s)
BY DEF Rooted

LEMMA NoticesArePlain == Plain(Notice) /\ Plain(AggressiveNotice)
<1>1. MaxMessages + 1 \in Nat
  BY TrimAssumption
<1>2. QED
  BY <1>1 DEF Notice, AggressiveNotice, Plain, Said, Roles, IsTool

\* The messages of a role, and all others.
WithRole(s, role) == Pick(s, {i \in DOMAIN s : s[i].role = role})

LEMMA OfRole ==
  ASSUME NEW s \in Seq(Said), NEW role
  PROVE  WithRole(s, role) \in Seq(Said) /\ \A j \in DOMAIN WithRole(s, role) : WithRole(s, role)[j].role = role
<1> DEFINE I == {i \in DOMAIN s : s[i].role = role}
           p == Pick(s, I)
<1>1. p \in Seq(Said)
  BY PickWhere
<1>2. PICK h : Places(p, h, s, I)
  BY PickWhere
<1> HIDE DEF p
<1>3. \A j \in DOMAIN p : h[j] \in I /\ p[j] = s[h[j]]
  BY <1>2 DEF Places
<1>4. QED
  BY <1>1, <1>3 DEF p, WithRole

LEMMA SystemIsPlain ==
  ASSUME NEW s \in Seq(Said)
  PROVE  /\ System(s) \in Seq(Said) /\ Rooted(System(s))
         /\ \A i \in DOMAIN System(s) : Plain(System(s)[i])
<1>0. System(s) = WithRole(s, "system")
  BY DEF System, WithRole
<1>1. System(s) \in Seq(Said) /\ \A i \in DOMAIN System(s) : System(s)[i].role = "system"
  BY <1>0, OfRole
<1>2. \A m \in Said : m.role = "system" => Plain(m)
  BY DEF Said, Plain, IsTool
<1>3. \A i \in DOMAIN System(s) : Plain(System(s)[i])
  BY <1>1, <1>2, SaidFacts
<1>4. QED
  BY <1>1, <1>3, PlainRooted DEF Plain

LEMMA RestRooted ==
  ASSUME NEW s \in Seq(Said), Rooted(s)
  PROVE  Rest(s) \in Seq(Said) /\ Rooted(Rest(s))
<1> DEFINE I == {i \in DOMAIN s : s[i].role # "system"}
<1>1. Rest(s) = Pick(s, I)
  BY DEF Rest
<1>2. Rest(s) \in Seq(Said)
  BY <1>1, PickWhere
<1>3. /\ DOMAIN s = 1 .. Len(s) /\ Len(s) \in Nat
      /\ \A i \in DOMAIN s : s[i].calls # {} => s[i].role # "system"
  BY SaidFacts
<1>4. ASSUME NEW j \in DOMAIN s \cap I, IsTool(s[j])
      PROVE  \E c \in I \cap (1 .. j - 1) : j \in ToolsAfter(s, c) /\ s[j].answers \in s[c].calls
  <2>1. PICK c \in 1 .. j - 1 : j \in ToolsAfter(s, c) /\ s[j].answers \in s[c].calls
    BY <1>4 DEF Rooted, Answers
  <2>2. c \in DOMAIN s /\ s[c].calls # {}
    BY <1>3, <2>1
  <2>3. c \in I
    BY <1>3, <2>2
  <2>4. QED
    BY <2>1, <2>3
<1> HIDE DEF I
<1>5. Rooted(Pick(s, I))
  BY <1>4, PickRooted
<1>6. QED
  BY <1>1, <1>2, <1>5

LEMMA RestPaired ==
  ASSUME NEW s \in Seq(Said), Paired(s)
  PROVE  Rest(s) \in Seq(Said) /\ Paired(Rest(s))
<1> DEFINE I == {i \in DOMAIN s : s[i].role # "system"}
<1>1. Rest(s) = Pick(s, I)
  BY DEF Rest
<1>2. Rest(s) \in Seq(Said) /\ Rooted(Rest(s))
  BY RestRooted DEF Paired
<1>3. ASSUME NEW j \in DOMAIN s \cap I
      PROVE  s[j].calls \subseteq {s[k].answers : k \in ToolsAfter(s, j) \cap I}
  <2>1. ToolsAfter(s, j) \subseteq I
    BY SaidFacts DEF ToolsAfter, IsTool
  <2>2. ToolsAfter(s, j) \cap I = ToolsAfter(s, j)
    BY <2>1
  <2>3. CallsAnswered(s, j)
    BY DEF Paired
  <2>4. QED
    BY <2>2, <2>3 DEF CallsAnswered
<1> HIDE DEF I
<1>4. \A j \in DOMAIN Pick(s, I) : CallsAnswered(Pick(s, I), j)
  BY <1>3, PickAnswered
<1>5. QED
  BY <1>1, <1>2, <1>4 DEF Paired

\* A plain message in front.
LEMMA InFrontPaired ==
  ASSUME NEW m, Plain(m), NEW t \in Seq(Said), Paired(t)
  PROVE  <<m>> \o t \in Seq(Said) /\ Paired(<<m>> \o t)
<1> DEFINE e == <<m>> \o t
<1>1. m \in Said /\ m.calls = {} /\ ~ IsTool(m)
  BY DEF Plain
<1>2. <<m>> \in Seq(Said) /\ Rooted(<<m>>)
  BY <1>1 DEF Rooted
<1>3. e \in Seq(Said) /\ Rooted(e)
  BY <1>2, BothRooted DEF Paired
<1>4. Len(t) \in Nat /\ DOMAIN t = 1 .. Len(t)
  BY SaidFacts
<1>5. /\ DOMAIN e = 1 .. 1 + Len(t) /\ Len(e) = 1 + Len(t) /\ e[1] = m
      /\ \A i \in 1 .. Len(t) : e[1 + i] = t[i]
  BY <1>1, <1>4
<1> HIDE DEF e
<1>6. ASSUME NEW i \in 1 .. Len(t)
      PROVE  CallsAnswered(e, 1 + i)
  <2>1. \A k \in ToolsAfter(t, i) : 1 + k \in ToolsAfter(e, 1 + i) /\ e[1 + k] = t[k]
    <3>1. SUFFICES ASSUME NEW k \in ToolsAfter(t, i)
                   PROVE  1 + k \in ToolsAfter(e, 1 + i) /\ e[1 + k] = t[k]
      OBVIOUS
    <3>2. k \in i + 1 .. Len(t) /\ \A x \in i + 1 .. k : IsTool(t[x])
      BY DEF ToolsAfter
    <3>3. e[1 + k] = t[k]
      BY <1>4, <1>5, <3>2
    <3>4. \A x \in (1 + i) + 1 .. 1 + k : IsTool(e[x])
      <4>1. SUFFICES ASSUME NEW x \in (1 + i) + 1 .. 1 + k
                     PROVE  IsTool(e[x])
        OBVIOUS
      <4>2. x - 1 \in i + 1 .. k /\ x - 1 \in 1 .. Len(t) /\ 1 + (x - 1) = x
        BY <1>4, <3>2
      <4>3. QED
        BY <1>5, <3>2, <4>2
    <3>5. 1 + k \in (1 + i) + 1 .. Len(e)
      BY <1>4, <1>5, <3>2
    <3>6. QED
      BY <3>3, <3>4, <3>5 DEF ToolsAfter
  <2>2. CallsAnswered(t, i) /\ e[1 + i] = t[i]
    BY <1>4, <1>5 DEF Paired
  <2>3. ASSUME NEW call \in t[i].calls
        PROVE  call \in {e[k].answers : k \in ToolsAfter(e, 1 + i)}
    <3>1. PICK k \in ToolsAfter(t, i) : t[k].answers = call
      BY <2>2, <2>3 DEF CallsAnswered
    <3>2. 1 + k \in ToolsAfter(e, 1 + i) /\ e[1 + k].answers = call
      BY <2>1, <3>1
    <3>3. QED
      BY <3>2
  <2>4. QED
    BY <2>2, <2>3 DEF CallsAnswered
<1>7. CallsAnswered(e, 1)
  BY <1>1, <1>5 DEF CallsAnswered
<1>8. \A i \in DOMAIN e : CallsAnswered(e, i)
  <2>1. \A i \in DOMAIN e : i = 1 \/ (i - 1 \in 1 .. Len(t) /\ 1 + (i - 1) = i)
    BY <1>4, <1>5
  <2>2. QED
    BY <1>6, <1>7, <2>1
<1>9. QED
  BY <1>3, <1>8 DEF Paired, e

LEMMA NormalizedPaired ==
  ASSUME NEW s \in Seq(Said), Paired(s)
  PROVE  Paired(Normalized(s))
<1>1. CASE System(s) = <<>>
  BY <1>1 DEF Normalized
<1>2. CASE System(s) # <<>>
  <2>1. System(s) \in Seq(Said) /\ \A i \in DOMAIN System(s) : Plain(System(s)[i])
    BY SystemIsPlain
  <2>2. Plain(System(s)[1])
    <3>1. 1 \in DOMAIN System(s)
      BY <1>2, <2>1
    <3>2. QED
      BY <2>1, <3>1
  <2>3. Normalized(s) = <<System(s)[1]>> \o Rest(s)
    BY <1>2 DEF Normalized
  <2>4. QED
    BY <2>2, <2>3, RestPaired, InFrontPaired
<1>3. QED
  BY <1>1, <1>2

-----------------------------------------------------------------------------
\* What the passes put together.
LEMMA SeqOfPlain ==
  ASSUME NEW m, Plain(m)
  PROVE  <<m>> \in Seq(Said) /\ Rooted(<<m>>)
<1>1. <<m>> \in Seq(Said) /\ \A i \in DOMAIN <<m>> : ~ IsTool(<<m>>[i])
  BY DEF Plain
<1>2. QED
  BY <1>1, PlainRooted

LEMMA NoneRooted == <<>> \in Seq(Said) /\ Rooted(<<>>)
BY DEF Rooted

LEMMA TailRepaired ==
  ASSUME NEW s \in Seq(Said), Rooted(s), NEW n \in Nat
  PROVE  Repair(Ending(s, n)) \in Seq(Said) /\ Rooted(Repair(Ending(s, n)))
BY TailLinked, RepairPairs DEF Paired

LEMMA WithoutMiddleRooted ==
  ASSUME NEW s \in Seq(Said), Rooted(s), NEW n \in Nat, Len(Rest(s)) > KeepStart
  PROVE  WithoutMiddle(s, n) \in Seq(Said) /\ Rooted(WithoutMiddle(s, n))
<1> DEFINE rest == Rest(s)
           front == SubSeq(rest, 1, KeepStart)
           middle == IF Len(rest) > KeepStart + n THEN <<Notice>> ELSE <<>>
           last == Repair(Ending(rest, n))
<1>1. rest \in Seq(Said) /\ Rooted(rest)
  BY RestRooted
<1>2. front \in Seq(Said) /\ Rooted(front)
  <2>1. KeepStart \in 0 .. Len(rest)
    BY <1>1 DEF KeepStart
  <2>2. QED
    BY <1>1, <2>1, HeadRooted
<1>3. middle \in Seq(Said) /\ Rooted(middle)
  BY NoticesArePlain, SeqOfPlain, NoneRooted
<1>4. last \in Seq(Said) /\ Rooted(last)
  BY <1>1, TailRepaired
<1>5. System(s) \in Seq(Said) /\ Rooted(System(s))
  BY SystemIsPlain
<1>6. WithoutMiddle(s, n) = System(s) \o front \o middle \o last
  BY DEF WithoutMiddle
<1> HIDE DEF rest, front, middle, last
<1>7. System(s) \o front \in Seq(Said) /\ Rooted(System(s) \o front)
  BY <1>2, <1>5, BothRooted
<1>8. System(s) \o front \o middle \in Seq(Said) /\ Rooted(System(s) \o front \o middle)
  BY <1>3, <1>7, BothRooted
<1>9. QED
  BY <1>4, <1>6, <1>8, BothRooted

LEMMA FirstUserAndRooted ==
  ASSUME NEW s \in Seq(Said), Rooted(s), NEW n \in Nat
  PROVE  FirstUserAnd(s, n) \in Seq(Said) /\ Rooted(FirstUserAnd(s, n))
<1> DEFINE rest == Rest(s)
           users == WithRole(rest, "user")
           last == Repair(Ending(rest, n))
           apart == users # <<>> /\ ~ Contains(last, users[1])
           front == IF apart THEN <<users[1], AggressiveNotice>> ELSE <<>>
<1>1. rest \in Seq(Said) /\ Rooted(rest)
  BY RestRooted
<1>2. users \in Seq(Said) /\ \A j \in DOMAIN users : users[j].role = "user"
  BY <1>1, OfRole
<1>3. last \in Seq(Said) /\ Rooted(last)
  BY <1>1, TailRepaired
<1>4. FirstUserAnd(s, n) = System(s) \o front \o last
  BY DEF FirstUserAnd, WithRole
<1> HIDE DEF rest, last, users
<1>5. front \in Seq(Said) /\ Rooted(front)
  <2>1. CASE ~ apart
    BY <2>1, NoneRooted
  <2>2. CASE apart
    <3>1. users[1] \in Said /\ users[1].role = "user"
      BY <1>2, <2>2, SaidFacts
    <3> DEFINE pair == <<users[1], AggressiveNotice>>
    <3>2. AggressiveNotice \in Said /\ ~ IsTool(AggressiveNotice)
      BY NoticesArePlain DEF Plain
    <3>3. ~ IsTool(users[1])
      BY <3>1 DEF IsTool
    <3>4. pair \in Seq(Said) /\ \A i \in DOMAIN pair : ~ IsTool(pair[i])
      BY <3>1, <3>2, <3>3
    <3>5. front = pair
      BY <2>2
    <3> HIDE DEF pair, front
    <3>6. QED
      BY <3>4, <3>5, PlainRooted
  <2>3. QED
    BY <2>1, <2>2
<1>6. System(s) \in Seq(Said) /\ Rooted(System(s))
  BY SystemIsPlain
<1> HIDE DEF front
<1>7. System(s) \o front \in Seq(Said) /\ Rooted(System(s) \o front)
  BY <1>5, <1>6, BothRooted
<1>8. QED
  BY <1>3, <1>4, <1>7, BothRooted

LEMMA ShrunkRooted ==
  ASSUME NEW s \in Seq(Said), Rooted(s), Len(Rest(s)) > 4, NEW bytes
  PROVE  Shrunk(s, bytes) \in Seq(Said) /\ Rooted(Shrunk(s, bytes))
<1> DEFINE most == Min({KeepEnd, Len(Rest(s)) - KeepStart})
           tails == {n \in 2 .. most : Len(WithoutMiddle(s, n)) <= bytes}
<1>1. Rest(s) \in Seq(Said)
  BY RestRooted
<1>2. KeepEnd \in Nat \ {0} /\ Len(Rest(s)) - KeepStart \in Nat \ {0} /\ Len(Rest(s)) > KeepStart
  <2>1. KeepEnd \in Nat \ {0}
    BY TrimAssumption
  <2>2. Len(Rest(s)) \in Nat
    BY <1>1, SaidFacts
  <2>3. \A length \in Nat : length > 4 => length - KeepStart \in Nat \ {0} /\ length > KeepStart
    BY DEF KeepStart
  <2>4. Len(Rest(s)) > 4
    OBVIOUS
  <2>5. QED
    BY <2>1, <2>2, <2>3, <2>4
<1>3. CASE tails # {}
  <2>1. most \in Nat
    <3> DEFINE P == {KeepEnd, Len(Rest(s)) - KeepStart}
               n == KeepEnd + (Len(Rest(s)) - KeepStart)
    <3>1. n \in Nat /\ P \in SUBSET (1 .. n) /\ P # {}
      BY <1>2
    <3> HIDE DEF P, n
    <3>2. Min(P) \in P
      BY <3>1, LeastPosition
    <3>3. QED
      BY <3>1, <3>2 DEF P, n
  <2> HIDE DEF most
  <2>2. tails \in SUBSET (1 .. most) /\ \A n \in tails : n \in Nat
    BY <2>1
  <2> HIDE DEF tails
  <2>3. Max(tails) \in tails
    BY <1>3, <2>1, <2>2, GreatestPosition
  <2>4. Max(tails) \in Nat
    BY <2>1, <2>2, <2>3
  <2>5. Shrunk(s, bytes) = WithoutMiddle(s, Max(tails))
    BY <1>3 DEF Shrunk, tails, most
  <2>6. QED
    BY <1>2, <2>4, <2>5, WithoutMiddleRooted
<1>4. CASE tails = {}
  <2>1. Shrunk(s, bytes) = FirstUserAnd(s, 4) \/ Shrunk(s, bytes) = FirstUserAnd(s, 2)
    BY <1>4 DEF Shrunk
  <2>2. QED
    BY <2>1, FirstUserAndRooted
<1>5. QED
  BY <1>3, <1>4

LEMMA TrimPaired ==
  ASSUME NEW s \in Seq(Said), Paired(s), NEW bytes
  PROVE  Trim(s, bytes) \in Seq(Said) /\ Paired(Trim(s, bytes))
<1>1. CASE Len(s) < MinMessages \/ Weight(s) <= bytes \/ Len(s) <= bytes \/ Len(Rest(s)) <= 4
  BY <1>1 DEF Trim
<1>2. CASE ~ (Len(s) < MinMessages \/ Weight(s) <= bytes \/ Len(s) <= bytes \/ Len(Rest(s)) <= 4)
  <2>1. Trim(s, bytes) = Repair(Shrunk(s, bytes))
    BY <1>2 DEF Trim, Assembled
  <2>2. Len(Rest(s)) > 4
    BY <1>2, RestRooted DEF Paired
  <2>3. Shrunk(s, bytes) \in Seq(Said) /\ Rooted(Shrunk(s, bytes))
    BY <2>2, ShrunkRooted DEF Paired
  <2>4. Linked(Shrunk(s, bytes))
    BY <2>3 DEF Rooted, Linked
  <2>5. QED
    BY <2>1, <2>3, <2>4, RepairPairs
<1>3. QED
  BY <1>1, <1>2

-----------------------------------------------------------------------------
\* Only the calls of the last message that is no result may be open.
OpenAtEnd(s) ==
  \A i \in DOMAIN s : ~ CallsAnswered(s, i) => \A k \in i + 1 .. Len(s) : IsTool(s[k])
HistoryInv == history \in Seq(Said) /\ Rooted(history) /\ OpenAtEnd(history)
PairsInv == HistoryInv /\ PairsStayWhole

\* One more message.
LEMMA SaidMore ==
  ASSUME NEW s \in Seq(Said), NEW m \in Said
  PROVE  LET e == Append(s, m)
         IN /\ e \in Seq(Said) /\ Len(e) = Len(s) + 1 /\ e[Len(s) + 1] = m
            /\ \A i \in DOMAIN s : e[i] = s[i]
            /\ \A i \in 0 .. Len(s) : ToolsAfter(s, i) \subseteq ToolsAfter(e, i)
            /\ \A i \in DOMAIN s : CallsAnswered(s, i) => CallsAnswered(e, i)
            /\ Rooted(s) /\ (IsTool(m) => Answers(e, Len(s) + 1)) => Rooted(e)
<1> DEFINE e == Append(s, m)
           n == Len(s)
<1>1. n \in Nat /\ DOMAIN s = 1 .. n
  BY SaidFacts
<1>2. /\ e \in Seq(Said) /\ Len(e) = n + 1 /\ DOMAIN e = 1 .. n + 1 /\ e[n + 1] = m
      /\ \A i \in 1 .. n : e[i] = s[i]
  BY <1>1
<1> HIDE DEF e, n
<1>3. ASSUME NEW i \in 0 .. n
      PROVE  ToolsAfter(s, i) \subseteq ToolsAfter(e, i)
  <2>1. ToolsAfter(s, i) = {j \in i + 1 .. n : \A k \in i + 1 .. j : IsTool(s[k])}
    BY DEF ToolsAfter, n
  <2>2. ToolsAfter(e, i) = {j \in i + 1 .. n + 1 : \A k \in i + 1 .. j : IsTool(e[k])}
    BY <1>2 DEF ToolsAfter
  <2>3. ASSUME NEW j \in ToolsAfter(s, i)
        PROVE  j \in ToolsAfter(e, i)
    <3>1. j \in i + 1 .. n /\ \A k \in i + 1 .. j : IsTool(s[k])
      BY <2>1
    <3>2. \A k \in i + 1 .. j : k \in 1 .. n
      BY <1>1, <3>1
    <3>3. \A k \in i + 1 .. j : IsTool(e[k])
      BY <1>2, <3>1, <3>2
    <3>4. j \in i + 1 .. n + 1
      BY <1>1, <3>1
    <3>5. QED
      BY <2>2, <3>3, <3>4
  <2>4. QED
    BY <2>3
<1>4. ASSUME NEW i \in 1 .. n, CallsAnswered(s, i)
      PROVE  CallsAnswered(e, i)
  <2>1. e[i] = s[i] /\ i \in 0 .. n
    BY <1>1, <1>2
  <2>2. ASSUME NEW call \in s[i].calls
        PROVE  call \in {e[k].answers : k \in ToolsAfter(e, i)}
    <3>1. PICK k \in ToolsAfter(s, i) : s[k].answers = call
      BY <1>4, <2>2 DEF CallsAnswered
    <3>2. k \in i + 1 .. n
      BY DEF ToolsAfter, n
    <3>3. k \in 1 .. n /\ k \in ToolsAfter(e, i)
      BY <1>1, <1>3, <2>1, <3>2
    <3>4. e[k].answers = call
      BY <1>2, <3>1, <3>3
    <3>5. QED
      BY <3>3, <3>4
  <2>3. QED
    BY <2>1, <2>2 DEF CallsAnswered
<1>5. ASSUME Rooted(s), IsTool(m) => Answers(e, n + 1)
      PROVE  Rooted(e)
  <2>1. ASSUME NEW i \in 1 .. n, IsTool(e[i])
        PROVE  Answers(e, i)
    <3>1. e[i] = s[i]
      BY <1>2
    <3>2. PICK c \in 1 .. i - 1 : i \in ToolsAfter(s, c) /\ s[i].answers \in s[c].calls
      BY <1>1, <1>5, <2>1, <3>1 DEF Rooted, Answers
    <3>3. c \in 1 .. n /\ c \in 0 .. n
      BY <1>1, <3>2
    <3>4. i \in ToolsAfter(e, c) /\ e[c] = s[c]
      BY <1>2, <1>3, <3>2, <3>3
    <3>5. QED
      BY <3>1, <3>2, <3>4 DEF Answers
  <2>2. \A i \in DOMAIN e : i \in 1 .. n \/ i = n + 1
    BY <1>1, <1>2
  <2>3. IsTool(e[n + 1]) => Answers(e, n + 1)
    BY <1>2, <1>5
  <2>4. QED
    BY <2>1, <2>2, <2>3 DEF Rooted
<1>6. /\ e \in Seq(Said) /\ Len(e) = n + 1 /\ e[n + 1] = m
      /\ \A i \in DOMAIN s : e[i] = s[i]
      /\ \A i \in 0 .. n : ToolsAfter(s, i) \subseteq ToolsAfter(e, i)
      /\ \A i \in DOMAIN s : CallsAnswered(s, i) => CallsAnswered(e, i)
      /\ Rooted(s) /\ (IsTool(m) => Answers(e, n + 1)) => Rooted(e)
  BY <1>1, <1>2, <1>3, <1>4, <1>5
<1>7. QED
  BY <1>6 DEF e, n

\* The user or the assistant speaks when no call is open.
LEMMA SpeakKeeps ==
  ASSUME HistoryInv, ~ CallsOpen, NEW m \in Said, ~ IsTool(m), history' = Append(history, m)
  PROVE  HistoryInv'
<1>1. /\ history \in Seq(Said) /\ Rooted(history)
      /\ \A i \in DOMAIN history : CallsAnswered(history, i)
  BY DEF HistoryInv, CallsOpen
<1>2. /\ history' \in Seq(Said) /\ Len(history') = Len(history) + 1
      /\ \A i \in DOMAIN history : CallsAnswered(history, i) => CallsAnswered(history', i)
      /\ Rooted(history) /\ (IsTool(m) => Answers(history', Len(history) + 1)) => Rooted(history')
  BY <1>1, SaidMore
<1>3. /\ Len(history) \in Nat /\ DOMAIN history = 1 .. Len(history)
      /\ DOMAIN history' = 1 .. Len(history) + 1
  BY <1>1, <1>2, SaidFacts
<1>4. ASSUME NEW i \in DOMAIN history', ~ CallsAnswered(history', i)
      PROVE  i = Len(history) + 1
  BY <1>1, <1>2, <1>3, <1>4
<1>5. OpenAtEnd(history')
  <2>1. \A i \in DOMAIN history' : ~ CallsAnswered(history', i) => i + 1 .. Len(history') = {}
    BY <1>2, <1>3, <1>4
  <2>2. QED
    BY <2>1 DEF OpenAtEnd
<1>6. QED
  BY <1>1, <1>2, <1>5 DEF HistoryInv

\* An answer to an open call.
LEMMA AnswerKeeps ==
  ASSUME HistoryInv, NEW i \in DOMAIN history, NEW m \in Said, IsTool(m), m.calls = {},
         m.answers \in history[i].calls, m.answers \notin {history[j].answers : j \in ToolsAfter(history, i)},
         history' = Append(history, m)
  PROVE  HistoryInv'
<1> DEFINE n == Len(history)
<1>1. history \in Seq(Said) /\ Rooted(history) /\ OpenAtEnd(history)
  BY DEF HistoryInv
<1>2. /\ history' \in Seq(Said) /\ Len(history') = n + 1 /\ history'[n + 1] = m
      /\ \A j \in DOMAIN history : history'[j] = history[j]
      /\ \A j \in DOMAIN history : CallsAnswered(history, j) => CallsAnswered(history', j)
      /\ Rooted(history) /\ (IsTool(m) => Answers(history', n + 1)) => Rooted(history')
  BY <1>1, SaidMore
<1>3. /\ n \in Nat /\ DOMAIN history = 1 .. n /\ DOMAIN history' = 1 .. n + 1
  BY <1>1, <1>2, SaidFacts
<1>4. ~ CallsAnswered(history, i)
  BY DEF CallsAnswered
<1> HIDE DEF n
<1>5. \A k \in i + 1 .. n : IsTool(history[k])
  BY <1>1, <1>4 DEF OpenAtEnd, n
<1>6. \A k \in i + 1 .. n + 1 : IsTool(history'[k])
  <2>1. \A k \in i + 1 .. n + 1 : k = n + 1 \/ (k \in i + 1 .. n /\ k \in 1 .. n)
    BY <1>3
  <2>2. QED
    BY <1>2, <1>3, <1>5, <2>1
<1>7. Answers(history', n + 1)
  <2>1. n + 1 \in ToolsAfter(history', i)
    <3>1. n + 1 \in i + 1 .. Len(history')
      BY <1>2, <1>3
    <3>2. QED
      BY <1>6, <3>1 DEF ToolsAfter
  <2>2. history'[n + 1].answers \in history'[i].calls
    BY <1>2
  <2>3. i \in 1 .. (n + 1) - 1
    BY <1>3
  <2>4. QED
    BY <2>1, <2>2, <2>3 DEF Answers
<1>8. OpenAtEnd(history')
  <2>1. SUFFICES ASSUME NEW j \in DOMAIN history', ~ CallsAnswered(history', j)
                 PROVE  \A k \in j + 1 .. Len(history') : IsTool(history'[k])
    BY DEF OpenAtEnd
  <2>2. CASE j = n + 1
    <3>1. CallsAnswered(history', j)
      BY <1>2, <2>2 DEF CallsAnswered
    <3>2. QED
      BY <2>1, <3>1
  <2>3. CASE j \in 1 .. n
    <3>1. ~ CallsAnswered(history, j)
      BY <1>2, <1>3, <2>1, <2>3
    <3>2. \A k \in j + 1 .. n : IsTool(history[k])
      BY <1>1, <1>3, <2>3, <3>1 DEF OpenAtEnd, n
    <3>3. \A k \in j + 1 .. n + 1 : k = n + 1 \/ (k \in j + 1 .. n /\ k \in 1 .. n)
      BY <1>3, <2>3
    <3>4. QED
      BY <1>2, <1>3, <3>2, <3>3
  <2>4. QED
    BY <1>3, <2>2, <2>3
<1>9. QED
  BY <1>1, <1>2, <1>7, <1>8 DEF HistoryInv

LEMMA FreshHistory ==
  ASSUME NEW s, s = <<>> \/ s = <<Prompt>>
  PROVE  s \in Seq(Said) /\ Rooted(s) /\ OpenAtEnd(s)
<1>1. Plain(Prompt)
  BY DEF Prompt, Plain, Said, Roles, IsTool
<1>2. s \in Seq(Said) /\ Rooted(s)
  BY <1>1, SeqOfPlain, NoneRooted
<1>3. \A i \in DOMAIN s : CallsAnswered(s, i)
  <2>1. \A i \in DOMAIN s : s[i].calls = {}
    BY <1>1 DEF Plain
  <2>2. QED
    BY <2>1 DEF CallsAnswered
<1>4. QED
  BY <1>2, <1>3 DEF OpenAtEnd

\* For any conversation and any budget, what is sent after a trim has every result after
\* the call it answers, and every call with its result: trimConversationHistory() of
\* src/src/proxy/core.mjs, trimHistoryToBudget() and repairToolPairing() of
\* src/src/proxy/sanitizer.mjs.
THEOREM TrimKeepsPairsWhole == TrimSpec => []PairsStayWhole
<1>1. TrimInit => PairsInv
  <2>1. SUFFICES ASSUME TrimInit
                 PROVE  PairsInv
    OBVIOUS
  <2>2. history = <<>> \/ history = <<Prompt>>
    BY <2>1 DEF TrimInit
  <2>3. HistoryInv
    BY <2>2, FreshHistory DEF HistoryInv
  <2>4. PairsStayWhole
    BY <2>1 DEF TrimInit, PairsStayWhole
  <2>5. QED
    BY <2>3, <2>4 DEF PairsInv
<1>2. PairsInv /\ [TrimNext]_trimVars => PairsInv'
  <2>1. SUFFICES ASSUME PairsInv, [TrimNext]_trimVars
                 PROVE  PairsInv'
    OBVIOUS
  <2>2. HistoryInv /\ history \in Seq(Said) /\ Len(history) \in Nat
    BY <2>1, SaidFacts DEF PairsInv, HistoryInv
  <2>3. Forget => PairsStayWhole'
    BY DEF Forget, PairsStayWhole
  <2>4. CASE User
    <3> DEFINE m == Message("user", {}, <<>>)
    <3>1. m \in Said /\ ~ IsTool(m)
      BY <2>2 DEF Message, Said, Roles, IsTool
    <3> HIDE DEF m
    <3>2. ~ CallsOpen /\ history' = Append(history, m) /\ Forget
      BY <2>4 DEF User, Says, m
    <3>3. QED
      BY <2>2, <2>3, <3>1, <3>2, SpeakKeeps DEF PairsInv
  <2>5. CASE Assistant
    <3>1. PICK calls \in 0 .. MaxCalls :
            history' = Append(history, Message("assistant", {<<Len(history) + 1, k>> : k \in 1 .. calls}, <<>>))
      BY <2>5 DEF Assistant, Says
    <3> DEFINE made == {<<Len(history) + 1, k>> : k \in 1 .. calls}
               m == Message("assistant", made, <<>>)
    <3>2. made \in SUBSET Callables
      BY <2>2 DEF Callables
    <3> HIDE DEF made
    <3>3. m \in Said /\ ~ IsTool(m)
      BY <2>2, <3>2 DEF Message, Said, Roles, IsTool
    <3>4. history' = Append(history, m)
      BY <3>1 DEF made
    <3> HIDE DEF m
    <3>5. ~ CallsOpen /\ Forget
      BY <2>5 DEF Assistant
    <3>6. QED
      BY <2>2, <2>3, <3>3, <3>4, <3>5, SpeakKeeps DEF PairsInv
  <2>6. CASE Tool
    <3>1. PICK i \in DOMAIN history :
            \E call \in history[i].calls \ {history[j].answers : j \in ToolsAfter(history, i)} :
              history' = Append(history, Message("tool", {}, call))
      BY <2>6 DEF Tool, Says
    <3>2. PICK call \in history[i].calls \ {history[j].answers : j \in ToolsAfter(history, i)} :
            history' = Append(history, Message("tool", {}, call))
      BY <3>1
    <3> DEFINE m == Message("tool", {}, call)
    <3>3. call \in Callables
      <4>1. history[i] \in Said
        BY <2>2, SaidFacts
      <4>2. QED
        BY <4>1 DEF Said
    <3>4. m \in Said /\ IsTool(m) /\ m.calls = {} /\ m.answers = call
      BY <2>2, <3>3 DEF Message, Said, Roles, IsTool
    <3>5. history' = Append(history, m)
      BY <3>2
    <3> HIDE DEF m
    <3>6. HistoryInv'
      BY <2>2, <3>2, <3>4, <3>5, AnswerKeeps
    <3>7. Forget
      BY <2>6 DEF Tool
    <3>8. QED
      BY <2>3, <3>6, <3>7 DEF PairsInv
  <2>7. CASE Send
    <3>1. Paired(history)
      BY <2>2, <2>7 DEF Send, CallsOpen, HistoryInv, Paired
    <3>2. trimmed' = Trim(history, budget') /\ sent' = Normalized(trimmed') /\ history' = history
      BY <2>7 DEF Send
    <3>3. trimmed' \in Seq(Said) /\ Paired(trimmed')
      BY <2>2, <3>1, <3>2, TrimPaired
    <3>4. Paired(sent')
      BY <3>2, <3>3, NormalizedPaired
    <3>5. PairsStayWhole'
      BY <3>4 DEF PairsStayWhole, Paired, Rooted, Answers
    <3>6. QED
      BY <2>2, <3>2, <3>5 DEF PairsInv, HistoryInv
  <2>8. CASE StartOver
    <3>1. (history' = <<>> \/ history' = <<Prompt>>) /\ Forget
      BY <2>8 DEF StartOver
    <3>2. HistoryInv'
      BY <3>1, FreshHistory DEF HistoryInv
    <3>3. QED
      BY <2>3, <3>1, <3>2 DEF PairsInv
  <2>9. CASE UNCHANGED trimVars
    BY <2>1, <2>9 DEF trimVars, PairsInv, HistoryInv, PairsStayWhole
  <2>10. QED
    BY <2>1, <2>4, <2>5, <2>6, <2>7, <2>8, <2>9 DEF TrimNext
<1>3. PairsInv => PairsStayWhole
  BY DEF PairsInv
<1>4. QED
  BY <1>1, <1>2, <1>3, PTL DEF TrimSpec

-----------------------------------------------------------------------------
(* AnthropicBridge.  At every moment of a stream, what is still to come is *)
(* what the agent has not heard of the very answer it was given.           *)

Letters == {"a", "b", "c", "/"}
Phrases == Seq(Letters)
Kinds == {"text", "image", "thinking", "tool_use", "tool_result", "cut"}
Blocks == [type : Kinds, text : Phrases, id : Nat]
OfKind(type) == {b \in Blocks : b.type = type}

LEMMA PhraseFacts == <<>> \in Phrases /\ (\A c \in Letters : <<c>> \in Phrases) /\ <<"b", "c">> \in Phrases
<1>1. <<>> \in Phrases
  BY DEF Phrases
<1>2. \A c \in Letters : <<c>> \in Phrases
  BY DEF Phrases
<1>3. <<"b", "c">> \in Phrases
  BY DEF Phrases, Letters
<1>4. QED
  BY <1>1, <1>2, <1>3

LEMMA BlockFacts ==
  /\ \A t \in Phrases : Text(t) \in OfKind("text") /\ Text(t).text = t
  /\ \A i \in Nat : Use(i) \in OfKind("tool_use") /\ Use(i).text = <<>> /\ Use(i).id = i
  /\ \A i \in Nat : Result(i) \in OfKind("tool_result") /\ Result(i).text = <<>> /\ Result(i).id = i
  /\ Image \in OfKind("image") /\ Thinking \in OfKind("thinking")
<1>1. NoCall \in Nat /\ <<>> \in Phrases
  BY PhraseFacts DEF NoCall
<1>2. \A t \in Phrases : Text(t) \in OfKind("text") /\ Text(t).text = t
  BY <1>1 DEF OfKind, Blocks, Kinds, Text
<1>3. \A i \in Nat : Use(i) \in OfKind("tool_use") /\ Use(i).text = <<>> /\ Use(i).id = i
  BY <1>1 DEF OfKind, Blocks, Kinds, Use
<1>4. \A i \in Nat : Result(i) \in OfKind("tool_result") /\ Result(i).text = <<>> /\ Result(i).id = i
  BY <1>1 DEF OfKind, Blocks, Kinds, Result
<1>5. Image \in OfKind("image")
  BY <1>1 DEF OfKind, Blocks, Kinds, Image
<1>6. Thinking \in OfKind("thinking")
  BY <1>1 DEF OfKind, Blocks, Kinds, Thinking
<1>7. QED
  BY <1>2, <1>3, <1>4, <1>5, <1>6

\* Filters are sieves.
LEMMA OfTypeSifted ==
  ASSUME NEW s \in Seq(Blocks), NEW type
  PROVE  OfType(s, type) = Sifted(s, OfKind(type)) /\ OfType(s, type) \in Seq(OfKind(type))
<1>1. \A k \in DOMAIN s : s[k] \in Blocks
  BY LenProperties, ElementOfSeq
<1>2. {k \in DOMAIN s : s[k].type = type} = {k \in DOMAIN s : s[k] \in OfKind(type)}
  BY <1>1 DEF OfKind
<1>3. OfType(s, type) = Sifted(s, OfKind(type))
  BY <1>2 DEF OfType, Those, Sifted, Picked
<1>4. Blocks \cap OfKind(type) = OfKind(type)
  BY DEF OfKind
<1>5. QED
  BY <1>3, <1>4, SiftedType

LEMMA OfTypeConcat ==
  ASSUME NEW p \in Seq(Blocks), NEW q \in Seq(Blocks), NEW type
  PROVE  OfType(p \o q, type) = OfType(p, type) \o OfType(q, type)
<1>1. p \o q \in Seq(Blocks)
  BY ConcatProperties
<1>2. /\ OfType(p \o q, type) = Sifted(p \o q, OfKind(type))
      /\ OfType(p, type) = Sifted(p, OfKind(type)) /\ OfType(q, type) = Sifted(q, OfKind(type))
  BY <1>1, OfTypeSifted
<1>3. Sifted(p \o q, OfKind(type)) = Sifted(p, OfKind(type)) \o Sifted(q, OfKind(type))
  BY SiftedConcat
<1>4. QED
  BY <1>2, <1>3

\* A line of one type.
LEMMA OneType ==
  ASSUME NEW s, NEW type, NEW other, s \in Seq(OfKind(type))
  PROVE  /\ s \in Seq(Blocks)
         /\ OfType(s, type) = s
         /\ other # type => OfType(s, other) = <<>>
<1>1. s \in Seq(Blocks)
  BY SeqMonotonic DEF OfKind
<1>2. OfKind(type) \subseteq OfKind(type)
  OBVIOUS
<1>3. other # type => OfKind(type) \cap OfKind(other) = {}
  BY DEF OfKind
<1>4. Sifted(s, OfKind(type)) = s
  BY <1>2, SiftedAll
<1>5. other # type => Sifted(s, OfKind(other)) = <<>>
  BY <1>3, SiftedAll
<1>6. QED
  BY <1>1, <1>4, <1>5, OfTypeSifted

\* What is joined is text; one text is itself, and none is nothing.
LEMMA JoinedTexts ==
  ASSUME NEW blocks \in Seq(Blocks), NEW glue \in Phrases
  PROVE  /\ JoinedText(blocks, glue) \in Phrases
         /\ Len(blocks) = 0 => JoinedText(blocks, glue) = <<>>
         /\ Len(blocks) = 1 => JoinedText(blocks, glue) = blocks[1].text
<1> DEFINE last == Len(blocks)
           Longer(n, y) == IF n = 1 THEN blocks[1].text ELSE y \o glue \o blocks[n].text
           step == [x \in Nat \X Phrases |-> IF x[1] \in 1 .. last THEN Longer(x[1], x[2]) ELSE <<>>]
           Sound(y) == y = [n \in 0 .. last |->
                              CASE n = 0 -> <<>>
                                [] n = 1 -> blocks[1].text
                                [] OTHER -> y[n - 1] \o glue \o blocks[n].text]
<1>1. last \in Nat /\ \A n \in 1 .. last : blocks[n].text \in Phrases
  <2>1. \A n \in 1 .. last : blocks[n] \in Blocks
    BY ElementOfSeq
  <2>2. QED
    BY <2>1, LenProperties DEF Blocks
<1>2. step \in [Nat \X Phrases -> Phrases]
  <2>1. \A n \in 1 .. last, y \in Phrases : Longer(n, y) \in Phrases
    <3>1. TAKE n \in 1 .. last, y \in Phrases
    <3>2. blocks[n].text \in Phrases /\ (n = 1 => blocks[1].text \in Phrases)
      BY <1>1
    <3>3. y \o glue \o blocks[n].text \in Phrases
      BY <3>2, ConcatProperties DEF Phrases
    <3>4. QED
      BY <3>2, <3>3
  <2>2. \A x \in Nat \X Phrases : x[2] \in Phrases
    OBVIOUS
  <2>3. <<>> \in Phrases
    BY PhraseFacts
  <2> HIDE DEF Longer, last
  <2>4. QED
    BY <2>1, <2>2, <2>3
<1>3. PICK f : Recurs(f, Phrases, <<>>, step, last)
  <2>1. <<>> \in Phrases
    BY PhraseFacts
  <2> HIDE DEF step, last
  <2>2. QED
    BY <1>1, <1>2, <2>1, Recursion, Zenon
<1>4. Sound(f)
  <2> USE <1>3 DEF Recurs
  <2>1. \A n \in 1 .. last : f[n] = Longer(n, f[n - 1])
    <3> HIDE DEF Longer, last
    <3>1. SUFFICES ASSUME NEW n \in 1 .. last
                   PROVE  f[n] = Longer(n, f[n - 1])
      OBVIOUS
    <3>2. n \in Nat /\ n - 1 \in 0 .. last
      BY <1>1
    <3>3. f[n - 1] \in Phrases
      BY <1>3, <3>2
    <3>4. step[<<n, f[n - 1]>>] = Longer(n, f[n - 1])
      BY <3>2, <3>3
    <3>5. f[n] = step[<<n, f[n - 1]>>]
      BY <1>3
    <3>6. QED
      BY <3>4, <3>5
  <2> HIDE DEF step, last
  <2>2. \A n \in 0 .. last : n = 0 \/ (n \in 1 .. last /\ n # 0)
    BY <1>1
  <2>3. f = [n \in 0 .. last |-> f[n]]
    BY <1>3
  <2>4. \A n \in 0 .. last : f[n] = CASE n = 0 -> <<>>
                                      [] n = 1 -> blocks[1].text
                                      [] OTHER -> f[n - 1] \o glue \o blocks[n].text
    BY <1>3, <2>1, <2>2
  <2>5. QED
    BY <2>3, <2>4
<1> DEFINE g == CHOOSE y : Sound(y)
<1>5. Sound(g)
  <2> HIDE DEF Sound
  <2>1. QED
    BY <1>4
<1>6. JoinedText(blocks, glue) = g[last]
  BY DEF JoinedText
<1>7. g[0] = <<>> /\ \A n \in 1 .. last : g[n] = Longer(n, g[n - 1])
  <2> HIDE DEF g, last
  <2>1. 0 \in 0 .. last /\ \A n \in 1 .. last : n \in 0 .. last /\ n # 0
    BY <1>1
  <2>2. QED
    BY <1>5, <2>1
<1>8. \A n \in 1 .. last, y \in Phrases : Longer(n, y) \in Phrases
  <2>1. TAKE n \in 1 .. last, y \in Phrases
  <2>2. blocks[n].text \in Phrases /\ (n = 1 => blocks[1].text \in Phrases)
    BY <1>1
  <2>3. y \o glue \o blocks[n].text \in Phrases
    BY <2>2, ConcatProperties DEF Phrases
  <2>4. QED
    BY <2>2, <2>3
<1>9. Len(blocks) = 1 => g[last] = blocks[1].text
  <2> HIDE DEF g
  <2>1. SUFFICES ASSUME Len(blocks) = 1
                 PROVE  g[last] = blocks[1].text
    OBVIOUS
  <2>2. 1 \in 1 .. last /\ last = 1
    BY <2>1
  <2>3. g[1] = Longer(1, g[1 - 1])
    BY <1>7, <2>2
  <2>4. QED
    BY <2>2, <2>3
<1>10. g[last] \in Phrases
  <2> DEFINE Fine == {n \in Nat : n \in 0 .. last => g[n] \in Phrases}
  <2> HIDE DEF g, last, Longer
  <2>1. 0 \in Fine
    BY <1>7, PhraseFacts
  <2>2. ASSUME NEW n \in Nat, n \in Fine
        PROVE  n + 1 \in Fine
    <3>1. SUFFICES ASSUME NEW m, m = n + 1, m \in 0 .. last
                   PROVE  g[m] \in Phrases
      OBVIOUS
    <3>2. m \in 1 .. last /\ m - 1 = n /\ n \in 0 .. last
      BY <1>1, <3>1
    <3>3. g[n] \in Phrases
      BY <2>2, <3>2
    <3>4. QED
      BY <1>7, <1>8, <3>2, <3>3
  <2> HIDE DEF Fine
  <2>3. Nat \subseteq Fine
    BY <2>1, <2>2, NatSetInduction
  <2>4. last \in Fine /\ last \in 0 .. last
    BY <1>1, <2>3
  <2>5. QED
    BY <2>4 DEF Fine
<1> HIDE DEF g
<1>11. QED
  BY <1>6, <1>7, <1>9, <1>10

-----------------------------------------------------------------------------
\* What a backend may answer.
Replies == [content : Seq(Blocks), stop : {"end_turn", "max_tokens", "failed"}]
CallsOf(message) == IdsOf(OfType(message.content, "tool_use"))
TextOf(message) == JoinedText(OfType(message.content, "text"), <<>>)

LEMMA CallsAndText ==
  ASSUME NEW m, m.content \in Seq(Blocks)
  PROVE  CallsOf(m) \in Seq(Nat) /\ TextOf(m) \in Phrases
<1> DEFINE uses == OfType(m.content, "tool_use")
<1>1. uses \in Seq(OfKind("tool_use")) /\ OfType(m.content, "text") \in Seq(OfKind("text"))
  BY OfTypeSifted
<1> HIDE DEF uses
<1>2. DOMAIN uses = 1 .. Len(uses) /\ Len(uses) \in Nat /\ \A k \in 1 .. Len(uses) : uses[k].id \in Nat
  <2>1. \A k \in 1 .. Len(uses) : uses[k] \in OfKind("tool_use")
    BY <1>1, ElementOfSeq
  <2>2. QED
    BY <1>1, <2>1, LenProperties DEF OfKind, Blocks
<1>3. IdsOf(uses) \in Seq(Nat)
  BY <1>2 DEF IdsOf
<1>4. OfType(m.content, "text") \in Seq(Blocks)
  BY <1>1, OneType
<1>5. QED
  BY <1>3, <1>4, JoinedTexts, PhraseFacts DEF CallsOf, TextOf, uses

\* Reading the calls that were written, and the text.
LEMMA UsesOf ==
  ASSUME NEW calls \in Seq(Nat)
  PROVE  LET uses == [k \in DOMAIN calls |-> Use(calls[k])]
         IN uses \in Seq(OfKind("tool_use")) /\ IdsOf(uses) = calls /\ Len(uses) = Len(calls)
<1> DEFINE uses == [k \in DOMAIN calls |-> Use(calls[k])]
<1>1. Len(calls) \in Nat /\ DOMAIN calls = 1 .. Len(calls) /\ \A k \in 1 .. Len(calls) : calls[k] \in Nat
  BY LenProperties, ElementOfSeq
<1>2. \A k \in 1 .. Len(calls) : Use(calls[k]) \in OfKind("tool_use") /\ Use(calls[k]).id = calls[k]
  BY <1>1, BlockFacts
<1>3. uses \in Seq(OfKind("tool_use")) /\ Len(uses) = Len(calls) /\ DOMAIN uses = 1 .. Len(calls)
  BY <1>1, <1>2
<1>4. \A k \in 1 .. Len(calls) : uses[k].id = calls[k]
  BY <1>1, <1>2
<1> HIDE DEF uses
<1>5. [k \in DOMAIN uses |-> uses[k].id] = calls
  <2>1. calls = [k \in 1 .. Len(calls) |-> calls[k]]
    BY <1>1, LenProperties
  <2>2. QED
    BY <1>3, <1>4, <2>1
<1>6. QED
  BY <1>3, <1>5 DEF IdsOf, uses

LEMMA TextThenCalls ==
  ASSUME NEW m, NEW texts \in Seq(OfKind("text")), NEW uses \in Seq(OfKind("tool_use")),
         m.content = texts \o uses, Len(texts) \in {0, 1}
  PROVE  /\ CallsOf(m) = IdsOf(uses)
         /\ TextOf(m) = IF texts = <<>> THEN <<>> ELSE texts[1].text
<1>1. "text" # "tool_use"
  OBVIOUS
<1>2. /\ texts \in Seq(Blocks) /\ OfType(texts, "text") = texts /\ OfType(texts, "tool_use") = <<>>
      /\ uses \in Seq(Blocks) /\ OfType(uses, "tool_use") = uses /\ OfType(uses, "text") = <<>>
  BY <1>1, OneType
<1>3. OfType(m.content, "text") = texts \o <<>> /\ OfType(m.content, "tool_use") = <<>> \o uses
  <2>1. OfType(texts \o uses, "text") = OfType(texts, "text") \o OfType(uses, "text")
    BY <1>2, OfTypeConcat
  <2>2. OfType(texts \o uses, "tool_use") = OfType(texts, "tool_use") \o OfType(uses, "tool_use")
    BY <1>2, OfTypeConcat
  <2>3. QED
    BY <1>2, <2>1, <2>2
<1>4. texts \o <<>> = texts /\ <<>> \o uses = uses
  BY <1>2, ConcatEmptySeq
<1>5. Len(texts) = 0 <=> texts = <<>>
  BY <1>2, EmptySeq
<1>6. QED
  BY <1>2, <1>3, <1>4, <1>5, JoinedTexts, PhraseFacts DEF CallsOf, TextOf

\* What a completion tells of an answer, and what the agent is sent for it.
Telling(completion, reply) ==
  /\ completion.calls = CallsOf(reply) /\ completion.text = TextOf(reply)
  /\ completion.finish = IF CallsOf(reply) # <<>> THEN "tool_calls"
                         ELSE IF reply.stop = "max_tokens" THEN "length" ELSE "stop"
Whole(back, reply) ==
  /\ CallsOf(back) = CallsOf(reply) /\ TextOf(back) = TextOf(reply)
  /\ (back.stop = "tool_use") <=> (CallsOf(back) # <<>>)
  /\ (back.stop = "max_tokens") <=> (reply.stop = "max_tokens" /\ CallsOf(reply) = <<>>)

LEMMA CompletionTells ==
  ASSUME NEW reply \in Replies
  PROVE  Telling(ToCompletion(reply), reply) /\ Telling(FromCodex(reply), reply)
<1>1. Telling(ToCompletion(reply), reply)
  BY DEF Telling, ToCompletion, CallsOf, TextOf
<1> DEFINE kept == Those(reply.content, {k \in DOMAIN reply.content : reply.content[k].type # "cut"})
           rest == [reply EXCEPT !.content = kept]
           B == {b \in Blocks : b.type # "cut"}
<1>2. reply.content \in Seq(Blocks)
  BY DEF Replies
<1>3. kept = Sifted(reply.content, B)
  <2>1. \A k \in DOMAIN reply.content : reply.content[k] \in Blocks
    BY <1>2, LenProperties, ElementOfSeq
  <2>2. {k \in DOMAIN reply.content : reply.content[k].type # "cut"}
          = {k \in DOMAIN reply.content : reply.content[k] \in B}
    BY <2>1
  <2> HIDE DEF B
  <2>3. QED
    BY <2>2 DEF Those, Sifted, Picked
<1>4. kept \in Seq(Blocks)
  <2>1. Blocks \cap B \subseteq Blocks /\ Sifted(reply.content, B) \in Seq(Blocks \cap B)
    BY <1>2, SiftedType
  <2>2. QED
    BY <1>3, <2>1, SeqMonotonic
<1>5. \A type \in {"tool_use", "text"} : OfType(kept, type) = OfType(reply.content, type)
  <2>1. TAKE type \in {"tool_use", "text"}
  <2>2. OfKind(type) \subseteq B
    BY DEF OfKind
  <2> HIDE DEF kept, B
  <2>3. Sifted(Sifted(reply.content, B), OfKind(type)) = Sifted(reply.content, OfKind(type))
    BY <1>2, <2>2, SiftedTwice
  <2>4. OfType(kept, type) = Sifted(kept, OfKind(type))
    BY <1>4, OfTypeSifted
  <2>5. OfType(reply.content, type) = Sifted(reply.content, OfKind(type))
    BY <1>2, OfTypeSifted
  <2>6. QED
    BY <1>3, <2>3, <2>4, <2>5
<1>6. rest.content = kept /\ rest.stop = reply.stop
  BY DEF Replies
<1>7. FromCodex(reply) = ToCompletion(rest)
  BY DEF FromCodex
<1> HIDE DEF kept, rest
<1>8. CallsOf(rest) = CallsOf(reply) /\ TextOf(rest) = TextOf(reply)
  BY <1>5, <1>6 DEF CallsOf, TextOf
<1>9. Telling(ToCompletion(rest), rest)
  BY DEF Telling, ToCompletion, CallsOf, TextOf
<1>10. QED
  BY <1>1, <1>6, <1>7, <1>8, <1>9 DEF Telling

\* The blocks an answer to the agent is made of.
Sendable == {Text(t) : t \in Phrases} \cup {Use(i) : i \in Nat}
Backs == [content : Seq(Sendable), stop : {"tool_use", "max_tokens", "end_turn"}]

LEMMA SendableFacts ==
  /\ Sendable \subseteq Blocks
  /\ \A b \in Sendable : \/ b = Text(b.text) /\ b.type = "text" /\ b.text \in Phrases
                         \/ b = Use(b.id) /\ b.type = "tool_use" /\ b.text = <<>> /\ b.id \in Nat
<1>1. SUFFICES ASSUME NEW b \in Sendable
               PROVE  /\ b \in Blocks
                      /\ \/ b = Text(b.text) /\ b.type = "text" /\ b.text \in Phrases
                         \/ b = Use(b.id) /\ b.type = "tool_use" /\ b.text = <<>> /\ b.id \in Nat
  OBVIOUS
<1>2. CASE \E t \in Phrases : b = Text(t)
  BY <1>2, BlockFacts DEF OfKind
<1>3. CASE \E i \in Nat : b = Use(i)
  BY <1>3, BlockFacts DEF OfKind
<1>4. QED
  BY <1>2, <1>3 DEF Sendable

LEMMA ReplyTells ==
  ASSUME NEW reply \in Replies, NEW completion, Telling(completion, reply)
  PROVE  Whole(ToReply(completion), reply) /\ ToReply(completion) \in Backs
<1> DEFINE calls == completion.calls
           texts == IF completion.text = <<>> THEN <<>> ELSE <<Text(completion.text)>>
           uses == [k \in DOMAIN calls |-> Use(calls[k])]
           blocks == texts \o uses
           back == ToReply(completion)
<1>1. calls \in Seq(Nat) /\ completion.text \in Phrases
  BY CallsAndText DEF Telling, Replies
<1>2. uses \in Seq(OfKind("tool_use")) /\ IdsOf(uses) = calls /\ Len(uses) = Len(calls)
  BY <1>1, UsesOf
<1>3. /\ texts \in Seq(OfKind("text")) /\ Len(texts) \in {0, 1}
      /\ (IF texts = <<>> THEN <<>> ELSE texts[1].text) = completion.text
  <2>1. Text(completion.text) \in OfKind("text") /\ Text(completion.text).text = completion.text
    BY <1>1, BlockFacts
  <2>2. CASE completion.text = <<>>
    BY <2>2
  <2>3. CASE completion.text # <<>>
    <3>1. texts = <<Text(completion.text)>>
      BY <2>3
    <3> HIDE DEF texts
    <3>2. QED
      BY <2>1, <3>1
  <2>4. QED
    BY <2>2, <2>3
<1>4. /\ back.content = IF blocks = <<>> THEN <<Text(<<>>)>> ELSE blocks
      /\ back.stop = IF calls # <<>> THEN "tool_use"
                     ELSE IF completion.finish = "length" THEN "max_tokens" ELSE "end_turn"
  BY DEF ToReply
<1> HIDE DEF calls, texts, uses, back
<1>5. texts \in Seq(Blocks) /\ uses \in Seq(Blocks) /\ blocks \in Seq(Blocks)
  <2>1. texts \in Seq(Blocks) /\ uses \in Seq(Blocks)
    BY <1>2, <1>3, OneType
  <2>2. QED
    BY <2>1, ConcatProperties
<1> HIDE DEF blocks
<1>6. CallsOf(back) = calls /\ TextOf(back) = completion.text
  <2>1. CASE blocks # <<>>
    <3>1. back.content = texts \o uses
      BY <1>4, <2>1 DEF blocks
    <3>2. QED
      BY <1>2, <1>3, <3>1, TextThenCalls
  <2>2. CASE blocks = <<>>
    <3> DEFINE one == <<Text(<<>>)>>
    <3>1. texts = <<>> /\ uses = <<>>
      BY <1>5, <2>2, ConcatEqualIffEmpty DEF blocks
    <3>2. calls = <<>> /\ completion.text = <<>>
      <4>1. Len(calls) = 0
        BY <1>2, <3>1
      <4>2. QED
        BY <1>1, <1>3, <3>1, <4>1, EmptySeq
    <3>3. Text(<<>>) \in OfKind("text") /\ Text(<<>>).text = <<>>
      BY BlockFacts, PhraseFacts
    <3>4. one \in Seq(OfKind("text")) /\ Len(one) = 1 /\ one[1] = Text(<<>>) /\ one # <<>>
      BY <3>3
    <3>5. one \o uses = one /\ back.content = one
      BY <1>4, <2>2, <3>1, <3>4, ConcatEmptySeq
    <3> HIDE DEF one
    <3>6. CallsOf(back) = IdsOf(uses) /\ TextOf(back) = one[1].text
      BY <1>2, <3>4, <3>5, TextThenCalls
    <3>7. QED
      BY <1>2, <3>2, <3>3, <3>4, <3>6
  <2>3. QED
    BY <2>1, <2>2
<1>7. Whole(back, reply)
  <2>1. calls = CallsOf(reply) /\ completion.text = TextOf(reply)
    BY DEF Telling, calls
  <2>2. completion.finish = "length" <=> reply.stop = "max_tokens" /\ CallsOf(reply) = <<>>
    BY DEF Telling
  <2>3. (back.stop = "tool_use" <=> calls # <<>>)
        /\ (back.stop = "max_tokens" <=> completion.finish = "length" /\ calls = <<>>)
    BY <1>4
  <2>4. QED
    BY <1>6, <2>1, <2>2, <2>3 DEF Whole
<1>8. back.content \in Seq(Sendable)
  <2>1. texts \in Seq(Sendable)
    <3>1. completion.text # <<>> => texts = <<Text(completion.text)>> /\ Text(completion.text) \in Sendable
      BY <1>1 DEF texts, Sendable
    <3>2. completion.text = <<>> => texts = <<>>
      BY DEF texts
    <3>3. \A b \in Sendable : <<b>> \in Seq(Sendable)
      OBVIOUS
    <3>4. <<>> \in Seq(Sendable)
      OBVIOUS
    <3>5. QED
      BY <3>1, <3>2, <3>3, <3>4
  <2>2. uses \in Seq(Sendable)
    <3>1. DOMAIN calls = 1 .. Len(calls) /\ Len(calls) \in Nat /\ \A k \in 1 .. Len(calls) : calls[k] \in Nat
      BY <1>1, LenProperties, ElementOfSeq
    <3>2. \A k \in 1 .. Len(calls) : Use(calls[k]) \in Sendable
      BY <3>1 DEF Sendable
    <3>3. QED
      BY <3>1, <3>2 DEF uses
  <2>3. blocks \in Seq(Sendable)
    BY <2>1, <2>2, ConcatProperties DEF blocks
  <2>4. Text(<<>>) \in Sendable
    BY PhraseFacts DEF Sendable
  <2>5. <<Text(<<>>)>> \in Seq(Sendable)
    BY <2>4
  <2>6. QED
    BY <1>4, <2>3, <2>5
<1>9. back \in Backs
  <2>1. back.stop \in {"tool_use", "max_tokens", "end_turn"}
    BY <1>4
  <2>2. back = [content |-> back.content, stop |-> back.stop]
    BY DEF back, ToReply
  <2>3. QED
    BY <1>8, <2>1, <2>2 DEF Backs
<1>10. QED
  BY <1>7, <1>9 DEF back

-----------------------------------------------------------------------------
\* The events of an answer, one after the other.
Events == [type : {"message_start", "content_block_start", "content_block_delta", "content_block_stop",
                   "message_delta", "message_stop"},
           index : Nat, block : Blocks, stop : {"none", "tool_use", "max_tokens", "end_turn"}]
Begin == Event("message_start", 0, Text(<<>>), "none")
Start(n, b) == Event("content_block_start", n, Opened(b), "none")
Delta(n, b, k) == Event("content_block_delta", n, Text(<<b.text[k]>>), "none")
Deltas(n, b) == [k \in DOMAIN b.text |-> Delta(n, b, k)]
Stop(n) == Event("content_block_stop", n, Text(<<>>), "none")
Closing(back) == Event("message_delta", 0, Text(<<>>), back.stop)
End == Event("message_stop", 0, Text(<<>>), "none")

\* What is to come after the first n blocks, and within the next one.
After(back, n) ==
  FlattenSeq([j \in 1 .. Len(back.content) - n |-> BlockEvents(n + j - 1, back.content[n + j])])
    \o <<Closing(back), End>>
Coming(back, n, k) ==
  SubSeq(Deltas(n, back.content[n + 1]), k + 1, Len(back.content[n + 1].text))
    \o (<<Stop(n)>> \o After(back, n + 1))

LEMMA EventsJoin ==
  \A p, q, r \in Seq(Events) : p \o q \in Seq(Events) /\ (p \o q) \o r = p \o (q \o r)
BY ConcatProperties, ConcatAssociative

LEMMA EventTypes ==
  /\ Begin \in Events /\ End \in Events
  /\ \A back \in Backs : Closing(back) \in Events
  /\ \A n \in Nat : Stop(n) \in Events
  /\ \A n \in Nat, b \in Sendable : Start(n, b) \in Events
  /\ \A n \in Nat, b \in Sendable : \A k \in DOMAIN b.text : Delta(n, b, k) \in Events
<1>1. Text(<<>>) \in Blocks
  BY BlockFacts, PhraseFacts DEF OfKind
<1>2. Begin \in Events /\ End \in Events
  BY <1>1 DEF Begin, End, Event, Events
<1>3. \A back \in Backs : Closing(back) \in Events
  BY <1>1 DEF Closing, Event, Events, Backs
<1>4. \A n \in Nat : Stop(n) \in Events
  BY <1>1 DEF Stop, Event, Events
<1>5. \A n \in Nat, b \in Sendable : Start(n, b) \in Events
  <2>1. \A b \in Sendable : Opened(b) \in Blocks
    BY <1>1, SendableFacts DEF Opened
  <2>2. QED
    BY <2>1 DEF Start, Event, Events
<1>6. \A n \in Nat, b \in Sendable : \A k \in DOMAIN b.text : Delta(n, b, k) \in Events
  <2>1. TAKE n \in Nat, b \in Sendable
  <2>2. TAKE k \in DOMAIN b.text
  <2>3. b.text \in Phrases
    BY SendableFacts, PhraseFacts
  <2>4. b.text[k] \in Letters
    BY <2>3, LenProperties, ElementOfSeq DEF Phrases
  <2>5. Text(<<b.text[k]>>) \in Blocks
    BY <2>4, BlockFacts, PhraseFacts DEF OfKind
  <2>6. QED
    BY <2>5 DEF Delta, Event, Events
<1>7. QED
  BY <1>2, <1>3, <1>4, <1>5, <1>6

LEMMA DeltasType ==
  ASSUME NEW n \in Nat, NEW b \in Sendable
  PROVE  /\ Deltas(n, b) \in Seq(Events) /\ Len(Deltas(n, b)) = Len(b.text) /\ Len(b.text) \in Nat
         /\ \A k \in 1 .. Len(b.text) : Deltas(n, b)[k] = Delta(n, b, k)
<1>1. b.text \in Phrases
  BY SendableFacts, PhraseFacts
<1>2. DOMAIN b.text = 1 .. Len(b.text) /\ Len(b.text) \in Nat
  BY <1>1, LenProperties DEF Phrases
<1>3. \A k \in 1 .. Len(b.text) : Delta(n, b, k) \in Events
  BY <1>2, EventTypes
<1>4. QED
  BY <1>2, <1>3 DEF Deltas

LEMMA BlockEventsAre ==
  ASSUME NEW n \in Nat, NEW b \in Sendable
  PROVE  /\ BlockEvents(n, b) \in Seq(Events)
         /\ BlockEvents(n, b) = <<Start(n, b)>> \o (Deltas(n, b) \o <<Stop(n)>>)
<1>1. <<Start(n, b)>> \in Seq(Events) /\ <<Stop(n)>> \in Seq(Events) /\ Deltas(n, b) \in Seq(Events)
  <2>1. Start(n, b) \in Events /\ Stop(n) \in Events
    BY EventTypes
  <2>2. QED
    BY <2>1, DeltasType
<1>2. BlockEvents(n, b) = (<<Start(n, b)>> \o Deltas(n, b)) \o <<Stop(n)>>
  BY DEF BlockEvents, Start, Deltas, Delta, Stop
<1>3. QED
  BY <1>1, <1>2, ConcatAssociative, ConcatProperties

\* After nothing, some and all of the blocks.
LEMMA AfterSteps ==
  ASSUME NEW back \in Backs
  PROVE  /\ Len(back.content) \in Nat
         /\ \A n \in 1 .. Len(back.content) : back.content[n] \in Sendable
         /\ \A n \in 0 .. Len(back.content) : After(back, n) \in Seq(Events) /\ Len(After(back, n)) >= 2
         /\ MessageEvents(back) = <<Begin>> \o After(back, 0)
         /\ After(back, Len(back.content)) = <<Closing(back), End>>
         /\ \A n \in 0 .. Len(back.content) - 1 :
              After(back, n) = BlockEvents(n, back.content[n + 1]) \o After(back, n + 1)
<1> DEFINE N == Len(back.content)
           ending == <<Closing(back), End>>
           pieces(n) == [j \in 1 .. N - n |-> BlockEvents(n + j - 1, back.content[n + j])]
<1>1. /\ back.content \in Seq(Sendable) /\ N \in Nat /\ DOMAIN back.content = 1 .. N
      /\ \A n \in 1 .. N : back.content[n] \in Sendable
  BY LenProperties, ElementOfSeq DEF Backs
<1>2. ending \in Seq(Events) /\ Len(ending) = 2
  BY EventTypes
<1>3. \A n \in 0 .. N : pieces(n) \in Seq(Seq(Events)) /\ Len(pieces(n)) = N - n
  <2>1. TAKE n \in 0 .. N
  <2>2. \A j \in 1 .. N - n : n + j - 1 \in Nat /\ back.content[n + j] \in Sendable
    BY <1>1
  <2>3. \A j \in 1 .. N - n : BlockEvents(n + j - 1, back.content[n + j]) \in Seq(Events)
    BY <2>2, BlockEventsAre
  <2>4. N - n \in Nat
    BY <1>1
  <2> HIDE DEF N
  <2>5. QED
    BY <2>3, <2>4
<1>4. \A n : After(back, n) = FlattenSeq(pieces(n)) \o ending
  BY DEF After
<1> HIDE DEF pieces, ending
<1>5. \A n \in 0 .. N : FlattenSeq(pieces(n)) \in Seq(Events)
  BY <1>3, FlattenRange
<1>6. \A n \in 0 .. N : After(back, n) \in Seq(Events) /\ Len(After(back, n)) >= 2
  <2>1. TAKE n \in 0 .. N
  <2>2. FlattenSeq(pieces(n)) \in Seq(Events)
    BY <1>5
  <2>3. /\ FlattenSeq(pieces(n)) \o ending \in Seq(Events)
        /\ Len(FlattenSeq(pieces(n)) \o ending) = Len(FlattenSeq(pieces(n))) + Len(ending)
        /\ Len(FlattenSeq(pieces(n))) \in Nat
    BY <1>2, <2>2, ConcatProperties, LenProperties
  <2>4. After(back, n) = FlattenSeq(pieces(n)) \o ending
    BY <1>4
  <2> HIDE DEF N
  <2>5. QED
    BY <1>2, <2>3, <2>4
<1>7. After(back, N) = ending
  <2>1. N \in 0 .. N /\ pieces(N) \in Seq(Seq(Events)) /\ Len(pieces(N)) = 0
    BY <1>1, <1>3
  <2>2. pieces(N) = <<>>
    BY <2>1, EmptySeq
  <2>3. FlattenSeq(<<>>) = <<>>
    BY FlattenAppend, EmptySeq
  <2>4. QED
    BY <1>2, <1>4, <2>2, <2>3, ConcatEmptySeq
<1>8. MessageEvents(back) = <<Begin>> \o After(back, 0)
  <2>1. pieces(0) = [n \in DOMAIN back.content |-> BlockEvents(n - 1, back.content[n])]
    <3>1. \A j \in 1 .. N : 0 + j - 1 = j - 1 /\ 0 + j = j
      BY <1>1
    <3>2. N - 0 = N
      BY <1>1
    <3> HIDE DEF N
    <3>3. QED
      BY <1>1, <3>1, <3>2 DEF pieces
  <2>2. MessageEvents(back) = (<<Begin>> \o FlattenSeq(pieces(0))) \o ending
    BY <2>1 DEF MessageEvents, Begin, Closing, End, ending
  <2>3. <<Begin>> \in Seq(Events) /\ FlattenSeq(pieces(0)) \in Seq(Events)
    BY <1>1, <1>5, EventTypes
  <2>4. (<<Begin>> \o FlattenSeq(pieces(0))) \o ending = <<Begin>> \o (FlattenSeq(pieces(0)) \o ending)
    BY <1>2, <2>3, ConcatAssociative
  <2>5. QED
    BY <1>4, <2>2, <2>4
<1>9. ASSUME NEW n \in 0 .. N - 1
      PROVE  After(back, n) = BlockEvents(n, back.content[n + 1]) \o After(back, n + 1)
  <2> DEFINE first == BlockEvents(n, back.content[n + 1])
  <2>1. n \in 0 .. N /\ n + 1 \in 0 .. N /\ n + 1 \in 1 .. N /\ n \in Nat
    BY <1>1
  <2>2. first \in Seq(Events)
    BY <1>1, <2>1, BlockEventsAre
  <2>3. pieces(n + 1) \in Seq(Seq(Events)) /\ Len(pieces(n + 1)) = N - (n + 1)
    BY <1>3, <2>1
  <2>4. pieces(n) = <<first>> \o pieces(n + 1)
    <3> DEFINE p == pieces(n)
               q == <<first>> \o pieces(n + 1)
    <3>1. <<first>> \in Seq(Seq(Events)) /\ Len(<<first>>) = 1 /\ <<first>>[1] = first
      <4> HIDE DEF first
      <4>1. QED
        BY <2>2
    <3>2. p \in Seq(Seq(Events)) /\ Len(p) = N - n
      BY <1>3, <2>1
    <3> HIDE DEF first
    <3>3. /\ q \in Seq(Seq(Events)) /\ Len(q) = 1 + (N - (n + 1))
          /\ \A i \in 1 .. 1 + (N - (n + 1)) : q[i] = IF i <= 1 THEN <<first>>[i] ELSE pieces(n + 1)[i - 1]
      BY <2>3, <3>1, ConcatProperties
    <3>4. Len(p) = Len(q)
      BY <1>1, <3>2, <3>3
    <3>5. ASSUME NEW i \in 1 .. N - n
          PROVE  p[i] = q[i]
      <4>1. p[i] = BlockEvents(n + i - 1, back.content[n + i])
        BY DEF pieces
      <4>2. i \in 1 .. 1 + (N - (n + 1))
        BY <1>1
      <4>3. CASE i = 1
        <5>1. n + i - 1 = n /\ n + i = n + 1 /\ i <= 1
          BY <1>1, <4>3
        <5>2. p[i] = first
          BY <4>1, <5>1 DEF first
        <5>3. q[i] = <<first>>[1]
          BY <3>3, <4>2, <4>3, <5>1
        <5>4. QED
          BY <3>1, <5>2, <5>3
      <4>4. CASE i # 1
        <5>1. i - 1 \in 1 .. N - (n + 1) /\ ~ (i <= 1) /\ (n + 1) + (i - 1) - 1 = n + i - 1 /\ (n + 1) + (i - 1) = n + i
          BY <1>1, <4>4
        <5>2. q[i] = pieces(n + 1)[i - 1]
          BY <3>3, <4>2, <5>1
        <5>3. pieces(n + 1)[i - 1] = BlockEvents((n + 1) + (i - 1) - 1, back.content[(n + 1) + (i - 1)])
          BY <5>1 DEF pieces
        <5>4. QED
          BY <4>1, <5>1, <5>2, <5>3
      <4>5. QED
        BY <4>3, <4>4
    <3> HIDE DEF p, q
    <3>6. p = q
      BY <3>2, <3>3, <3>4, <3>5, SeqEqual
    <3>7. QED
      BY <3>6 DEF p, q
  <2> HIDE DEF first
  <2>5. FlattenSeq(pieces(n)) = first \o FlattenSeq(pieces(n + 1))
    BY <2>2, <2>3, <2>4, FlattenFirst
  <2>6. (first \o FlattenSeq(pieces(n + 1))) \o ending = first \o (FlattenSeq(pieces(n + 1)) \o ending)
    <3> DEFINE flat == FlattenSeq(pieces(n + 1))
    <3>1. flat \in Seq(Events)
      BY <1>5, <2>1
    <3> HIDE DEF flat
    <3>2. \A x, y, z \in Seq(Events) : (x \o y) \o z = x \o (y \o z)
      BY ConcatAssociative
    <3>3. (first \o flat) \o ending = first \o (flat \o ending)
      BY <1>2, <2>2, <3>1, <3>2, Zenon
    <3>4. QED
      BY <3>3 DEF flat
  <2>7. QED
    BY <1>4, <2>5, <2>6 DEF first
<1>10. QED
  BY <1>1, <1>6, <1>7, <1>8, <1>9 DEF ending

\* Each event in its turn.
LEMMA ComingSteps ==
  ASSUME NEW back \in Backs, NEW n \in 0 .. Len(back.content) - 1
  PROVE  LET b == back.content[n + 1]
         IN /\ \A k \in 0 .. Len(b.text) : Coming(back, n, k) \in Seq(Events) /\ Len(Coming(back, n, k)) >= 1
            /\ After(back, n) = <<Start(n, b)>> \o Coming(back, n, 0)
            /\ \A k \in 0 .. Len(b.text) - 1 :
                 Coming(back, n, k) = <<Delta(n, b, k + 1)>> \o Coming(back, n, k + 1)
            /\ Coming(back, n, Len(b.text)) = <<Stop(n)>> \o After(back, n + 1)
<1> DEFINE b == back.content[n + 1]
           d == Deltas(n, b)
           L == Len(b.text)
           rest == <<Stop(n)>> \o After(back, n + 1)
<1>1. n \in Nat /\ n + 1 \in 1 .. Len(back.content) /\ n + 1 \in 0 .. Len(back.content) /\ n \in 0 .. Len(back.content)
  BY AfterSteps
<1>2. b \in Sendable /\ After(back, n + 1) \in Seq(Events)
  BY <1>1, AfterSteps
<1>3. /\ d \in Seq(Events) /\ Len(d) = L /\ L \in Nat
      /\ \A k \in 1 .. L : d[k] = Delta(n, b, k)
  BY <1>1, <1>2, DeltasType
<1>4. <<Stop(n)>> \in Seq(Events) /\ <<Start(n, b)>> \in Seq(Events) /\ rest \in Seq(Events)
  <2>1. Stop(n) \in Events /\ Start(n, b) \in Events
    BY <1>1, <1>2, EventTypes
  <2>2. <<Stop(n)>> \in Seq(Events) /\ <<Start(n, b)>> \in Seq(Events)
    BY <2>1
  <2>3. QED
    BY <1>2, <2>2, ConcatProperties
<1>5. \A k : Coming(back, n, k) = SubSeq(d, k + 1, L) \o rest
  BY DEF Coming
<1>6. After(back, n) = BlockEvents(n, b) \o After(back, n + 1)
  BY AfterSteps
<1>7. BlockEvents(n, b) = <<Start(n, b)>> \o (d \o <<Stop(n)>>)
  BY <1>1, <1>2, BlockEventsAre
<1> HIDE DEF b, d, rest
<1>8. \A k \in 0 .. L : SubSeq(d, k + 1, L) \in Seq(Events)
  <2>1. TAKE k \in 0 .. L
  <2>2. \A i \in k + 1 .. L : d[i] \in Events
    BY <1>3, ElementOfSeq
  <2>3. k + 1 \in Int /\ L \in Int
    BY <1>3
  <2>4. QED
    BY <2>2, <2>3, SubSeqProperties
<1>9. \A k \in 0 .. L : Coming(back, n, k) \in Seq(Events) /\ Len(Coming(back, n, k)) >= 1
  <2>1. TAKE k \in 0 .. L
  <2>2. Len(rest) >= 1
    <3>1. Len(<<Stop(n)>>) = 1
      OBVIOUS
    <3>2. Len(rest) = Len(<<Stop(n)>>) + Len(After(back, n + 1)) /\ Len(After(back, n + 1)) \in Nat
      BY <1>2, <1>4, ConcatProperties, LenProperties DEF rest
    <3>3. QED
      BY <3>1, <3>2
  <2> DEFINE front == SubSeq(d, k + 1, L)
  <2>3. front \in Seq(Events) /\ Coming(back, n, k) = front \o rest
    BY <1>5, <1>8
  <2> HIDE DEF front
  <2>4. /\ front \o rest \in Seq(Events) /\ Len(front \o rest) = Len(front) + Len(rest)
        /\ Len(front) \in Nat /\ Len(rest) \in Nat
    BY <1>4, <2>3, ConcatProperties, LenProperties
  <2>5. QED
    BY <2>2, <2>3, <2>4
<1>10. After(back, n) = <<Start(n, b)>> \o Coming(back, n, 0)
  <2> DEFINE after == After(back, n + 1)
  <2>1. SubSeq(d, 0 + 1, L) = d
    BY <1>3, SubSeqFull
  <2>2. d \o <<Stop(n)>> \in Seq(Events)
    BY <1>3, <1>4, ConcatProperties
  <2>3. (<<Start(n, b)>> \o (d \o <<Stop(n)>>)) \o after = <<Start(n, b)>> \o ((d \o <<Stop(n)>>) \o after)
    BY <1>2, <1>4, <2>2, EventsJoin, SMTT(20)
  <2>4. (d \o <<Stop(n)>>) \o after = d \o (<<Stop(n)>> \o after)
    BY <1>2, <1>3, <1>4, EventsJoin
  <2>5. QED
    BY <1>5, <1>6, <1>7, <2>1, <2>3, <2>4 DEF rest
<1>11. ASSUME NEW k \in 0 .. L - 1
       PROVE  Coming(back, n, k) = <<Delta(n, b, k + 1)>> \o Coming(back, n, k + 1)
  <2>1. k + 1 \in 1 .. Len(d) /\ L \in k + 1 .. Len(d) /\ k + 1 \in 1 .. L /\ k + 1 \in 0 .. L
    BY <1>3
  <2> DEFINE e == Delta(n, b, k + 1)
             later == SubSeq(d, (k + 1) + 1, L)
  <2>2. d[k + 1] = e /\ e \in Events
    BY <1>3, <2>1, ElementOfSeq
  <2>3. SubSeq(d, k + 1, L) = <<e>> \o later
    <3>1. SubSeq(d, k + 1, L) = <<d[k + 1]>> \o SubSeq(d, (k + 1) + 1, L)
      BY <1>3, <2>1, SubSeqRecursiveFirst
    <3>2. QED
      BY <2>2, <3>1
  <2>4. later \in Seq(Events)
    BY <1>8, <2>1
  <2>5. Coming(back, n, k) = SubSeq(d, k + 1, L) \o rest /\ Coming(back, n, k + 1) = later \o rest
    BY <1>5
  <2> HIDE DEF e, later
  <2>6. <<e>> \in Seq(Events)
    BY <2>2
  <2>7. (<<e>> \o later) \o rest = <<e>> \o (later \o rest)
    BY <1>4, <2>4, <2>6, EventsJoin
  <2>8. QED
    BY <2>3, <2>5, <2>7 DEF e
<1>12. Coming(back, n, L) = rest
  <2>1. SubSeq(d, L + 1, L) = <<>>
    BY <1>3, SubSeqEmpty
  <2>2. QED
    BY <1>4, <1>5, <2>1, ConcatEmptySeq
<1>13. QED
  BY <1>9, <1>10, <1>11, <1>12 DEF b, rest

LEMMA FirstOfEvents ==
  ASSUME NEW e \in Events, NEW s \in Seq(Events)
  PROVE  /\ <<e>> \o s # <<>> /\ Head(<<e>> \o s) = e /\ Tail(<<e>> \o s) = s
         /\ Len(<<e>> \o s) = Len(s) + 1 /\ <<e>> \o s \in Seq(Events)
BY FirstOfLine

-----------------------------------------------------------------------------
\* What the agent has heard after the first n blocks, and k pieces of the next one.
PartOf(b, k) == [b EXCEPT !.text = SubSeq(b.text, 1, k)]
Heard(back, n) == [content |-> SubSeq(back.content, 1, n), stop |-> "none"]
HeardPart(back, n, k) ==
  [content |-> Append(SubSeq(back.content, 1, n), PartOf(back.content[n + 1], k)), stop |-> "none"]

\* How far the agent got with an answer.
BeforeBlock(back, h, e) ==
  \E n \in 0 .. Len(back.content) : h = Heard(back, n) /\ e = After(back, n)
WithinBlock(back, h, e) ==
  \E n \in 0 .. Len(back.content) - 1 : \E k \in 0 .. Len(back.content[n + 1].text) :
    h = HeardPart(back, n, k) /\ e = Coming(back, n, k)
Hearing(back, h, e) ==
  \/ h = Nothing /\ e = <<Begin>> \o After(back, 0)
  \/ BeforeBlock(back, h, e)
  \/ WithinBlock(back, h, e)
  \/ h = back /\ e = <<End>>

LEMMA PartFacts ==
  ASSUME NEW b \in Sendable
  PROVE  /\ Opened(b) = PartOf(b, 0)
         /\ PartOf(b, Len(b.text)) = b
         /\ \A k \in 0 .. Len(b.text) : PartOf(b, k) \in Blocks
         /\ \A k \in 0 .. Len(b.text) - 1 :
              [PartOf(b, k) EXCEPT !.text = @ \o Text(<<b.text[k + 1]>>).text] = PartOf(b, k + 1)
<1>1. b \in Blocks /\ b.text \in Phrases
  BY SendableFacts DEF Blocks
<1>2. Len(b.text) \in Nat
  BY <1>1, LenProperties DEF Phrases
<1>3. SubSeq(b.text, 1, 0) = <<>>
  BY SubSeqEmpty
<1>4. SubSeq(b.text, 1, Len(b.text)) = b.text
  BY <1>1, SubSeqFull DEF Phrases
<1>5. \A k \in 0 .. Len(b.text) : SubSeq(b.text, 1, k) \in Phrases
  <2>1. TAKE k \in 0 .. Len(b.text)
  <2>2. \A i \in 1 .. k : b.text[i] \in Letters
    BY <1>1, <1>2, ElementOfSeq DEF Phrases
  <2>3. QED
    BY <1>2, <2>2, SubSeqProperties DEF Phrases
<1>6. \A k \in 0 .. Len(b.text) - 1 : SubSeq(b.text, 1, k) \o <<b.text[k + 1]>> = SubSeq(b.text, 1, k + 1)
  <2>1. TAKE k \in 0 .. Len(b.text) - 1
  <2>2. SUFFICES ASSUME NEW m, m = k + 1
                 PROVE  SubSeq(b.text, 1, k) \o <<b.text[m]>> = SubSeq(b.text, 1, m)
    OBVIOUS
  <2>3. 1 \in 1 .. Len(b.text) /\ m \in 1 .. Len(b.text) /\ m - 1 = k
    BY <1>2, <2>2
  <2>4. SubSeq(b.text, 1, m) = SubSeq(b.text, 1, m - 1) \o <<b.text[m]>>
    BY <1>1, <2>3, SubSeqRecursiveSecond DEF Phrases
  <2>5. QED
    BY <2>3, <2>4
<1>7. Opened(b) = PartOf(b, 0)
  <2>1. CASE b = Text(b.text) /\ b.type = "text"
    BY <1>3, <2>1 DEF Opened, PartOf, Text
  <2>2. CASE b.type = "tool_use" /\ b.text = <<>>
    <3>1. [b EXCEPT !.text = <<>>] = b
      BY <1>1, <2>2 DEF Blocks
    <3>2. QED
      BY <1>3, <2>2, <3>1 DEF Opened, PartOf
  <2>3. QED
    BY <2>1, <2>2, SendableFacts
<1>8. PartOf(b, Len(b.text)) = b
  BY <1>1, <1>4 DEF PartOf, Blocks
<1>9. \A k \in 0 .. Len(b.text) : PartOf(b, k) \in Blocks
  BY <1>1, <1>5 DEF PartOf, Blocks
<1>10. ASSUME NEW k \in 0 .. Len(b.text) - 1
       PROVE  [PartOf(b, k) EXCEPT !.text = @ \o Text(<<b.text[k + 1]>>).text] = PartOf(b, k + 1)
  <2>1. Text(<<b.text[k + 1]>>).text = <<b.text[k + 1]>>
    BY DEF Text
  <2>2. SubSeq(b.text, 1, k) \o <<b.text[k + 1]>> = SubSeq(b.text, 1, k + 1)
    BY <1>6
  <2>3. PartOf(b, k).text = SubSeq(b.text, 1, k)
    BY <1>1 DEF PartOf, Blocks
  <2>4. [PartOf(b, k) EXCEPT !.text = SubSeq(b.text, 1, k + 1)] = PartOf(b, k + 1)
    BY <1>1 DEF PartOf, Blocks
  <2>5. QED
    BY <2>1, <2>2, <2>3, <2>4
<1>11. QED
  BY <1>7, <1>8, <1>9, <1>10

LEMMA FirstBlocks ==
  ASSUME NEW back \in Backs
  PROVE  /\ SubSeq(back.content, 1, 0) = <<>>
         /\ SubSeq(back.content, 1, Len(back.content)) = back.content
         /\ \A n \in 0 .. Len(back.content) :
              SubSeq(back.content, 1, n) \in Seq(Blocks) /\ Len(SubSeq(back.content, 1, n)) = n
         /\ \A n \in 0 .. Len(back.content) - 1 :
              Append(SubSeq(back.content, 1, n), back.content[n + 1]) = SubSeq(back.content, 1, n + 1)
<1> DEFINE c == back.content
<1>1. c \in Seq(Blocks) /\ Len(c) \in Nat /\ \A n \in 1 .. Len(c) : c[n] \in Blocks
  <2>1. c \in Seq(Sendable)
    BY DEF Backs
  <2>2. c \in Seq(Blocks)
    BY <2>1, SendableFacts, SeqMonotonic
  <2>3. QED
    BY <2>2, LenProperties, ElementOfSeq
<1> HIDE DEF c
<1>2. SubSeq(c, 1, 0) = <<>> /\ SubSeq(c, 1, Len(c)) = c
  BY <1>1, SubSeqEmpty, SubSeqFull
<1>3. \A n \in 0 .. Len(c) : SubSeq(c, 1, n) \in Seq(Blocks) /\ Len(SubSeq(c, 1, n)) = n
  <2>1. TAKE n \in 0 .. Len(c)
  <2>2. \A i \in 1 .. n : c[i] \in Blocks
    BY <1>1
  <2>3. SubSeq(c, 1, n) \in Seq(Blocks) /\ Len(SubSeq(c, 1, n)) = IF 1 <= n THEN n - 1 + 1 ELSE 0
    BY <1>1, <2>2, SubSeqProperties
  <2>4. QED
    BY <1>1, <2>3
<1>4. \A n \in 0 .. Len(c) - 1 : Append(SubSeq(c, 1, n), c[n + 1]) = SubSeq(c, 1, n + 1)
  <2>1. TAKE n \in 0 .. Len(c) - 1
  <2>2. SUFFICES ASSUME NEW m, m = n + 1
                 PROVE  Append(SubSeq(c, 1, n), c[m]) = SubSeq(c, 1, m)
    OBVIOUS
  <2>3. 1 \in 1 .. Len(c) /\ m \in 1 .. Len(c) /\ m - 1 = n /\ n \in 0 .. Len(c)
    BY <1>1, <2>2
  <2>4. SubSeq(c, 1, m) = SubSeq(c, 1, m - 1) \o <<c[m]>>
    BY <1>1, <2>3, SubSeqRecursiveSecond
  <2>5. Append(SubSeq(c, 1, n), c[m]) = SubSeq(c, 1, n) \o <<c[m]>>
    BY <1>1, <1>3, <2>3, AppendIsConcat
  <2>6. QED
    BY <2>3, <2>4, <2>5
<1>5. QED
  BY <1>2, <1>3, <1>4 DEF c

LEMMA EventFields ==
  ASSUME NEW back, NEW n, NEW b, NEW k
  PROVE  /\ Begin.type = "message_start" /\ End.type = "message_stop"
         /\ Closing(back).type = "message_delta" /\ Closing(back).stop = back.stop
         /\ Start(n, b).type = "content_block_start" /\ Start(n, b).index = n /\ Start(n, b).block = Opened(b)
         /\ Delta(n, b, k).type = "content_block_delta" /\ Delta(n, b, k).index = n
         /\ Delta(n, b, k).block = Text(<<b.text[k]>>)
         /\ Stop(n).type = "content_block_stop"
BY DEF Begin, End, Closing, Start, Delta, Stop, Event

\* A block begins.
LEMMA HearsStart ==
  ASSUME NEW back \in Backs, NEW n \in 0 .. Len(back.content) - 1
  PROVE  Accumulated(Heard(back, n), Start(n, back.content[n + 1])) = HeardPart(back, n, 0)
<1> DEFINE b == back.content[n + 1]
           c == SubSeq(back.content, 1, n)
           e == Start(n, b)
           more == [k \in 1 .. (IF Len(c) > e.index THEN Len(c) ELSE e.index + 1) |->
                      IF k = e.index + 1 THEN e.block ELSE c[k]]
<1>1. n \in Nat /\ n + 1 \in 1 .. Len(back.content) /\ n \in 0 .. Len(back.content) /\ b \in Sendable
  <2>1. Len(back.content) \in Nat /\ \A k \in 1 .. Len(back.content) : back.content[k] \in Sendable
    BY AfterSteps
  <2>2. n \in Nat /\ n + 1 \in 1 .. Len(back.content) /\ n \in 0 .. Len(back.content)
    BY <2>1
  <2>3. QED
    BY <2>1, <2>2
<1>2. c \in Seq(Blocks) /\ Len(c) = n
  BY <1>1, FirstBlocks
<1>3. e.type = "content_block_start" /\ e.index = n /\ e.block = PartOf(b, 0) /\ e.block \in Blocks
  <2> HIDE DEF b, c, more
  <2>1. e.block = Opened(b) /\ e.index = n /\ e.type = "content_block_start"
    BY DEF Start, Event
  <2>2. Opened(b) = PartOf(b, 0) /\ PartOf(b, 0) \in Blocks
    <3>1. Len(b.text) \in Nat
      BY <1>1, DeltasType
    <3>2. 0 \in 0 .. Len(b.text)
      BY <3>1
    <3> HIDE DEF e
    <3>3. Opened(b) = PartOf(b, 0)
      BY <1>1, PartFacts
    <3>4. PartOf(b, 0) \in Blocks
      BY <1>1, <3>2, PartFacts
    <3>5. QED
      BY <3>3, <3>4
  <2>3. QED
    BY <2>1, <2>2
<1>4. Accumulated(Heard(back, n), e) = [content |-> more, stop |-> "none"]
  BY <1>3 DEF Accumulated, Heard
<1> HIDE DEF b, c, e
<1>5. more = Append(c, e.block)
  <2>1. more = [k \in 1 .. n + 1 |-> IF k = n + 1 THEN e.block ELSE c[k]]
    BY <1>1, <1>2, <1>3
  <2>2. \A k \in 1 .. n + 1 : k = n + 1 \/ (k \in 1 .. n /\ k # n + 1)
    BY <1>1
  <2>3. /\ Append(c, e.block) \in Seq(Blocks) /\ Len(Append(c, e.block)) = n + 1
        /\ \A k \in 1 .. n : Append(c, e.block)[k] = c[k]
        /\ Append(c, e.block)[n + 1] = e.block
    BY <1>2, <1>3, AppendProperties
  <2>4. Append(c, e.block) = [k \in 1 .. n + 1 |-> Append(c, e.block)[k]]
    BY <2>3, LenProperties
  <2> HIDE DEF more
  <2>5. QED
    BY <2>1, <2>2, <2>3, <2>4
<1>6. HeardPart(back, n, 0) = [content |-> Append(c, PartOf(b, 0)), stop |-> "none"]
  BY DEF HeardPart, b, c
<1>7. QED
  BY <1>3, <1>4, <1>5, <1>6 DEF e, b

\* A piece of its text, and its end.
LEMMA HearsDelta ==
  ASSUME NEW back \in Backs, NEW n \in 0 .. Len(back.content) - 1,
         NEW k \in 0 .. Len(back.content[n + 1].text) - 1
  PROVE  Accumulated(HeardPart(back, n, k), Delta(n, back.content[n + 1], k + 1)) = HeardPart(back, n, k + 1)
<1> DEFINE b == back.content[n + 1]
           c == SubSeq(back.content, 1, n)
           p == PartOf(b, k)
           acc == HeardPart(back, n, k)
           e == Delta(n, b, k + 1)
<1>1. n \in Nat /\ n + 1 \in 1 .. Len(back.content) /\ n \in 0 .. Len(back.content) /\ b \in Sendable
  BY AfterSteps
<1>2. c \in Seq(Blocks) /\ Len(c) = n
  BY <1>1, FirstBlocks
<1>3. e.type = "content_block_delta" /\ e.index = n /\ e.block = Text(<<b.text[k + 1]>>)
  BY EventFields
<1>4. p \in Blocks /\ PartOf(b, k + 1) \in Blocks
      /\ [p EXCEPT !.text = @ \o Text(<<b.text[k + 1]>>).text] = PartOf(b, k + 1)
  <2>1. Len(b.text) \in Nat
    BY <1>1, DeltasType
  <2>2. k \in 0 .. Len(b.text) /\ k + 1 \in 0 .. Len(b.text) /\ k \in 0 .. Len(b.text) - 1
    BY <2>1
  <2>3. QED
    BY <1>1, <2>2, PartFacts
<1>5. acc = [content |-> Append(c, p), stop |-> "none"]
  BY DEF HeardPart
<1>6. HeardPart(back, n, k + 1) = [content |-> Append(c, PartOf(b, k + 1)), stop |-> "none"]
  BY DEF HeardPart
<1> DEFINE q == Append(c, p)
<1>7. /\ q \in Seq(Blocks) /\ Len(q) = n + 1 /\ q[n + 1] = p
      /\ \A i \in 1 .. n : q[i] = c[i]
  BY <1>2, <1>4, AppendProperties
<1> HIDE DEF b, c, p, e, acc
<1>8. Accumulated(acc, e) = [acc EXCEPT !.content[n + 1].text = @ \o e.block.text]
  <2>1. e.index < Len(acc.content)
    BY <1>1, <1>3, <1>5, <1>7
  <2>2. QED
    BY <1>3, <2>1 DEF Accumulated
<1> HIDE DEF q
<1>9. [acc EXCEPT !.content[n + 1].text = @ \o e.block.text]
        = [content |-> [q EXCEPT ![n + 1] = [q[n + 1] EXCEPT !.text = @ \o e.block.text]], stop |-> "none"]
  <2>1. acc = [content |-> q, stop |-> "none"]
    BY <1>5 DEF q
  <2>2. acc.content = q /\ [acc EXCEPT !.content = [q EXCEPT ![n + 1] = [q[n + 1] EXCEPT !.text = @ \o e.block.text]]]
                            = [content |-> [q EXCEPT ![n + 1] = [q[n + 1] EXCEPT !.text = @ \o e.block.text]], stop |-> "none"]
    BY <2>1
  <2>3. QED
    BY <2>2
<1>10. [q[n + 1] EXCEPT !.text = @ \o e.block.text] = PartOf(b, k + 1)
  BY <1>3, <1>4, <1>7
<1>11. [q EXCEPT ![n + 1] = PartOf(b, k + 1)] = Append(c, PartOf(b, k + 1))
  <2> DEFINE x == PartOf(b, k + 1)
             r == [q EXCEPT ![n + 1] = x]
             t == Append(c, x)
  <2>1. x \in Blocks
    BY <1>4
  <2> HIDE DEF x
  <2>2. n + 1 \in 1 .. Len(q)
    BY <1>1, <1>7
  <2>3. /\ r \in Seq(Blocks) /\ Len(r) = Len(q)
        /\ \A j \in 1 .. Len(q) : r[j] = IF j = n + 1 THEN x ELSE q[j]
    BY <1>7, <2>1, <2>2, ExceptSeq
  <2>4. /\ t \in Seq(Blocks) /\ Len(t) = n + 1 /\ t[n + 1] = x
        /\ \A i \in 1 .. n : t[i] = c[i]
    BY <1>2, <2>1, AppendProperties
  <2>5. \A j \in 1 .. Len(r) : r[j] = t[j]
    <3>1. TAKE j \in 1 .. Len(r)
    <3>2. j = n + 1 \/ (j \in 1 .. n /\ j # n + 1)
      BY <1>1, <1>7, <2>3
    <3> HIDE DEF r, t
    <3>3. QED
      BY <1>7, <2>3, <2>4, <3>2
  <2> HIDE DEF r, t
  <2>6. r = t
    BY <1>7, <2>3, <2>4, <2>5, SeqEqual
  <2>7. QED
    BY <2>6 DEF r, t, x
<1>12. QED
  BY <1>6, <1>8, <1>9, <1>10, <1>11 DEF acc, e, b

LEMMA HearsOthers ==
  ASSUME NEW back \in Backs
  PROVE  /\ Accumulated(Nothing, Begin) = Heard(back, 0)
         /\ \A n \in 0 .. Len(back.content) - 1 :
              Accumulated(HeardPart(back, n, Len(back.content[n + 1].text)), Stop(n)) = Heard(back, n + 1)
         /\ Accumulated(Heard(back, Len(back.content)), Closing(back)) = back
         /\ Accumulated(back, End) = back
<1>1. Accumulated(Nothing, Begin) = Heard(back, 0)
  <2>1. Accumulated(Nothing, Begin) = Nothing
    BY EventFields DEF Accumulated
  <2>2. QED
    BY <2>1, FirstBlocks DEF Nothing, Heard
<1>2. ASSUME NEW n \in 0 .. Len(back.content) - 1
      PROVE  Accumulated(HeardPart(back, n, Len(back.content[n + 1].text)), Stop(n)) = Heard(back, n + 1)
  <2> DEFINE b == back.content[n + 1]
             acc == HeardPart(back, n, Len(b.text))
  <2>1. Accumulated(acc, Stop(n)) = acc
    BY EventFields DEF Accumulated
  <2>2. n + 1 \in 1 .. Len(back.content) /\ b \in Sendable
    BY AfterSteps
  <2>3. PartOf(b, Len(b.text)) = b
    BY <2>2, PartFacts
  <2>4. Append(SubSeq(back.content, 1, n), b) = SubSeq(back.content, 1, n + 1)
    BY FirstBlocks
  <2>5. acc = [content |-> Append(SubSeq(back.content, 1, n), PartOf(b, Len(b.text))), stop |-> "none"]
    BY DEF HeardPart
  <2> HIDE DEF b, acc
  <2>6. acc = Heard(back, n + 1)
    BY <2>3, <2>4, <2>5 DEF Heard
  <2>7. QED
    BY <2>1, <2>6 DEF acc, b
<1>3. Accumulated(Heard(back, Len(back.content)), Closing(back)) = back
  <2>1. Heard(back, Len(back.content)) = [content |-> back.content, stop |-> "none"]
    BY FirstBlocks DEF Heard
  <2> DEFINE h == Heard(back, Len(back.content))
  <2> HIDE DEF h
  <2>2. Accumulated(h, Closing(back)) = [content |-> back.content, stop |-> back.stop]
    <3>1. Closing(back).type = "message_delta" /\ Closing(back).stop = back.stop
      BY DEF Closing, Event
    <3>2. Accumulated(h, Closing(back)) = [h EXCEPT !.stop = Closing(back).stop]
      BY <3>1 DEF Accumulated
    <3>3. h = [content |-> back.content, stop |-> "none"]
      BY <2>1 DEF h
    <3>4. QED
      BY <3>1, <3>2, <3>3
  <2>3. back = [content |-> back.content, stop |-> back.stop]
    BY DEF Backs
  <2>4. QED
    BY <2>2, <2>3 DEF h
<1>4. Accumulated(back, End) = back
  BY EventFields DEF Accumulated
<1>5. QED
  BY <1>1, <1>2, <1>3, <1>4

LEMMA HearingStep ==
  ASSUME NEW back \in Backs, NEW h, NEW e, Hearing(back, h, e)
  PROVE  /\ e # <<>>
         /\ Len(e) = 1 => Accumulated(h, Head(e)) = back
         /\ Len(e) # 1 => Hearing(back, Accumulated(h, Head(e)), Tail(e))
<1>1. CASE h = Nothing /\ e = <<Begin>> \o After(back, 0)
  <2>1. 0 \in 0 .. Len(back.content) /\ After(back, 0) \in Seq(Events) /\ Len(After(back, 0)) >= 2
    BY AfterSteps
  <2>2. Begin \in Events /\ Len(After(back, 0)) \in Nat
    BY <2>1, EventTypes, LenProperties
  <2>3. e # <<>> /\ Head(e) = Begin /\ Tail(e) = After(back, 0) /\ Len(e) = Len(After(back, 0)) + 1
    BY <1>1, <2>1, <2>2, FirstOfEvents
  <2>4. Accumulated(h, Head(e)) = Heard(back, 0)
    BY <1>1, <2>3, HearsOthers
  <2>5. BeforeBlock(back, Accumulated(h, Head(e)), Tail(e))
    BY <2>1, <2>3, <2>4 DEF BeforeBlock
  <2>6. Len(e) # 1
    BY <2>1, <2>2, <2>3
  <2>7. QED
    BY <2>3, <2>5, <2>6 DEF Hearing
<1>2. CASE BeforeBlock(back, h, e)
  <2>1. PICK n \in 0 .. Len(back.content) : h = Heard(back, n) /\ e = After(back, n)
    BY <1>2 DEF BeforeBlock
  <2>2. CASE n = Len(back.content)
    <3>1. e = <<Closing(back), End>>
      BY <2>1, <2>2, AfterSteps
    <3>2. e # <<>> /\ Head(e) = Closing(back) /\ Tail(e) = <<End>> /\ Len(e) = 2
      BY <3>1
    <3>3. Accumulated(h, Head(e)) = back
      BY <2>1, <2>2, <3>2, HearsOthers
    <3>4. QED
      BY <3>2, <3>3 DEF Hearing
  <2>3. CASE n # Len(back.content)
    <3> DEFINE b == back.content[n + 1]
    <3>1. n \in 0 .. Len(back.content) - 1 /\ n \in Nat /\ n + 1 \in 1 .. Len(back.content)
      BY <2>3, AfterSteps
    <3>2. b \in Sendable /\ Len(After(back, n)) >= 2
      BY <2>1, <3>1, AfterSteps
    <3>3. 0 \in 0 .. Len(b.text)
      <4>1. Len(b.text) \in Nat
        BY <3>1, <3>2, DeltasType
      <4>2. QED
        BY <4>1
    <3>4. Coming(back, n, 0) \in Seq(Events) /\ After(back, n) = <<Start(n, b)>> \o Coming(back, n, 0)
      BY <3>1, <3>3, ComingSteps
    <3>5. Start(n, b) \in Events
      BY <3>1, <3>2, EventTypes
    <3>6. e # <<>> /\ Head(e) = Start(n, b) /\ Tail(e) = Coming(back, n, 0)
      BY <2>1, <3>4, <3>5, FirstOfEvents
    <3>7. Accumulated(h, Head(e)) = HeardPart(back, n, 0)
      BY <2>1, <3>1, <3>6, HearsStart
    <3> HIDE DEF b
    <3>8. WithinBlock(back, Accumulated(h, Head(e)), Tail(e))
      BY <3>1, <3>3, <3>6, <3>7 DEF WithinBlock, b
    <3>9. Len(e) # 1
      <4>1. Len(Coming(back, n, 0)) >= 1 /\ Len(Coming(back, n, 0)) \in Nat
        BY <3>1, <3>3, <3>4, ComingSteps, LenProperties DEF b
      <4>2. Len(e) = Len(Coming(back, n, 0)) + 1
        BY <2>1, <3>4, <3>5, FirstOfEvents
      <4>3. QED
        BY <4>1, <4>2
    <3>10. QED
      BY <3>6, <3>8, <3>9 DEF Hearing
  <2>4. QED
    BY <2>2, <2>3
<1>3. CASE WithinBlock(back, h, e)
  <2>0. PICK n \in 0 .. Len(back.content) - 1 :
          \E k \in 0 .. Len(back.content[n + 1].text) : h = HeardPart(back, n, k) /\ e = Coming(back, n, k)
    BY <1>3 DEF WithinBlock
  <2>1. PICK k \in 0 .. Len(back.content[n + 1].text) : h = HeardPart(back, n, k) /\ e = Coming(back, n, k)
    BY <2>0
  <2> DEFINE b == back.content[n + 1]
             L == Len(b.text)
  <2>2. n \in Nat /\ n + 1 \in 1 .. Len(back.content) /\ n + 1 \in 0 .. Len(back.content)
    BY AfterSteps
  <2>3. b \in Sendable /\ After(back, n + 1) \in Seq(Events) /\ Len(After(back, n + 1)) >= 2
    BY <2>2, AfterSteps
  <2>4. L \in Nat
    BY <2>2, <2>3, DeltasType
  <2>5. CASE k = L
    <3>1. e = <<Stop(n)>> \o After(back, n + 1)
      BY <2>1, <2>5, ComingSteps
    <3>2. Stop(n) \in Events /\ Len(After(back, n + 1)) \in Nat
      BY <2>2, <2>3, EventTypes, LenProperties
    <3>3. /\ e # <<>> /\ Head(e) = Stop(n) /\ Tail(e) = After(back, n + 1)
          /\ Len(e) = Len(After(back, n + 1)) + 1
      BY <2>3, <3>1, <3>2, FirstOfEvents
    <3>4. Accumulated(h, Head(e)) = Heard(back, n + 1)
      BY <2>1, <2>5, <3>3, HearsOthers
    <3>5. BeforeBlock(back, Accumulated(h, Head(e)), Tail(e))
      BY <2>2, <3>3, <3>4 DEF BeforeBlock
    <3>6. Len(e) # 1
      BY <2>3, <3>2, <3>3
    <3>7. QED
      BY <3>3, <3>5, <3>6 DEF Hearing
  <2>6. CASE k # L
    <3>1. k \in 0 .. L - 1 /\ k + 1 \in 0 .. L
      BY <2>1, <2>4, <2>6
    <3>2. /\ Coming(back, n, k + 1) \in Seq(Events) /\ Len(Coming(back, n, k + 1)) >= 1
          /\ Coming(back, n, k) = <<Delta(n, b, k + 1)>> \o Coming(back, n, k + 1)
      BY <3>1, ComingSteps
    <3>3. Delta(n, b, k + 1) \in Events /\ Len(Coming(back, n, k + 1)) \in Nat
      <4> HIDE DEF b
      <4>1. k + 1 \in 1 .. L
        BY <2>4, <3>1
      <4>2. /\ Deltas(n, b) \in Seq(Events) /\ Len(Deltas(n, b)) = L
            /\ Deltas(n, b)[k + 1] = Delta(n, b, k + 1)
        BY <2>2, <2>3, <4>1, DeltasType
      <4>3. QED
        BY <3>2, <4>1, <4>2, ElementOfSeq, LenProperties
    <3>4. /\ e # <<>> /\ Head(e) = Delta(n, b, k + 1) /\ Tail(e) = Coming(back, n, k + 1)
          /\ Len(e) = Len(Coming(back, n, k + 1)) + 1
      BY <2>1, <3>2, <3>3, FirstOfEvents
    <3>5. Accumulated(h, Head(e)) = HeardPart(back, n, k + 1)
      BY <2>1, <3>1, <3>4, HearsDelta
    <3>6. WithinBlock(back, Accumulated(h, Head(e)), Tail(e))
      BY <3>1, <3>4, <3>5 DEF WithinBlock
    <3>7. Len(e) # 1
      BY <3>2, <3>3, <3>4
    <3>8. QED
      BY <3>4, <3>6, <3>7 DEF Hearing
  <2>7. QED
    BY <2>5, <2>6
<1>4. CASE h = back /\ e = <<End>>
  <2>1. e # <<>> /\ Head(e) = End /\ Len(e) = 1
    BY <1>4
  <2>2. QED
    BY <1>4, <2>1, HearsOthers
<1>5. QED
  BY <1>1, <1>2, <1>3, <1>4 DEF Hearing

-----------------------------------------------------------------------------
\* What the backends answer, for any bounds.
Talks == [role : {"user", "assistant"}, content : Seq(Blocks), calls : {<<>>}, id : {NoCall}]

LEMMA FreshIsNew ==
  ASSUME talk \in Seq(Talks)
  PROVE  \A n \in Nat : Fresh(n) \in Nat
<1>1. Len(talk) \in Nat /\ DOMAIN talk = 1 .. Len(talk)
  BY LenProperties
<1>2. IsFiniteSet({k \in DOMAIN talk : talk[k].role = "assistant"})
  <2>1. IsFiniteSet(DOMAIN talk)
    BY <1>1, FS_Interval
  <2>2. {k \in DOMAIN talk : talk[k].role = "assistant"} \subseteq DOMAIN talk
    OBVIOUS
  <2>3. QED
    BY <2>1, <2>2, FS_Subset
<1>3. Turns \in Nat
  BY <1>2, FS_CardinalityType DEF Turns
<1>4. MaxBlocks \in Nat
  BY BridgeAssumption
<1>5. (MaxBlocks + 1) * (Turns + 1) \in Nat
  BY <1>3, <1>4
<1> HIDE DEF Turns
<1>6. QED
  BY <1>5 DEF Fresh

LEMMA RepliesType ==
  ASSUME talk \in Seq(Talks)
  PROVE  AgentReplies \subseteq Replies /\ CodexReplies \subseteq Replies
<1>1. \A p \in Parts, n \in Nat : Part(p, n) \in Blocks
  <2>1. TAKE p \in Parts, n \in Nat
  <2>2. Fresh(n) \in Nat
    BY FreshIsNew
  <2>3. /\ Text(<<"a">>) \in Blocks /\ Text(<<"b", "c">>) \in Blocks /\ Text(<<>>) \in Blocks
        /\ Thinking \in Blocks /\ Use(Fresh(n)) \in Blocks
    BY <2>2, BlockFacts, PhraseFacts DEF OfKind, Letters
  <2>4. QED
    BY <2>3 DEF Part
<1>2. \A r \in AgentReplies : r \in [content : Seq(Blocks), stop : {"end_turn", "max_tokens"}]
  <2>1. TAKE r \in AgentReplies
  <2>2. PICK s \in UNION {[1 .. n -> Parts] : n \in 0 .. MaxBlocks}, stop \in {"end_turn", "max_tokens"} :
          r = [content |-> [k \in DOMAIN s |-> Part(s[k], k)], stop |-> stop]
    BY DEF AgentReplies
  <2>3. PICK n \in Nat : s \in [1 .. n -> Parts]
    BY <2>2, BridgeAssumption
  <2>4. \A k \in 1 .. n : Part(s[k], k) \in Blocks
    BY <1>1, <2>3
  <2>5. [k \in DOMAIN s |-> Part(s[k], k)] \in Seq(Blocks)
    BY <2>3, <2>4
  <2>6. QED
    BY <2>2, <2>5
<1>3. AgentReplies \subseteq Replies
  BY <1>2 DEF Replies
<1>4. \A r \in AgentReplies : CutOff(r) \in Replies
  <2>1. TAKE r \in AgentReplies
  <2> DEFINE c == r.content
             n == Len(c)
             cut == [c EXCEPT ![n] = [c[n] EXCEPT !.type = "cut"]]
  <2>2. r \in Replies /\ c \in Seq(Blocks) /\ n \in Nat /\ r.stop \in {"end_turn", "max_tokens"}
    BY <1>2, <1>3, LenProperties
  <2>3. CASE n > 0 /\ r.stop = "max_tokens" /\ c[n].type = "tool_use"
    <3>1. CutOff(r) = [r EXCEPT !.content = cut]
      BY <2>3 DEF CutOff
    <3>2. n \in 1 .. Len(c) /\ c[n] \in Blocks
      BY <2>2, <2>3, ElementOfSeq
    <3>3. [c[n] EXCEPT !.type = "cut"] \in Blocks
      BY <3>2 DEF Blocks, Kinds
    <3>4. cut \in Seq(Blocks)
      BY <2>2, <3>2, <3>3, ExceptSeq
    <3> HIDE DEF cut
    <3>5. QED
      BY <2>2, <3>1, <3>4 DEF Replies
  <2>4. CASE ~ (n > 0 /\ r.stop = "max_tokens" /\ c[n].type = "tool_use")
    BY <2>2, <2>4 DEF CutOff
  <2>5. QED
    BY <2>3, <2>4
<1>5. CodexReplies \subseteq Replies
  <2>1. \A r \in AgentReplies, failed \in BOOLEAN : [r EXCEPT !.stop = IF failed THEN "failed" ELSE @] \in Replies
    BY <1>2 DEF Replies
  <2>2. QED
    BY <1>4, <2>1 DEF CodexReplies
<1>6. QED
  BY <1>3, <1>5

-----------------------------------------------------------------------------
\* What is still to come is what the agent has not heard of the answer.
BridgeInv ==
  /\ talk \in Seq(Talks)
  /\ stage \in {"compose", "asked", "events", "over"}
  /\ stage = "events" => \E back \in Backs : Whole(back, answer) /\ Hearing(back, heard, events)
  /\ stage = "over" => heard \in Backs /\ Whole(heard, answer)

LEMMA AnswersTell ==
  ASSUME BridgeInv, NEW streamed \in BOOLEAN, AnswerAgent(streamed)
  PROVE  BridgeInv'
<1>1. PICK pair \in Answered :
        /\ answer' = pair[1]
        /\ IF streamed
           THEN stage' = "events" /\ events' = MessageEvents(ToReply(pair[2])) /\ heard' = Nothing
           ELSE stage' = "over" /\ heard' = ToReply(pair[2])
  BY DEF AnswerAgent
<1>2. talk' = talk
  BY DEF AnswerAgent
<1>3. pair[1] \in Replies /\ Telling(pair[2], pair[1])
  <2>1. \E reply \in Replies : pair = <<reply, ToCompletion(reply)>> \/ pair = <<reply, FromCodex(reply)>>
    BY RepliesType DEF Answered, BridgeInv
  <2>2. QED
    BY <2>1, CompletionTells
<1> DEFINE back == ToReply(pair[2])
<1>4. back \in Backs /\ Whole(back, pair[1])
  BY <1>3, ReplyTells
<1> HIDE DEF back
<1>5. CASE streamed
  <2>1. stage' = "events" /\ events' = MessageEvents(back) /\ heard' = Nothing
    BY <1>1, <1>5 DEF back
  <2>2. MessageEvents(back) = <<Begin>> \o After(back, 0)
    BY <1>4, AfterSteps
  <2>3. Hearing(back, heard', events')
    BY <2>1, <2>2 DEF Hearing
  <2>4. QED
    BY <1>1, <1>2, <1>4, <2>1, <2>3 DEF BridgeInv
<1>6. CASE ~ streamed
  <2>1. stage' = "over" /\ heard' = back
    BY <1>1, <1>6 DEF back
  <2>2. QED
    BY <1>1, <1>2, <1>4, <2>1 DEF BridgeInv
<1>7. QED
  BY <1>5, <1>6

LEMMA OpenCallsType ==
  ASSUME talk \in Seq(Talks)
  PROVE  OpenCalls \in Seq(Nat)
<1>1. CASE talk = <<>>
  BY <1>1 DEF OpenCalls
<1>2. CASE talk # <<>>
  <2>1. Len(talk) \in 1 .. Len(talk)
    BY <1>2, LenProperties, EmptySeq
  <2>2. talk[Len(talk)] \in Talks
    BY <2>1, ElementOfSeq
  <2>3. talk[Len(talk)].content \in Seq(Blocks)
    BY <2>2 DEF Talks
  <2>4. CallsOf(talk[Len(talk)]) \in Seq(Nat)
    BY <2>3, CallsAndText
  <2>5. QED
    BY <1>2, <2>4 DEF OpenCalls, CallsOf
<1>3. QED
  BY <1>1, <1>2

LEMMA QuestionType ==
  ASSUME talk \in Seq(Talks), NEW order \in Orders(OpenCalls), NEW remark \in Remarks
  PROVE  Msg("user", [k \in DOMAIN order |-> Result(order[k])] \o remark) \in Talks
<1> DEFINE s == OpenCalls
           results == [k \in DOMAIN order |-> Result(order[k])]
<1>1. s \in Seq(Nat)
  BY OpenCallsType
<1> HIDE DEF s
<1>2. Len(s) \in Nat /\ DOMAIN s = 1 .. Len(s) /\ \A k \in 1 .. Len(s) : s[k] \in Nat
  BY <1>1, LenProperties, ElementOfSeq
<1>3. PICK p \in [DOMAIN s -> DOMAIN s] : order = [k \in DOMAIN s |-> s[p[k]]]
  BY DEF Orders, s
<1>4. DOMAIN order = 1 .. Len(s) /\ \A k \in 1 .. Len(s) : order[k] \in Nat
  BY <1>2, <1>3
<1>5. results \in Seq(Blocks)
  <2>1. \A k \in 1 .. Len(s) : Result(order[k]) \in Blocks
    BY <1>4, BlockFacts DEF OfKind
  <2>2. QED
    BY <1>2, <1>4, <2>1
<1>6. remark \in Seq(Blocks)
  <2>1. Text(<<"a">>) \in Blocks /\ Text(<<>>) \in Blocks /\ Image \in Blocks
    BY BlockFacts, PhraseFacts DEF OfKind, Letters
  <2>2. <<>> \in Seq(Blocks) /\ \A x, y \in Blocks : <<x>> \in Seq(Blocks) /\ <<x, y>> \in Seq(Blocks)
    OBVIOUS
  <2>3. remark = <<>> \/ remark = <<Text(<<"a">>)>> \/ remark = <<Text(<<"a">>), Image>> \/ remark = <<Text(<<>>)>>
    BY DEF Remarks
  <2>4. QED
    BY <2>1, <2>2, <2>3
<1> HIDE DEF results
<1>7. results \o remark \in Seq(Blocks)
  BY <1>5, <1>6, ConcatProperties
<1>8. QED
  BY <1>7 DEF Msg, Talks, results

(* Whatever is asked, and whatever the backends answer within any bounds,  *)
(* the agent hears what the model said: its text, and its calls with their *)
(* ids in order, whole or as events that it puts together again, and the   *)
(* reason it stopped for.  At every moment of a stream, what is still to   *)
(* come is what the agent has not heard of that very answer.               *)
(* toOpenAIResponse(), fromCodexResponse(), toAnthropicMessage(),          *)
(* _anthropicJsonToSSE(), _accumAnthropicChunk().                          *)
THEOREM AgentHearsItAll == BridgeSpec => []AnswerIsWhole
<1>1. BridgeInit => BridgeInv
  BY DEF BridgeInit, BridgeInv
<1>2. BridgeInv /\ [BridgeNext]_bridgeVars => BridgeInv'
  <2>1. SUFFICES ASSUME BridgeInv, [BridgeNext]_bridgeVars
                 PROVE  BridgeInv'
    OBVIOUS
  <2>2. CASE Compose
    <3>1. PICK order \in Orders(OpenCalls), remark \in Remarks :
            talk' = Append(talk, Msg("user", [k \in DOMAIN order |-> Result(order[k])] \o remark))
      BY <2>2 DEF Compose
    <3>2. talk \in Seq(Talks)
      BY <2>1 DEF BridgeInv
    <3>3. talk' \in Seq(Talks)
      BY <3>1, <3>2, QuestionType, AppendProperties
    <3>4. QED
      BY <2>2, <3>3 DEF Compose, BridgeInv
  <2>3. ASSUME NEW streamed \in BOOLEAN, AnswerAgent(streamed)
        PROVE  BridgeInv'
    BY <2>1, <2>3, AnswersTell
  <2>4. CASE Hear
    <3>1. PICK back \in Backs : Whole(back, answer) /\ Hearing(back, heard, events)
      BY <2>1, <2>4 DEF BridgeInv, Hear
    <3>2. /\ Len(events) = 1 => Accumulated(heard, Head(events)) = back
          /\ Len(events) # 1 => Hearing(back, Accumulated(heard, Head(events)), Tail(events))
      BY <3>1, HearingStep
    <3>3. CASE Len(events) = 1
      <4>1. stage' = "over" /\ heard' = back /\ talk' = talk /\ answer' = answer
        BY <2>4, <3>2, <3>3 DEF Hear
      <4>2. QED
        BY <2>1, <3>1, <4>1 DEF BridgeInv
    <3>4. CASE Len(events) # 1
      <4>1. stage' = "events" /\ Hearing(back, heard', events') /\ talk' = talk /\ answer' = answer
        BY <2>4, <3>2, <3>4 DEF Hear
      <4>2. QED
        BY <2>1, <3>1, <4>1 DEF BridgeInv
    <3>5. QED
      BY <3>3, <3>4
  <2>5. CASE Break
    BY <2>1, <2>5 DEF Break, BridgeInv
  <2>6. CASE Keep
    <3>1. heard \in Backs /\ talk \in Seq(Talks)
      BY <2>1, <2>6 DEF Keep, BridgeInv
    <3>2. heard.content \in Seq(Blocks)
      <4>1. heard.content \in Seq(Sendable)
        BY <3>1 DEF Backs
      <4>2. QED
        BY <4>1, SendableFacts, SeqMonotonic
    <3>3. Msg("assistant", heard.content) \in Talks
      BY <3>2 DEF Msg, Talks
    <3>4. talk' \in Seq(Talks) /\ stage' = "compose"
      BY <2>6, <3>1, <3>3, AppendProperties DEF Keep
    <3>5. QED
      BY <3>4 DEF BridgeInv
  <2>7. CASE UNCHANGED bridgeVars
    BY <2>1, <2>7 DEF bridgeVars, BridgeInv
  <2>8. QED
    BY <2>1, <2>2, <2>3, <2>4, <2>5, <2>6, <2>7 DEF BridgeNext
<1>3. BridgeInv => AnswerIsWhole
  BY DEF BridgeInv, AnswerIsWhole, Whole, CallsOf, TextOf
<1>4. QED
  BY <1>1, <1>2, <1>3, PTL DEF BridgeSpec

-----------------------------------------------------------------------------
(* AnthropicBridge.  The translations of a question read a message block   *)
(* by block, and a conversation message by message, so what they make of a *)
(* longer one is what they made of its beginning and of one thing more.    *)

OpenMsgs == [role : {"user", "assistant", "tool"}, content : Seq(Blocks), calls : Seq(Nat), id : Nat]

\* Where fromAnthropicRequest() is after these blocks of a message.
NoBlocks == [messages |-> <<>>, content |-> <<>>, calls |-> <<>>]
Reads(f, role, blocks) ==
  f = [n \in 0 .. Len(blocks) |-> IF n = 0 THEN NoBlocks ELSE Block(role, f[n - 1], blocks[n])]
Read(role, blocks, s) == \E f : Reads(f, role, blocks) /\ s = f[Len(blocks)]

\* Where toAnthropicRequest() is after these messages.
NoMessages == [pending |-> <<>>, messages |-> <<>>]
Sends(f, messages) ==
  f = [n \in 0 .. Len(messages) |-> IF n = 0 THEN NoMessages ELSE ToMessage(f[n - 1], messages[n])]
Sent(messages, s) == \E f : Sends(f, messages) /\ s = f[Len(messages)]

LEMMA NothingRead ==
  ASSUME NEW role
  PROVE  Read(role, <<>>, NoBlocks)
<1> DEFINE f == [n \in {0} |-> NoBlocks]
<1>1. Len(<<>>) = 0 /\ 0 .. 0 = {0}
  OBVIOUS
<1>2. f = [n \in 0 .. 0 |-> IF n = 0 THEN NoBlocks ELSE Block(role, f[n - 1], <<>>[n])]
  OBVIOUS
<1>3. f[0] = NoBlocks
  OBVIOUS
<1> HIDE DEF f
<1>4. QED
  BY <1>1, <1>2, <1>3 DEF Read, Reads

LEMMA NothingSent == Sent(<<>>, NoMessages)
<1> DEFINE f == [n \in {0} |-> NoMessages]
<1>1. Len(<<>>) = 0 /\ 0 .. 0 = {0}
  OBVIOUS
<1>2. f = [n \in 0 .. 0 |-> IF n = 0 THEN NoMessages ELSE ToMessage(f[n - 1], <<>>[n])]
  OBVIOUS
<1>3. f[0] = NoMessages
  OBVIOUS
<1> HIDE DEF f
<1>4. QED
  BY <1>1, <1>2, <1>3 DEF Sent, Sends

LEMMA OneMoreRead ==
  ASSUME NEW role, NEW T, NEW blocks \in Seq(T), NEW b \in T, NEW s, Read(role, blocks, s)
  PROVE  Read(role, Append(blocks, b), Block(role, s, b))
<1> DEFINE more == Append(blocks, b)
           last == Len(blocks)
<1>1. PICK f : Reads(f, role, blocks) /\ s = f[last]
  BY DEF Read
<1> DEFINE g == [n \in 0 .. last + 1 |-> IF n \in 0 .. last THEN f[n] ELSE Block(role, s, b)]
<1>2. last \in Nat /\ Len(more) = last + 1 /\ more[last + 1] = b /\ \A n \in 1 .. last : more[n] = blocks[n]
  BY AppendProperties, LenProperties
<1> HIDE DEF last, more
<1>3. \A n \in 0 .. last : f[n] = IF n = 0 THEN NoBlocks ELSE Block(role, f[n - 1], blocks[n])
  BY <1>1 DEF Reads, last
<1>4. \A n \in 0 .. last + 1 : g[n] = IF n = 0 THEN NoBlocks ELSE Block(role, g[n - 1], more[n])
  <2>1. SUFFICES ASSUME NEW n \in 0 .. last + 1
                 PROVE  g[n] = IF n = 0 THEN NoBlocks ELSE Block(role, g[n - 1], more[n])
    OBVIOUS
  <2>2. CASE n = 0
    <3>1. 0 \in 0 .. last
      BY <1>2
    <3>2. QED
      BY <1>3, <2>2, <3>1
  <2>3. CASE n \in 1 .. last
    <3>1. n - 1 \in 0 .. last /\ n - 1 \in 0 .. last + 1 /\ n \in 0 .. last /\ n # 0
      BY <1>2, <2>3
    <3>2. g[n - 1] = f[n - 1] /\ g[n] = f[n]
      BY <3>1
    <3>3. QED
      BY <1>2, <1>3, <2>3, <3>1, <3>2
  <2>4. CASE n = last + 1
    <3>1. n - 1 = last /\ last \in 0 .. last /\ last \in 0 .. last + 1 /\ n \notin 0 .. last /\ n # 0
      BY <1>2, <2>4
    <3>2. g[n - 1] = s /\ g[n] = Block(role, s, b)
      BY <1>1, <3>1
    <3>3. QED
      BY <1>2, <2>4, <3>1, <3>2
  <2>5. n = 0 \/ n \in 1 .. last \/ n = last + 1
    BY <1>2
  <2>6. QED
    BY <2>2, <2>3, <2>4, <2>5
<1>5. g[last + 1] = Block(role, s, b)
  <2>1. last + 1 \in 0 .. last + 1 /\ last + 1 \notin 0 .. last
    BY <1>2
  <2>2. QED
    BY <2>1
<1>6. g = [n \in 0 .. last + 1 |-> g[n]]
  OBVIOUS
<1> HIDE DEF g
<1>7. g = [n \in 0 .. last + 1 |-> IF n = 0 THEN NoBlocks ELSE Block(role, g[n - 1], more[n])]
  BY <1>4, <1>6
<1>8. QED
  BY <1>2, <1>5, <1>7 DEF Read, Reads, more

LEMMA OneMoreSent ==
  ASSUME NEW T, NEW messages \in Seq(T), NEW m \in T, NEW s, Sent(messages, s)
  PROVE  Sent(Append(messages, m), ToMessage(s, m))
<1> DEFINE more == Append(messages, m)
           last == Len(messages)
<1>1. PICK f : Sends(f, messages) /\ s = f[last]
  BY DEF Sent
<1> DEFINE g == [n \in 0 .. last + 1 |-> IF n \in 0 .. last THEN f[n] ELSE ToMessage(s, m)]
<1>2. last \in Nat /\ Len(more) = last + 1 /\ more[last + 1] = m /\ \A n \in 1 .. last : more[n] = messages[n]
  BY AppendProperties, LenProperties
<1> HIDE DEF last, more
<1>3. \A n \in 0 .. last : f[n] = IF n = 0 THEN NoMessages ELSE ToMessage(f[n - 1], messages[n])
  BY <1>1 DEF Sends, last
<1>4. \A n \in 0 .. last + 1 : g[n] = IF n = 0 THEN NoMessages ELSE ToMessage(g[n - 1], more[n])
  <2>1. SUFFICES ASSUME NEW n \in 0 .. last + 1
                 PROVE  g[n] = IF n = 0 THEN NoMessages ELSE ToMessage(g[n - 1], more[n])
    OBVIOUS
  <2>2. CASE n = 0
    <3>1. 0 \in 0 .. last
      BY <1>2
    <3>2. QED
      BY <1>3, <2>2, <3>1
  <2>3. CASE n \in 1 .. last
    <3>1. n - 1 \in 0 .. last /\ n - 1 \in 0 .. last + 1 /\ n \in 0 .. last /\ n # 0
      BY <1>2, <2>3
    <3>2. g[n - 1] = f[n - 1] /\ g[n] = f[n]
      BY <3>1
    <3>3. QED
      BY <1>2, <1>3, <2>3, <3>1, <3>2
  <2>4. CASE n = last + 1
    <3>1. n - 1 = last /\ last \in 0 .. last /\ last \in 0 .. last + 1 /\ n \notin 0 .. last /\ n # 0
      BY <1>2, <2>4
    <3>2. g[n - 1] = s /\ g[n] = ToMessage(s, m)
      BY <1>1, <3>1
    <3>3. QED
      BY <1>2, <2>4, <3>1, <3>2
  <2>5. n = 0 \/ n \in 1 .. last \/ n = last + 1
    BY <1>2
  <2>6. QED
    BY <2>2, <2>3, <2>4, <2>5
<1>5. g[last + 1] = ToMessage(s, m)
  <2>1. last + 1 \in 0 .. last + 1 /\ last + 1 \notin 0 .. last
    BY <1>2
  <2>2. QED
    BY <2>1
<1>6. g = [n \in 0 .. last + 1 |-> g[n]]
  OBVIOUS
<1> HIDE DEF g
<1>7. g = [n \in 0 .. last + 1 |-> IF n = 0 THEN NoMessages ELSE ToMessage(g[n - 1], more[n])]
  BY <1>4, <1>6
<1>8. QED
  BY <1>2, <1>5, <1>7 DEF Sent, Sends, more

\* The translations are at this place when they are through: there is one way only.
LEMMA AllRead ==
  ASSUME NEW m, m.content \in Seq(Blocks), NEW s, Read(m.role, m.content, s)
  PROVE  LET text == JoinedText(OfType(s.content, "text"), <<"/">>)
         IN FromMessage(m) = IF s.calls = <<>> THEN ContentFlushed(s.messages, m.role, s.content)
                             ELSE Append(s.messages, [Msg("assistant", IF text = <<>> THEN <<>> ELSE <<Text(text)>>)
                                                        EXCEPT !.calls = s.calls])
<1> DEFINE last == Len(m.content)
           g == CHOOSE y : Reads(y, m.role, m.content)
<1>1. PICK f : Reads(f, m.role, m.content) /\ s = f[last]
  BY DEF Read
<1>2. Reads(g, m.role, m.content)
  <2> HIDE DEF Reads
  <2>1. QED
    BY <1>1
<1>3. last \in Nat
  BY LenProperties
<1>4. g[last] = s
  <2> DEFINE Fine == {n \in Nat : n \in 0 .. last => g[n] = f[n]}
  <2>1. /\ \A n \in 0 .. last : f[n] = IF n = 0 THEN NoBlocks ELSE Block(m.role, f[n - 1], m.content[n])
        /\ \A n \in 0 .. last : g[n] = IF n = 0 THEN NoBlocks ELSE Block(m.role, g[n - 1], m.content[n])
    <3> HIDE DEF g
    <3>1. QED
      BY <1>1, <1>2 DEF Reads
  <2> HIDE DEF g, last
  <2>2. 0 \in Fine
    BY <2>1
  <2>3. ASSUME NEW n \in Nat, n \in Fine
        PROVE  n + 1 \in Fine
    <3>1. SUFFICES ASSUME n + 1 \in 0 .. last
                   PROVE  g[n + 1] = f[n + 1]
      OBVIOUS
    <3>2. n \in 0 .. last /\ n + 1 # 0 /\ (n + 1) - 1 = n
      BY <1>3, <3>1
    <3>3. g[n] = f[n]
      BY <2>3, <3>2
    <3>4. QED
      BY <2>1, <3>1, <3>2, <3>3
  <2> HIDE DEF Fine
  <2>4. Nat \subseteq Fine
    BY <2>2, <2>3, NatSetInduction
  <2>5. last \in Fine /\ last \in 0 .. last
    BY <1>3, <2>4
  <2>6. QED
    BY <1>1, <2>5 DEF Fine
<1>5. FromMessage(m) =
        LET t == g[last]
            text == JoinedText(OfType(t.content, "text"), <<"/">>)
        IN IF t.calls = <<>> THEN ContentFlushed(t.messages, m.role, t.content)
           ELSE Append(t.messages, [Msg("assistant", IF text = <<>> THEN <<>> ELSE <<Text(text)>>)
                                      EXCEPT !.calls = t.calls])
  BY DEF FromMessage, Reads, NoBlocks
<1> HIDE DEF g, last
<1>6. QED
  BY <1>4, <1>5

LEMMA AllSent ==
  ASSUME NEW T, NEW messages \in Seq(T), NEW s, Sent(messages, s)
  PROVE  ToAnthropic(messages) = IF AllFlushed(s) = <<>> THEN <<Msg("user", <<Text(<<"a">>)>>)>> ELSE AllFlushed(s)
<1> DEFINE last == Len(messages)
           g == CHOOSE y : Sends(y, messages)
<1>1. PICK f : Sends(f, messages) /\ s = f[last]
  BY DEF Sent
<1>2. Sends(g, messages)
  <2> HIDE DEF Sends
  <2>1. QED
    BY <1>1
<1>3. last \in Nat
  BY LenProperties
<1>4. g[last] = s
  <2> DEFINE Fine == {n \in Nat : n \in 0 .. last => g[n] = f[n]}
  <2>1. /\ \A n \in 0 .. last : f[n] = IF n = 0 THEN NoMessages ELSE ToMessage(f[n - 1], messages[n])
        /\ \A n \in 0 .. last : g[n] = IF n = 0 THEN NoMessages ELSE ToMessage(g[n - 1], messages[n])
    <3> HIDE DEF g
    <3>1. QED
      BY <1>1, <1>2 DEF Sends
  <2> HIDE DEF g, last
  <2>2. 0 \in Fine
    BY <2>1
  <2>3. ASSUME NEW n \in Nat, n \in Fine
        PROVE  n + 1 \in Fine
    <3>1. SUFFICES ASSUME n + 1 \in 0 .. last
                   PROVE  g[n + 1] = f[n + 1]
      OBVIOUS
    <3>2. n \in 0 .. last /\ n + 1 # 0 /\ (n + 1) - 1 = n
      BY <1>3, <3>1
    <3>3. g[n] = f[n]
      BY <2>3, <3>2
    <3>4. QED
      BY <2>1, <3>1, <3>2, <3>3
  <2> HIDE DEF Fine
  <2>4. Nat \subseteq Fine
    BY <2>2, <2>3, NatSetInduction
  <2>5. last \in Fine /\ last \in 0 .. last
    BY <1>3, <2>4
  <2>6. QED
    BY <1>1, <2>5 DEF Fine
<1>5. ToAnthropic(messages) =
        LET out == AllFlushed(g[last])
        IN IF out = <<>> THEN <<Msg("user", <<Text(<<"a">>)>>)>> ELSE out
  BY DEF ToAnthropic, Sends, NoMessages
<1> HIDE DEF g, last
<1>6. QED
  BY <1>4, <1>5

-----------------------------------------------------------------------------
\* What a conversation is made of: the outcomes of calls, as blocks and as messages,
\* the calls, and what is said before them.
Outcomes(ids) == [k \in DOMAIN ids |-> Result(ids[k])]
Uses(ids) == [k \in DOMAIN ids |-> Use(ids[k])]
Speech(t) == IF t = <<>> THEN <<>> ELSE <<Text(t)>>
ToolMsg(i) == [Msg("tool", <<>>) EXCEPT !.id = i]
ToolMsgs(ids) == [k \in DOMAIN ids |-> ToolMsg(ids[k])]
AgentMsg(t, calls) == [Msg("assistant", Speech(t)) EXCEPT !.calls = calls]
Audible == {<<Text(<<"a">>)>>, <<Text(<<"a">>), Image>>}
Voiced(remark) == IF remark \in Audible THEN <<Msg("user", remark)>> ELSE <<>>

LEMMA TalkPieces ==
  /\ \A i \in Nat : Result(i) \in Blocks /\ Use(i) \in Blocks /\ ToolMsg(i) \in OpenMsgs
  /\ \A t \in Phrases : Speech(t) \in Seq(OfKind("text")) /\ Speech(t) \in Seq(Blocks)
  /\ \A t \in Phrases, calls \in Seq(Nat) : AgentMsg(t, calls) \in OpenMsgs
  /\ \A remark \in Remarks : remark \in Seq(Blocks) /\ Voiced(remark) \in Seq(OpenMsgs)
<1>1. <<>> \in Seq(Blocks) /\ <<>> \in Seq(Nat) /\ NoCall \in Nat
  BY EmptySeq DEF NoCall
<1>2. \A i \in Nat : Result(i) \in Blocks /\ Use(i) \in Blocks
  BY BlockFacts DEF OfKind
<1>3. \A i \in Nat : ToolMsg(i) \in OpenMsgs
  BY <1>1 DEF ToolMsg, Msg, OpenMsgs
<1>4. \A t \in Phrases : Speech(t) \in Seq(OfKind("text"))
  <2>1. TAKE t \in Phrases
  <2>2. Text(t) \in OfKind("text")
    BY BlockFacts
  <2>3. <<>> \in Seq(OfKind("text")) /\ <<Text(t)>> \in Seq(OfKind("text"))
    BY <2>2
  <2>4. QED
    BY <2>3 DEF Speech
<1>5. \A t \in Phrases : Speech(t) \in Seq(Blocks)
  <2>1. TAKE t \in Phrases
  <2>2. QED
    BY <1>4, OneType
<1>6. \A t \in Phrases, calls \in Seq(Nat) : AgentMsg(t, calls) \in OpenMsgs
  <2>1. TAKE t \in Phrases, calls \in Seq(Nat)
  <2>2. Speech(t) \in Seq(Blocks)
    BY <1>5
  <2>3. QED
    BY <1>1, <2>2 DEF AgentMsg, Msg, OpenMsgs
<1>7. \A remark \in Remarks : remark \in Seq(Blocks)
  <2>1. TAKE remark \in Remarks
  <2>2. Text(<<"a">>) \in Blocks /\ Text(<<>>) \in Blocks /\ Image \in Blocks
    BY BlockFacts, PhraseFacts DEF OfKind, Letters
  <2>3. \A x, y \in Blocks : <<x>> \in Seq(Blocks) /\ <<x, y>> \in Seq(Blocks)
    OBVIOUS
  <2>4. remark = <<>> \/ remark = <<Text(<<"a">>)>> \/ remark = <<Text(<<"a">>), Image>> \/ remark = <<Text(<<>>)>>
    BY DEF Remarks
  <2>5. QED
    BY <1>1, <2>2, <2>3, <2>4
<1>8. \A remark \in Remarks : Voiced(remark) \in Seq(OpenMsgs)
  <2>1. TAKE remark \in Remarks
  <2>2. Msg("user", remark) \in OpenMsgs
    BY <1>1, <1>7 DEF Msg, OpenMsgs
  <2>3. <<Msg("user", remark)>> \in Seq(OpenMsgs) /\ <<>> \in Seq(OpenMsgs)
    BY <2>2
  <2>4. QED
    BY <2>3 DEF Voiced
<1>9. QED
  BY <1>2, <1>3, <1>4, <1>5, <1>6, <1>7, <1>8

\* A line of ids, each of them turned into something.
Mapped(f, ids) == [k \in DOMAIN ids |-> f[ids[k]]]

LEMMA MappedFacts ==
  ASSUME NEW T, NEW f \in [Nat -> T], NEW ids \in Seq(Nat)
  PROVE  /\ Mapped(f, ids) \in Seq(T) /\ Len(Mapped(f, ids)) = Len(ids)
         /\ \A k \in 1 .. Len(ids) : Mapped(f, ids)[k] = f[ids[k]]
         /\ Mapped(f, <<>>) = <<>>
         /\ \A i \in Nat : Mapped(f, Append(ids, i)) = Append(Mapped(f, ids), f[i])
<1> DEFINE p == Mapped(f, ids)
<1>1. Len(ids) \in Nat /\ DOMAIN ids = 1 .. Len(ids) /\ \A k \in 1 .. Len(ids) : ids[k] \in Nat
  BY LenProperties, ElementOfSeq
<1>2. p \in Seq(T) /\ Len(p) = Len(ids) /\ \A k \in 1 .. Len(ids) : p[k] = f[ids[k]]
  BY <1>1 DEF Mapped
<1>3. Mapped(f, <<>>) = <<>>
  BY DEF Mapped
<1>4. ASSUME NEW i \in Nat
      PROVE  Mapped(f, Append(ids, i)) = Append(p, f[i])
  <2> DEFINE more == Append(ids, i)
             q == Mapped(f, more)
             r == Append(p, f[i])
  <2>1. more \in Seq(Nat) /\ Len(more) = Len(ids) + 1 /\ more[Len(ids) + 1] = i
        /\ DOMAIN more = 1 .. Len(ids) + 1 /\ \A k \in 1 .. Len(ids) : more[k] = ids[k]
    BY <1>1, AppendProperties, LenProperties
  <2>2. \A k \in 1 .. Len(ids) + 1 : more[k] \in Nat
    BY <2>1, ElementOfSeq
  <2> HIDE DEF more
  <2>3. q \in Seq(T) /\ Len(q) = Len(ids) + 1 /\ \A k \in 1 .. Len(ids) + 1 : q[k] = f[more[k]]
    BY <1>1, <2>1, <2>2 DEF Mapped
  <2>4. r \in Seq(T) /\ Len(r) = Len(ids) + 1 /\ r[Len(ids) + 1] = f[i] /\ \A k \in 1 .. Len(ids) : r[k] = p[k]
    <3> HIDE DEF p
    <3>1. f[i] \in T
      OBVIOUS
    <3>2. QED
      BY <1>2, <3>1, AppendProperties
  <2> HIDE DEF p, q, r
  <2>5. \A k \in 1 .. Len(ids) + 1 : q[k] = r[k]
    <3>1. TAKE k \in 1 .. Len(ids) + 1
    <3>2. k = Len(ids) + 1 \/ k \in 1 .. Len(ids)
      BY <1>1
    <3>3. q[k] = f[more[k]]
      BY <2>3
    <3>4. CASE k = Len(ids) + 1
      BY <2>1, <2>4, <3>3, <3>4
    <3>5. CASE k \in 1 .. Len(ids)
      <4>1. p[k] = f[ids[k]] /\ r[k] = p[k] /\ more[k] = ids[k]
        BY <1>2, <2>1, <2>4, <3>5 DEF p
      <4>2. QED
        BY <3>3, <4>1
    <3>6. QED
      BY <3>2, <3>4, <3>5
  <2>6. q = r
    BY <2>3, <2>4, <2>5, SeqEqual
  <2>7. QED
    BY <2>6 DEF q, r, more
<1>5. QED
  BY <1>2, <1>3, <1>4

LEMMA OutcomesFacts ==
  ASSUME NEW ids \in Seq(Nat)
  PROVE  /\ Outcomes(ids) \in Seq(OfKind("tool_result")) /\ Outcomes(ids) \in Seq(Blocks)
         /\ Len(Outcomes(ids)) = Len(ids) /\ \A k \in 1 .. Len(ids) : Outcomes(ids)[k] = Result(ids[k])
         /\ Outcomes(<<>>) = <<>>
         /\ \A i \in Nat : Outcomes(Append(ids, i)) = Append(Outcomes(ids), Result(i))
<1> DEFINE f == [i \in Nat |-> Result(i)]
<1>1. \A s \in Seq(Nat) : Outcomes(s) = Mapped(f, s)
  <2>1. TAKE s \in Seq(Nat)
  <2>2. \A k \in DOMAIN s : s[k] \in Nat
    BY LenProperties, ElementOfSeq
  <2>3. QED
    BY <2>2 DEF Outcomes, Mapped
<1>2. f \in [Nat -> OfKind("tool_result")] /\ \A i \in Nat : f[i] = Result(i)
  BY BlockFacts
<1> HIDE DEF f
<1>3. \A k \in 1 .. Len(ids) : ids[k] \in Nat
  BY ElementOfSeq
<1>4. <<>> \in Seq(Nat) /\ \A i \in Nat : Append(ids, i) \in Seq(Nat)
  BY AppendProperties, EmptySeq
<1>5. /\ Mapped(f, ids) \in Seq(OfKind("tool_result")) /\ Len(Mapped(f, ids)) = Len(ids)
      /\ \A k \in 1 .. Len(ids) : Mapped(f, ids)[k] = f[ids[k]]
      /\ Mapped(f, <<>>) = <<>>
      /\ \A i \in Nat : Mapped(f, Append(ids, i)) = Append(Mapped(f, ids), f[i])
  BY <1>2, MappedFacts
<1>6. Outcomes(ids) \in Seq(Blocks)
  BY <1>1, <1>5, OneType
<1>7. QED
  BY <1>1, <1>2, <1>3, <1>4, <1>5, <1>6

LEMMA ToolMsgsFacts ==
  ASSUME NEW ids \in Seq(Nat)
  PROVE  /\ ToolMsgs(ids) \in Seq(OpenMsgs)
         /\ Len(ToolMsgs(ids)) = Len(ids) /\ \A k \in 1 .. Len(ids) : ToolMsgs(ids)[k] = ToolMsg(ids[k])
         /\ ToolMsgs(<<>>) = <<>>
         /\ \A i \in Nat : ToolMsgs(Append(ids, i)) = Append(ToolMsgs(ids), ToolMsg(i))
<1> DEFINE f == [i \in Nat |-> ToolMsg(i)]
<1>1. \A s \in Seq(Nat) : ToolMsgs(s) = Mapped(f, s)
  <2>1. TAKE s \in Seq(Nat)
  <2>2. \A k \in DOMAIN s : s[k] \in Nat
    BY LenProperties, ElementOfSeq
  <2>3. QED
    BY <2>2 DEF ToolMsgs, Mapped
<1>2. f \in [Nat -> OpenMsgs] /\ \A i \in Nat : f[i] = ToolMsg(i)
  BY TalkPieces
<1> HIDE DEF f
<1>3. \A k \in 1 .. Len(ids) : ids[k] \in Nat
  BY ElementOfSeq
<1>4. <<>> \in Seq(Nat) /\ \A i \in Nat : Append(ids, i) \in Seq(Nat)
  BY AppendProperties, EmptySeq
<1>5. /\ Mapped(f, ids) \in Seq(OpenMsgs) /\ Len(Mapped(f, ids)) = Len(ids)
      /\ \A k \in 1 .. Len(ids) : Mapped(f, ids)[k] = f[ids[k]]
      /\ Mapped(f, <<>>) = <<>>
      /\ \A i \in Nat : Mapped(f, Append(ids, i)) = Append(Mapped(f, ids), f[i])
  BY <1>2, MappedFacts
<1>6. QED
  BY <1>1, <1>2, <1>3, <1>4, <1>5

LEMMA UsesFacts ==
  ASSUME NEW ids \in Seq(Nat)
  PROVE  /\ Uses(ids) \in Seq(OfKind("tool_use")) /\ Uses(ids) \in Seq(Blocks)
         /\ Len(Uses(ids)) = Len(ids) /\ \A k \in 1 .. Len(ids) : Uses(ids)[k] = Use(ids[k])
         /\ Uses(<<>>) = <<>>
         /\ \A i \in Nat : Uses(Append(ids, i)) = Append(Uses(ids), Use(i))
<1> DEFINE f == [i \in Nat |-> Use(i)]
<1>1. \A s \in Seq(Nat) : Uses(s) = Mapped(f, s)
  <2>1. TAKE s \in Seq(Nat)
  <2>2. \A k \in DOMAIN s : s[k] \in Nat
    BY LenProperties, ElementOfSeq
  <2>3. QED
    BY <2>2 DEF Uses, Mapped
<1>2. f \in [Nat -> OfKind("tool_use")] /\ \A i \in Nat : f[i] = Use(i)
  BY BlockFacts
<1> HIDE DEF f
<1>3. \A k \in 1 .. Len(ids) : ids[k] \in Nat
  BY ElementOfSeq
<1>4. <<>> \in Seq(Nat) /\ \A i \in Nat : Append(ids, i) \in Seq(Nat)
  BY AppendProperties, EmptySeq
<1>5. /\ Mapped(f, ids) \in Seq(OfKind("tool_use")) /\ Len(Mapped(f, ids)) = Len(ids)
      /\ \A k \in 1 .. Len(ids) : Mapped(f, ids)[k] = f[ids[k]]
      /\ Mapped(f, <<>>) = <<>>
      /\ \A i \in Nat : Mapped(f, Append(ids, i)) = Append(Mapped(f, ids), f[i])
  BY <1>2, MappedFacts
<1>6. Uses(ids) \in Seq(Blocks)
  BY <1>1, <1>5, OneType
<1>7. QED
  BY <1>1, <1>2, <1>3, <1>4, <1>5, <1>6

-----------------------------------------------------------------------------
\* Reading the outcomes of calls, one message each.
LEMMA ReadOutcomes ==
  ASSUME NEW ids \in Seq(Nat)
  PROVE  Read("user", Outcomes(ids), [messages |-> ToolMsgs(ids), content |-> <<>>, calls |-> <<>>])
<1> DEFINE Place(s) == [messages |-> ToolMsgs(s), content |-> <<>>, calls |-> <<>>]
           Fine == {s \in Seq(Nat) : Read("user", Outcomes(s), Place(s))}
<1>1. <<>> \in Fine
  <2>1. <<>> \in Seq(Nat)
    BY EmptySeq
  <2>2. Outcomes(<<>>) = <<>> /\ ToolMsgs(<<>>) = <<>>
    BY <2>1, OutcomesFacts, ToolMsgsFacts
  <2>3. Read("user", <<>>, NoBlocks)
    BY NothingRead
  <2>4. Place(<<>>) = NoBlocks
    BY <2>2 DEF NoBlocks
  <2>5. QED
    BY <2>1, <2>2, <2>3, <2>4
<1>2. ASSUME NEW s \in Seq(Nat), NEW i \in Nat, s \in Fine
      PROVE  Append(s, i) \in Fine
  <2>1. Append(s, i) \in Seq(Nat)
    BY AppendProperties
  <2>2. Outcomes(s) \in Seq(Blocks) /\ Result(i) \in Blocks /\ Outcomes(Append(s, i)) = Append(Outcomes(s), Result(i))
    BY OutcomesFacts, TalkPieces
  <2>3. ToolMsgs(Append(s, i)) = Append(ToolMsgs(s), ToolMsg(i))
    BY ToolMsgsFacts
  <2>4. Read("user", Outcomes(s), Place(s))
    BY <1>2
  <2>5. Block("user", Place(s), Result(i)) = Place(Append(s, i))
    <3> DEFINE at == Place(s)
    <3>1. Result(i).type = "tool_result" /\ Result(i).id = i
      BY DEF Result
    <3>2. Block("user", at, Result(i))
            = [at EXCEPT !.content = <<>>,
                         !.messages = Append(ContentFlushed(@, "user", at.content), [Msg("tool", <<>>) EXCEPT !.id = i])]
      BY <3>1 DEF Block
    <3>3. ContentFlushed(at.messages, "user", at.content) = ToolMsgs(s)
      BY DEF ContentFlushed
    <3>4. QED
      BY <2>3, <3>2, <3>3 DEF ToolMsg
  <2> HIDE DEF Place
  <2>6. Read("user", Append(Outcomes(s), Result(i)), Block("user", Place(s), Result(i)))
    BY <2>2, <2>4, OneMoreRead
  <2>7. QED
    BY <2>1, <2>2, <2>5, <2>6
<1> HIDE DEF Fine
<1>3. Seq(Nat) \subseteq Fine
  BY <1>1, <1>2, LineSetInduction
<1>4. QED
  BY <1>3 DEF Fine

\* What the agent asks: the outcomes, and what else it has to say.
LEMMA QuestionRead ==
  ASSUME NEW ids \in Seq(Nat), NEW remark \in Remarks
  PROVE  FromMessage(Msg("user", Outcomes(ids) \o remark)) = ToolMsgs(ids) \o Voiced(remark)
<1> DEFINE said == Outcomes(ids)
           tools == ToolMsgs(ids)
           a == Text(<<"a">>)
           Place(content) == [messages |-> tools, content |-> content, calls |-> <<>>]
           m == Msg("user", said \o remark)
<1>1. said \in Seq(Blocks) /\ tools \in Seq(OpenMsgs) /\ remark \in Seq(Blocks) /\ said \o remark \in Seq(Blocks)
  <2>1. said \in Seq(Blocks) /\ tools \in Seq(OpenMsgs) /\ remark \in Seq(Blocks)
    BY OutcomesFacts, ToolMsgsFacts, TalkPieces
  <2>2. QED
    BY <2>1, ConcatProperties
<1>2. Read("user", said, Place(<<>>))
  BY ReadOutcomes
<1>3. a \in Blocks /\ Text(<<>>) \in Blocks /\ Image \in Blocks
  BY BlockFacts, PhraseFacts DEF OfKind, Letters
<1>4. /\ a.type = "text" /\ a.text = <<"a">> /\ Text(<<>>).type = "text" /\ Text(<<>>).text = <<>>
      /\ Image.type = "image"
  BY DEF Text, Image
<1>5. m.role = "user" /\ m.content = said \o remark
  BY DEF Msg
<1> HIDE DEF said, a, m
<1>6. \A content \in {<<>>, <<a>>, <<a, Image>>} :
        Read("user", said \o remark, Place(content)) => FromMessage(m) = ContentFlushed(tools, "user", content)
  <2>1. TAKE content \in {<<>>, <<a>>, <<a, Image>>}
  <2> DEFINE s == Place(content)
  <2>2. s.calls = <<>> /\ s.messages = tools /\ s.content = content
    OBVIOUS
  <2> HIDE DEF s
  <2>3. SUFFICES ASSUME Read("user", said \o remark, s)
                 PROVE  FromMessage(m) = ContentFlushed(tools, "user", content)
    BY DEF s
  <2>4. m.content \in Seq(Blocks) /\ Read(m.role, m.content, s)
    BY <1>1, <1>5, <2>3
  <2>5. FromMessage(m) = IF s.calls = <<>> THEN ContentFlushed(s.messages, m.role, s.content)
                         ELSE Append(s.messages, [Msg("assistant", IF JoinedText(OfType(s.content, "text"), <<"/">>) = <<>> THEN <<>>
                                                                   ELSE <<Text(JoinedText(OfType(s.content, "text"), <<"/">>))>>)
                                                    EXCEPT !.calls = s.calls])
    BY <2>4, AllRead
  <2>6. QED
    BY <1>5, <2>2, <2>5
<1>7. \A b \in Blocks : said \o <<b>> = Append(said, b) /\ Append(said, b) \in Seq(Blocks)
  BY <1>1, AppendIsConcat, AppendProperties
<1>8. tools \o <<>> = tools /\ said \o <<>> = said
  BY <1>1, ConcatEmptySeq
<1>9. Block("user", Place(<<>>), a) = Place(<<a>>)
  BY <1>4 DEF Block
<1>10. Block("user", Place(<<>>), Text(<<>>)) = Place(<<>>)
  BY <1>4 DEF Block
<1>11. Block("user", Place(<<a>>), Image) = Place(<<a, Image>>)
  <2>1. <<a, Image>> = Append(<<a>>, Image)
    <3>1. <<a>> \in Seq(Blocks)
      BY <1>3
    <3>2. QED
      BY <1>3, <3>1
  <2>2. QED
    BY <1>4, <2>1 DEF Block
<1> HIDE DEF Place
<1>12. Read("user", Append(said, a), Place(<<a>>)) /\ Read("user", Append(said, Text(<<>>)), Place(<<>>))
  BY <1>1, <1>2, <1>3, <1>9, <1>10, OneMoreRead
<1>13. CASE remark = <<>>
  <2>1. FromMessage(m) = ContentFlushed(tools, "user", <<>>)
    BY <1>2, <1>6, <1>8, <1>13
  <2>2. Voiced(remark) = <<>>
    BY <1>13 DEF Voiced, Audible
  <2>3. QED
    BY <1>8, <2>1, <2>2 DEF ContentFlushed, m, said
<1>14. CASE remark = <<Text(<<>>)>>
  <2>1. FromMessage(m) = ContentFlushed(tools, "user", <<>>)
    BY <1>3, <1>6, <1>7, <1>12, <1>14
  <2>2. Voiced(remark) = <<>>
    <3>1. <<>> # <<"a">>
      OBVIOUS
    <3>2. Text(<<>>) # a
      BY <1>4, <3>1
    <3>3. <<Text(<<>>)>> # <<a>> /\ <<Text(<<>>)>> # <<a, Image>>
      BY <3>2
    <3>4. QED
      BY <1>14, <3>3 DEF Voiced, Audible, a
  <2>3. QED
    BY <1>8, <2>1, <2>2 DEF ContentFlushed, m, said
<1>15. CASE remark = <<a>>
  <2>1. FromMessage(m) = ContentFlushed(tools, "user", <<a>>)
    BY <1>3, <1>6, <1>7, <1>12, <1>15
  <2>2. <<a>> \in Seq(Blocks) /\ Len(<<a>>) = 1 /\ <<a>>[1] = a /\ <<a>> # <<>> /\ DOMAIN <<a>> = {1}
    BY <1>3
  <2>3. <<"/">> \in Phrases
    BY PhraseFacts DEF Letters
  <2>4. JoinedText(<<a>>, <<"/">>) = <<"a">>
    BY <1>4, <2>2, <2>3, JoinedTexts
  <2>5. AllText(<<a>>)
    BY <1>4, <2>2 DEF AllText
  <2>6. FromMessage(m) = Append(tools, Msg("user", <<a>>))
    BY <2>1, <2>2, <2>4, <2>5 DEF ContentFlushed, a
  <2>7. Voiced(remark) = <<Msg("user", <<a>>)>>
    BY <1>15 DEF Voiced, Audible, a
  <2>8. Msg("user", <<a>>) \in OpenMsgs
    BY <2>2, EmptySeq DEF Msg, OpenMsgs, NoCall
  <2>9. QED
    BY <1>1, <2>6, <2>7, <2>8, AppendIsConcat DEF m, said
<1>16. CASE remark = <<a, Image>>
  <2> DEFINE both == <<a, Image>>
  <2>1. said \o both = Append(Append(said, a), Image)
    <3>1. both = Append(<<a>>, Image) /\ <<a>> \in Seq(Blocks)
      BY <1>3
    <3>2. said \o Append(<<a>>, Image) = Append(said \o <<a>>, Image)
      BY <1>1, <1>3, <3>1, AppendBehind
    <3>3. QED
      BY <1>3, <1>7, <3>1, <3>2
  <2>2. Read("user", Append(Append(said, a), Image), Place(both))
    <3>1. Append(said, a) \in Seq(Blocks)
      BY <1>3, <1>7
    <3>2. QED
      BY <1>3, <1>11, <1>12, <3>1, OneMoreRead
  <2>3. FromMessage(m) = ContentFlushed(tools, "user", both)
    BY <1>6, <1>16, <2>1, <2>2
  <2>4. both # <<>> /\ ~ AllText(both)
    <3>1. 2 \in DOMAIN both /\ both[2] = Image
      OBVIOUS
    <3>2. QED
      BY <1>4, <3>1 DEF AllText
  <2>5. FromMessage(m) = Append(tools, Msg("user", both))
    <3> HIDE DEF both
    <3>1. QED
      BY <2>3, <2>4 DEF ContentFlushed
  <2>6. Voiced(remark) = <<Msg("user", both)>>
    BY <1>16 DEF Voiced, Audible, a
  <2>7. Msg("user", both) \in OpenMsgs
    BY <1>3, EmptySeq DEF Msg, OpenMsgs, NoCall
  <2> HIDE DEF both
  <2>8. QED
    BY <1>1, <2>5, <2>6, <2>7, AppendIsConcat DEF m, said
<1>17. QED
  BY <1>13, <1>14, <1>15, <1>16 DEF Remarks, a, m, said

\* A text is read as it is, and is not empty.
LEMMA SpeechFacts ==
  ASSUME NEW t \in Phrases
  PROVE  /\ \A glue \in Phrases : JoinedText(OfType(Speech(t), "text"), glue) = t
         /\ AllText(Speech(t)) /\ Len(Speech(t)) \in {0, 1}
         /\ Speech(t) = <<>> <=> t = <<>>
         /\ Those(Speech(t), {k \in DOMAIN Speech(t) : Speech(t)[k].text # <<>>}) = Speech(t)
<1> DEFINE s == Speech(t)
           I == {k \in DOMAIN s : s[k].text # <<>>}
<1>1. s \in Seq(Blocks) /\ OfType(s, "text") = s
  BY TalkPieces, OneType
<1>2. Text(t) \in Blocks /\ Text(t).text = t /\ Text(t).type = "text"
  BY BlockFacts DEF OfKind
<1>3. Picked(<<>>, I) = <<>> /\ Picked(Append(<<>>, Text(t)), I) = IF 0 + 1 \in I THEN Append(<<>>, Text(t)) ELSE <<>>
  <2> DEFINE x == Text(t)
  <2>1. PICK none : none = <<>> /\ none \in Seq(Blocks) /\ Len(none) = 0
    BY EmptySeq
  <2>2. x \in Blocks
    BY <1>2
  <2>3. none \in Seq(Blocks)
    BY <2>1
  <2> HIDE DEF I, x
  <2>4. Picked(<<>>, I) = <<>>
    BY <2>2, <2>3, PickedAppend, Zenon
  <2>5. Picked(Append(none, x), I) = IF Len(none) + 1 \in I THEN Append(Picked(none, I), x) ELSE Picked(none, I)
    BY <2>2, <2>3, PickedAppend
  <2>6. QED
    BY <2>1, <2>4, <2>5 DEF x
<1>4. CASE t = <<>>
  <2>1. s = <<>> /\ Len(s) = 0 /\ DOMAIN s = {}
    BY <1>4 DEF Speech
  <2>2. \A glue \in Phrases : JoinedText(s, glue) = t
    BY <1>1, <1>4, <2>1, JoinedTexts
  <2>3. AllText(s)
    BY <2>1 DEF AllText
  <2>4. Those(s, I) = s
    BY <1>3, <2>1 DEF Those, Picked
  <2> HIDE DEF I, s
  <2>5. QED
    BY <1>1, <1>4, <2>1, <2>2, <2>3, <2>4 DEF s, I
<1>5. CASE t # <<>>
  <2>1. s = <<Text(t)>>
    BY <1>5 DEF Speech
  <2>2. s # <<>> /\ Len(s) = 1 /\ DOMAIN s = {1} /\ s[1] = Text(t)
    <3> HIDE DEF s
    <3>1. QED
      BY <1>1, <1>2, <2>1
  <2>3. \A glue \in Phrases : JoinedText(s, glue) = t
    BY <1>1, <1>2, <2>2, JoinedTexts
  <2>4. AllText(s)
    BY <1>2, <2>2 DEF AllText
  <2>5. 0 + 1 \in I
    <3> HIDE DEF s
    <3>1. QED
      BY <1>2, <1>5, <2>2
  <2>6. Append(<<>>, Text(t)) = <<Text(t)>>
    OBVIOUS
  <2> HIDE DEF I
  <2>7. Picked(s, I) = s
    BY <1>3, <2>1, <2>5, <2>6
  <2>8. Those(s, I) = s
    BY <2>7 DEF Those, Picked
  <2> HIDE DEF s
  <2>9. QED
    BY <1>1, <1>5, <2>2, <2>3, <2>4, <2>8 DEF s, I
<1>6. QED
  BY <1>4, <1>5

\* Reading what the model said, and the calls it made.
LEMMA ReadUses ==
  ASSUME NEW t \in Phrases, NEW ids \in Seq(Nat)
  PROVE  Read("assistant", Speech(t) \o Uses(ids), [messages |-> <<>>, content |-> Speech(t), calls |-> ids])
<1> DEFINE Place(s) == [messages |-> <<>>, content |-> Speech(t), calls |-> s]
           Fine == {s \in Seq(Nat) : Read("assistant", Speech(t) \o Uses(s), Place(s))}
<1>1. Speech(t) \in Seq(Blocks) /\ <<>> \in Seq(Nat)
  BY TalkPieces, EmptySeq
<1>2. <<>> \in Fine
  <2>1. Speech(t) \o Uses(<<>>) = Speech(t)
    BY <1>1, UsesFacts, ConcatEmptySeq
  <2>2. Read("assistant", <<>>, NoBlocks)
    BY NothingRead
  <2>3. CASE t = <<>>
    <3>1. Speech(t) = <<>>
      BY <2>3 DEF Speech
    <3>2. QED
      BY <1>1, <2>1, <2>2, <3>1 DEF NoBlocks
  <2>4. CASE t # <<>>
    <3>1. Text(t) \in Blocks /\ Text(t).text = t /\ Text(t).type = "text" /\ <<>> \in Seq(Blocks)
      BY BlockFacts, EmptySeq DEF OfKind
    <3>2. Append(<<>>, Text(t)) = <<Text(t)>> /\ Speech(t) = <<Text(t)>>
      BY <2>4 DEF Speech
    <3>3. Block("assistant", NoBlocks, Text(t)) = Place(<<>>)
      BY <2>4, <3>1, <3>2 DEF Block, NoBlocks
    <3> HIDE DEF Place
    <3>4. Read("assistant", Append(<<>>, Text(t)), Block("assistant", NoBlocks, Text(t)))
      BY <2>2, <3>1, OneMoreRead
    <3>5. QED
      BY <1>1, <2>1, <3>2, <3>3, <3>4
  <2>5. QED
    BY <2>3, <2>4
<1>3. ASSUME NEW s \in Seq(Nat), NEW i \in Nat, s \in Fine
      PROVE  Append(s, i) \in Fine
  <2>1. Append(s, i) \in Seq(Nat)
    BY AppendProperties
  <2>2. Uses(s) \in Seq(Blocks) /\ Use(i) \in Blocks /\ Uses(Append(s, i)) = Append(Uses(s), Use(i))
    BY UsesFacts, TalkPieces
  <2>3. /\ Speech(t) \o Uses(Append(s, i)) = Append(Speech(t) \o Uses(s), Use(i))
        /\ Speech(t) \o Uses(s) \in Seq(Blocks)
    BY <1>1, <2>2, AppendBehind
  <2>4. Read("assistant", Speech(t) \o Uses(s), Place(s))
    BY <1>3
  <2>5. Block("assistant", Place(s), Use(i)) = Place(Append(s, i))
    BY DEF Block, Use
  <2> HIDE DEF Place
  <2>6. Read("assistant", Append(Speech(t) \o Uses(s), Use(i)), Block("assistant", Place(s), Use(i)))
    BY <2>2, <2>3, <2>4, OneMoreRead
  <2>7. QED
    BY <2>1, <2>3, <2>5, <2>6
<1> HIDE DEF Fine
<1>4. Seq(Nat) \subseteq Fine
  BY <1>2, <1>3, LineSetInduction
<1>5. QED
  BY <1>4 DEF Fine

LEMMA AnswerRead ==
  ASSUME NEW t \in Phrases, NEW calls \in Seq(Nat), t # <<>> \/ calls # <<>>
  PROVE  FromMessage(Msg("assistant", Speech(t) \o Uses(calls))) = <<AgentMsg(t, calls)>>
<1> DEFINE m == Msg("assistant", Speech(t) \o Uses(calls))
           s == [messages |-> <<>>, content |-> Speech(t), calls |-> calls]
           text == JoinedText(OfType(s.content, "text"), <<"/">>)
<1>1. m.role = "assistant" /\ m.content = Speech(t) \o Uses(calls) /\ m.content \in Seq(Blocks)
  <2>1. Speech(t) \in Seq(Blocks) /\ Uses(calls) \in Seq(Blocks)
    BY TalkPieces, UsesFacts
  <2>2. Speech(t) \o Uses(calls) \in Seq(Blocks)
    BY <2>1, ConcatProperties
  <2>3. QED
    BY <2>2 DEF Msg
<1>2. s.messages = <<>> /\ s.content = Speech(t) /\ s.calls = calls
  OBVIOUS
<1>3. Read(m.role, m.content, s)
  BY <1>1, ReadUses
<1> HIDE DEF m, s
<1>4. FromMessage(m) = IF s.calls = <<>> THEN ContentFlushed(s.messages, m.role, s.content)
                       ELSE Append(s.messages, [Msg("assistant", IF text = <<>> THEN <<>> ELSE <<Text(text)>>)
                                                  EXCEPT !.calls = s.calls])
  BY <1>1, <1>3, AllRead
<1>5. <<"/">> \in Phrases
  BY PhraseFacts DEF Letters
<1>6. text = t
  BY <1>2, <1>5, SpeechFacts
<1> HIDE DEF text
<1>7. Append(<<>>, AgentMsg(t, calls)) = <<AgentMsg(t, calls)>>
  OBVIOUS
<1>8. CASE calls # <<>>
  <2>1. FromMessage(m) = Append(<<>>, AgentMsg(t, calls))
    BY <1>2, <1>4, <1>6, <1>8 DEF AgentMsg, Speech
  <2>2. QED
    BY <1>7, <2>1 DEF m
<1>9. CASE calls = <<>>
  <2>1. t # <<>>
    BY <1>9
  <2>2. Speech(t) # <<>> /\ AllText(Speech(t)) /\ JoinedText(Speech(t), <<"/">>) = t
    <3>1. OfType(Speech(t), "text") = Speech(t)
      BY TalkPieces, OneType
    <3>2. QED
      BY <1>5, <2>1, <3>1, SpeechFacts
  <2>3. Speech(t) = <<Text(t)>>
    BY <2>1 DEF Speech
  <2>4. FromMessage(m) = Append(<<>>, Msg("assistant", Speech(t)))
    BY <1>1, <1>2, <1>4, <1>9, <2>2, <2>3 DEF ContentFlushed
  <2>5. AgentMsg(t, calls) = Msg("assistant", Speech(t))
    BY <1>9 DEF AgentMsg, Msg
  <2>6. QED
    BY <1>7, <2>4, <2>5 DEF m
<1>10. QED
  BY <1>8, <1>9

-----------------------------------------------------------------------------
\* What the translations make of the messages of such a conversation.
Posts == [pending : Seq(OfKind("tool_result")), messages : Seq(OpenMsgs)]
Post(pending, messages) == [pending |-> pending, messages |-> messages]

LEMMA FlushedFacts ==
  ASSUME NEW s \in Posts
  PROVE  /\ ResultsFlushed(s) = Post(<<>>, AllFlushed(s))
         /\ AllFlushed(s) = IF s.pending = <<>> THEN s.messages ELSE Append(s.messages, Msg("user", s.pending))
         /\ AllFlushed(s) \in Seq(OpenMsgs)
<1>1. s = [pending |-> s.pending, messages |-> s.messages]
  BY DEF Posts
<1>2. CASE s.pending = <<>>
  BY <1>1, <1>2 DEF ResultsFlushed, AllFlushed, Post, Posts
<1>3. CASE s.pending # <<>>
  <2>1. s.pending \in Seq(Blocks) /\ s.messages \in Seq(OpenMsgs)
    <3>1. s.pending \in Seq(OfKind("tool_result")) /\ s.messages \in Seq(OpenMsgs)
      BY DEF Posts
    <3>2. QED
      BY <3>1, OneType
  <2>2. <<>> \in Seq(Nat) /\ NoCall \in Nat
    BY EmptySeq DEF NoCall
  <2>3. Msg("user", s.pending) \in OpenMsgs
    BY <2>1, <2>2 DEF Msg, OpenMsgs
  <2>4. Append(s.messages, Msg("user", s.pending)) \in Seq(OpenMsgs)
    BY <2>1, <2>3, AppendProperties
  <2>5. ResultsFlushed(s) = Post(<<>>, Append(s.messages, Msg("user", s.pending)))
    BY <1>3 DEF ResultsFlushed, Post
  <2>6. AllFlushed(s) = Append(s.messages, Msg("user", s.pending))
    BY <2>5 DEF AllFlushed, Post
  <2>7. QED
    BY <1>3, <2>4, <2>5, <2>6
<1>4. QED
  BY <1>2, <1>3

LEMMA AudibleFacts ==
  ASSUME NEW r \in Audible
  PROVE  /\ Msg("user", r) \in OpenMsgs /\ r \in Seq(Blocks) /\ r # <<>>
         /\ \A k \in DOMAIN r : r[k].type \notin {"tool_use", "tool_result"}
         /\ AllText(r) => Those(r, {k \in DOMAIN r : r[k].text # <<>>}) = r
<1> DEFINE a == Text(<<"a">>)
<1>1. r \in Seq(Blocks)
  BY TalkPieces DEF Audible, Remarks
<1>2. Msg("user", r) \in OpenMsgs
  <2>1. <<>> \in Seq(Nat) /\ NoCall \in Nat
    BY EmptySeq DEF NoCall
  <2>2. QED
    BY <1>1, <2>1 DEF Msg, OpenMsgs
<1>3. a.type = "text" /\ Image.type = "image"
  BY DEF Text, Image
<1> HIDE DEF a
<1>4. CASE r = <<a>>
  <2>1. r # <<>> /\ DOMAIN r = {1} /\ r[1] = a
    BY <1>4
  <2>2. <<"a">> # <<>> /\ <<"a">> \in Phrases
    BY PhraseFacts DEF Letters
  <2>3. Speech(<<"a">>) = r
    BY <1>4, <2>2 DEF Speech, a
  <2>4. Those(r, {k \in DOMAIN r : r[k].text # <<>>}) = r
    BY <2>2, <2>3, SpeechFacts
  <2>5. QED
    BY <1>1, <1>2, <1>3, <2>1, <2>4
<1>5. CASE r = <<a, Image>>
  <2>1. r # <<>> /\ DOMAIN r = {1, 2} /\ r[1] = a /\ r[2] = Image
    BY <1>5
  <2>2. ~ AllText(r)
    BY <1>3, <2>1 DEF AllText
  <2>3. QED
    BY <1>1, <1>2, <1>3, <2>1, <2>2
<1>6. QED
  BY <1>4, <1>5 DEF Audible, a

LEMMA MessagesPost ==
  ASSUME NEW s \in Posts
  PROVE  /\ \A i \in Nat : ToMessage(s, ToolMsg(i)) = Post(Append(s.pending, Result(i)), s.messages)
         /\ \A t \in Phrases, calls \in Seq(Nat) : t # <<>> \/ calls # <<>> =>
              ToMessage(s, AgentMsg(t, calls))
                = Post(<<>>, Append(AllFlushed(s), Msg("assistant", Speech(t) \o Uses(calls))))
         /\ \A r \in Audible : ToMessage(s, Msg("user", r)) = Post(<<>>, Append(AllFlushed(s), Msg("user", r)))
<1>1. /\ s = [pending |-> s.pending, messages |-> s.messages]
      /\ ResultsFlushed(s) = Post(<<>>, AllFlushed(s))
  BY FlushedFacts DEF Posts
<1>2. ASSUME NEW i \in Nat
      PROVE  ToMessage(s, ToolMsg(i)) = Post(Append(s.pending, Result(i)), s.messages)
  <2>1. ToolMsg(i).role = "tool" /\ ToolMsg(i).id = i
    BY DEF ToolMsg, Msg
  <2>2. QED
    BY <1>1, <2>1 DEF ToMessage, Post
<1>3. ASSUME NEW t \in Phrases, NEW calls \in Seq(Nat), t # <<>> \/ calls # <<>>
      PROVE  ToMessage(s, AgentMsg(t, calls))
               = Post(<<>>, Append(AllFlushed(s), Msg("assistant", Speech(t) \o Uses(calls))))
  <2> DEFINE m == AgentMsg(t, calls)
             f == ResultsFlushed(s)
             content == IF AllText(m.content) THEN Those(m.content, {k \in DOMAIN m.content : m.content[k].text # <<>>})
                        ELSE m.content
  <2>1. m.role = "assistant" /\ m.calls = calls /\ m.content = Speech(t)
    BY DEF AgentMsg, Msg
  <2>2. ToMessage(s, m) =
          IF m.role = "tool" THEN [s EXCEPT !.pending = Append(@, Result(m.id))]
          ELSE IF m.calls # <<>>
          THEN [f EXCEPT !.messages = Append(@, Msg("assistant", content \o [k \in DOMAIN m.calls |-> Use(m.calls[k])]))]
          ELSE IF content = <<>> THEN f
          ELSE [f EXCEPT !.messages = Append(@, Msg(m.role, content))]
    BY DEF ToMessage
  <2> HIDE DEF m
  <2>3. content = Speech(t)
    <3>1. AllText(Speech(t)) /\ Those(Speech(t), {k \in DOMAIN Speech(t) : Speech(t)[k].text # <<>>}) = Speech(t)
      BY SpeechFacts
    <3>2. QED
      BY <2>1, <3>1
  <2> HIDE DEF content, f
  <2>4. f = [pending |-> <<>>, messages |-> AllFlushed(s)]
    BY <1>1 DEF f, Post
  <2>5. CASE calls # <<>>
    <3>1. ToMessage(s, m) = [f EXCEPT !.messages = Append(@, Msg("assistant", Speech(t) \o Uses(calls)))]
      BY <2>1, <2>2, <2>3, <2>5 DEF Uses
    <3>2. QED
      BY <2>4, <3>1 DEF m, Post
  <2>6. CASE calls = <<>>
    <3>1. Speech(t) # <<>> /\ Speech(t) \o Uses(calls) = Speech(t)
      <4>1. Uses(calls) = <<>>
        BY <2>6, UsesFacts
      <4>2. Speech(t) \in Seq(Blocks) /\ Speech(t) # <<>>
        BY <1>3, <2>6, TalkPieces, SpeechFacts
      <4>3. QED
        BY <4>1, <4>2, ConcatEmptySeq
    <3>2. ToMessage(s, m) = [f EXCEPT !.messages = Append(@, Msg("assistant", Speech(t)))]
      BY <2>1, <2>2, <2>3, <2>6, <3>1
    <3>3. QED
      BY <2>4, <3>1, <3>2 DEF m, Post
  <2>7. QED
    BY <2>5, <2>6
<1>4. ASSUME NEW r \in Audible
      PROVE  ToMessage(s, Msg("user", r)) = Post(<<>>, Append(AllFlushed(s), Msg("user", r)))
  <2> DEFINE m == Msg("user", r)
             f == ResultsFlushed(s)
             content == IF AllText(m.content) THEN Those(m.content, {k \in DOMAIN m.content : m.content[k].text # <<>>})
                        ELSE m.content
  <2>1. m.role = "user" /\ m.calls = <<>> /\ m.content = r
    BY DEF Msg
  <2>2. ToMessage(s, m) =
          IF m.role = "tool" THEN [s EXCEPT !.pending = Append(@, Result(m.id))]
          ELSE IF m.calls # <<>>
          THEN [f EXCEPT !.messages = Append(@, Msg("assistant", content \o [k \in DOMAIN m.calls |-> Use(m.calls[k])]))]
          ELSE IF content = <<>> THEN f
          ELSE [f EXCEPT !.messages = Append(@, Msg(m.role, content))]
    BY DEF ToMessage
  <2> HIDE DEF m
  <2>3. content = r /\ r # <<>>
    BY <2>1, AudibleFacts
  <2> HIDE DEF content, f
  <2>4. f = [pending |-> <<>>, messages |-> AllFlushed(s)]
    BY <1>1 DEF f, Post
  <2>5. ToMessage(s, m) = [f EXCEPT !.messages = Append(@, Msg("user", r))]
    BY <2>1, <2>2, <2>3
  <2>6. QED
    BY <2>4, <2>5 DEF m, Post
<1>5. QED
  BY <1>2, <1>3, <1>4

LEMMA ItemsOf ==
  /\ \A m \in OpenMsgs : ToItems(m) \in Seq(Blocks)
  /\ \A i \in Nat : ToItems(ToolMsg(i)) = <<Result(i)>>
  /\ \A t \in Phrases, calls \in Seq(Nat) : ToItems(AgentMsg(t, calls)) = Speech(t) \o Uses(calls)
  /\ \A r \in Audible : ToItems(Msg("user", r)) = r
<1>1. <<"/">> \in Phrases
  BY PhraseFacts DEF Letters
<1>2. ASSUME NEW m \in OpenMsgs
      PROVE  ToItems(m) \in Seq(Blocks)
  <2> DEFINE text == JoinedText(OfType(m.content, "text"), <<"/">>)
  <2>1. m.content \in Seq(Blocks) /\ m.calls \in Seq(Nat) /\ m.id \in Nat
    BY DEF OpenMsgs
  <2>2. text \in Phrases
    <3>1. OfType(m.content, "text") \in Seq(OfKind("text"))
      BY <2>1, OfTypeSifted
    <3>2. OfType(m.content, "text") \in Seq(Blocks)
      BY <3>1, OneType
    <3>3. QED
      BY <1>1, <3>2, JoinedTexts
  <2>3. ToItems(m) = CASE m.role = "tool" -> <<Result(m.id)>>
                       [] m.role = "assistant" -> Speech(text) \o Uses(m.calls)
                       [] OTHER -> m.content
    BY DEF ToItems, Speech, Uses
  <2> HIDE DEF text
  <2>4. Speech(text) \o Uses(m.calls) \in Seq(Blocks)
    <3>1. Speech(text) \in Seq(Blocks) /\ Uses(m.calls) \in Seq(Blocks)
      BY <2>1, <2>2, TalkPieces, UsesFacts
    <3>2. QED
      BY <3>1, ConcatProperties
  <2>5. <<Result(m.id)>> \in Seq(Blocks)
    <3>1. Result(m.id) \in Blocks
      BY <2>1, TalkPieces
    <3>2. QED
      BY <3>1
  <2>6. QED
    BY <2>1, <2>3, <2>4, <2>5
<1>3. ASSUME NEW i \in Nat
      PROVE  ToItems(ToolMsg(i)) = <<Result(i)>>
  <2>1. ToolMsg(i).role = "tool" /\ ToolMsg(i).id = i
    BY DEF ToolMsg, Msg
  <2>2. QED
    BY <2>1 DEF ToItems
<1>4. ASSUME NEW t \in Phrases, NEW calls \in Seq(Nat)
      PROVE  ToItems(AgentMsg(t, calls)) = Speech(t) \o Uses(calls)
  <2> DEFINE m == AgentMsg(t, calls)
  <2>1. m.role = "assistant" /\ m.calls = calls /\ m.content = Speech(t)
    BY DEF AgentMsg, Msg
  <2> HIDE DEF m
  <2>2. JoinedText(OfType(m.content, "text"), <<"/">>) = t
    BY <1>1, <2>1, SpeechFacts
  <2>3. QED
    BY <2>1, <2>2 DEF ToItems, Speech, Uses, m
<1>5. ASSUME NEW r \in Audible
      PROVE  ToItems(Msg("user", r)) = r
  BY DEF ToItems, Msg
<1>6. QED
  BY <1>2, <1>3, <1>4, <1>5

\* The results of calls, posted and itemized one after the other.
LEMMA ResultsSent ==
  ASSUME NEW F \in Seq(OpenMsgs), NEW s \in Posts, Sent(F, s), NEW ids \in Seq(Nat)
  PROVE  /\ Sent(F \o ToolMsgs(ids), Post(s.pending \o Outcomes(ids), s.messages))
         /\ Post(s.pending \o Outcomes(ids), s.messages) \in Posts
<1> DEFINE P(q) == Post(s.pending \o Outcomes(q), s.messages)
           Fine == {q \in Seq(Nat) : Sent(F \o ToolMsgs(q), P(q)) /\ P(q) \in Posts}
<1>1. s.pending \in Seq(OfKind("tool_result")) /\ s.messages \in Seq(OpenMsgs)
  BY DEF Posts
<1>2. <<>> \in Fine
  <2>1. <<>> \in Seq(Nat)
    BY EmptySeq
  <2>2. Outcomes(<<>>) = <<>> /\ ToolMsgs(<<>>) = <<>>
    BY <2>1, OutcomesFacts, ToolMsgsFacts
  <2>3. F \o <<>> = F /\ s.pending \o <<>> = s.pending
    BY <1>1, ConcatEmptySeq
  <2>4. P(<<>>) = s
    BY <2>2, <2>3 DEF Post, Posts
  <2>5. QED
    BY <2>1, <2>2, <2>3, <2>4
<1>3. ASSUME NEW q \in Seq(Nat), NEW i \in Nat, q \in Fine
      PROVE  Append(q, i) \in Fine
  <2>1. Append(q, i) \in Seq(Nat)
    BY AppendProperties
  <2>2. /\ Outcomes(q) \in Seq(OfKind("tool_result")) /\ Outcomes(Append(q, i)) = Append(Outcomes(q), Result(i))
        /\ ToolMsgs(q) \in Seq(OpenMsgs) /\ ToolMsgs(Append(q, i)) = Append(ToolMsgs(q), ToolMsg(i))
    BY OutcomesFacts, ToolMsgsFacts
  <2>3. Result(i) \in OfKind("tool_result") /\ ToolMsg(i) \in OpenMsgs
    BY BlockFacts, TalkPieces
  <2>4. /\ s.pending \o Append(Outcomes(q), Result(i)) = Append(s.pending \o Outcomes(q), Result(i))
        /\ s.pending \o Outcomes(q) \in Seq(OfKind("tool_result"))
    <3> DEFINE p == s.pending
               o == Outcomes(q)
               x == Result(i)
    <3>1. p \in Seq(OfKind("tool_result")) /\ o \in Seq(OfKind("tool_result")) /\ x \in OfKind("tool_result")
      BY <1>1, <2>2, <2>3
    <3> HIDE DEF p, o, x
    <3>2. p \o Append(o, x) = Append(p \o o, x) /\ p \o o \in Seq(OfKind("tool_result"))
      BY <3>1, AppendBehind
    <3>3. QED
      BY <3>2 DEF p, o, x
  <2>5. /\ F \o Append(ToolMsgs(q), ToolMsg(i)) = Append(F \o ToolMsgs(q), ToolMsg(i))
        /\ F \o ToolMsgs(q) \in Seq(OpenMsgs)
    BY <2>2, <2>3, AppendBehind
  <2>6. Sent(F \o ToolMsgs(q), P(q)) /\ P(q) \in Posts
    BY <1>3
  <2>7. P(q).pending = s.pending \o Outcomes(q) /\ P(q).messages = s.messages
    BY DEF Post
  <2>8. ToMessage(P(q), ToolMsg(i)) = Post(Append(P(q).pending, Result(i)), P(q).messages)
    BY <2>6, MessagesPost
  <2>9. ToMessage(P(q), ToolMsg(i)) = P(Append(q, i))
    BY <2>2, <2>4, <2>7, <2>8
  <2>10. P(Append(q, i)) \in Posts
    <3>1. Append(s.pending \o Outcomes(q), Result(i)) \in Seq(OfKind("tool_result"))
      BY <2>3, <2>4, AppendProperties
    <3>2. QED
      BY <1>1, <2>2, <2>4, <3>1 DEF Post, Posts
  <2> HIDE DEF P
  <2>11. Sent(Append(F \o ToolMsgs(q), ToolMsg(i)), ToMessage(P(q), ToolMsg(i)))
    BY <2>3, <2>5, <2>6, OneMoreSent
  <2>12. QED
    BY <2>1, <2>2, <2>5, <2>9, <2>10, <2>11
<1> HIDE DEF Fine
<1>4. Seq(Nat) \subseteq Fine
  BY <1>2, <1>3, LineSetInduction
<1>5. QED
  BY <1>4 DEF Fine

\* Message by message, the translations grow at the end.
LEMMA ItemsGrow ==
  ASSUME NEW F \in Seq(OpenMsgs), NEW m \in OpenMsgs
  PROVE  ToCodex(F) \in Seq(Blocks) /\ ToCodex(Append(F, m)) = ToCodex(F) \o ToItems(m)
<1> DEFINE items == [k \in DOMAIN F |-> ToItems(F[k])]
           more == Append(F, m)
           q == [k \in DOMAIN more |-> ToItems(more[k])]
           r == Append(items, ToItems(m))
<1>1. Len(F) \in Nat /\ DOMAIN F = 1 .. Len(F) /\ \A k \in 1 .. Len(F) : F[k] \in OpenMsgs
  BY LenProperties, ElementOfSeq
<1>2. /\ more \in Seq(OpenMsgs) /\ Len(more) = Len(F) + 1 /\ DOMAIN more = 1 .. Len(F) + 1
      /\ more[Len(F) + 1] = m /\ \A k \in 1 .. Len(F) : more[k] = F[k]
  BY <1>1, AppendProperties, LenProperties
<1>3. \A k \in 1 .. Len(F) : ToItems(F[k]) \in Seq(Blocks)
  BY <1>1, ItemsOf
<1>4. ToItems(m) \in Seq(Blocks)
  BY ItemsOf
<1>5. items \in Seq(Seq(Blocks)) /\ Len(items) = Len(F) /\ \A k \in 1 .. Len(F) : items[k] = ToItems(F[k])
  BY <1>1, <1>3
<1> HIDE DEF items, more
<1>6. r \in Seq(Seq(Blocks)) /\ Len(r) = Len(F) + 1 /\ r[Len(F) + 1] = ToItems(m)
      /\ \A k \in 1 .. Len(F) : r[k] = items[k]
  BY <1>4, <1>5, AppendProperties
<1>7. \A k \in 1 .. Len(F) + 1 : q[k] = r[k]
  <2>1. TAKE k \in 1 .. Len(F) + 1
  <2>2. q[k] = ToItems(more[k])
    BY <1>2
  <2>3. k = Len(F) + 1 \/ k \in 1 .. Len(F)
    BY <1>1
  <2>4. CASE k = Len(F) + 1
    BY <1>2, <1>6, <2>2, <2>4
  <2>5. CASE k \in 1 .. Len(F)
    <3>1. more[k] = F[k] /\ r[k] = ToItems(F[k])
      BY <1>2, <1>5, <1>6, <2>5
    <3>2. QED
      BY <2>2, <3>1
  <2>6. QED
    BY <2>3, <2>4, <2>5
<1>8. q = r
  <2>1. \A k \in 1 .. Len(F) + 1 : r[k] \in Seq(Blocks)
    BY <1>6, ElementOfSeq
  <2> HIDE DEF r
  <2>2. \A k \in DOMAIN more : ToItems(more[k]) \in Seq(Blocks)
    BY <1>2, ElementOfSeq, ItemsOf
  <2>3. q \in Seq(Seq(Blocks)) /\ Len(q) = Len(F) + 1
    BY <1>1, <1>2, <2>2
  <2> HIDE DEF q
  <2>4. QED
    BY <1>6, <1>7, <2>3, SeqEqual
<1>9. ToCodex(F) = FlattenSeq(items) /\ ToCodex(more) = FlattenSeq(q)
  BY DEF ToCodex, items
<1> HIDE DEF q
<1>10. FlattenSeq(items) \in Seq(Blocks) /\ FlattenSeq(Append(items, ToItems(m))) = FlattenSeq(items) \o ToItems(m)
  BY <1>4, <1>5, FlattenAppend
<1>11. QED
  BY <1>8, <1>9, <1>10 DEF more

LEMMA ResultsItems ==
  ASSUME NEW F \in Seq(OpenMsgs), NEW ids \in Seq(Nat)
  PROVE  ToCodex(F \o ToolMsgs(ids)) = ToCodex(F) \o Outcomes(ids)
<1> DEFINE Fine == {q \in Seq(Nat) : ToCodex(F \o ToolMsgs(q)) = ToCodex(F) \o Outcomes(q)}
<1>1. ToCodex(F) \in Seq(Blocks)
  <2>1. ToolMsg(0) \in OpenMsgs
    BY TalkPieces
  <2>2. QED
    BY <2>1, ItemsGrow
<1>2. <<>> \in Fine
  <2>1. <<>> \in Seq(Nat)
    BY EmptySeq
  <2>2. Outcomes(<<>>) = <<>> /\ ToolMsgs(<<>>) = <<>>
    BY <2>1, OutcomesFacts, ToolMsgsFacts
  <2>3. F \o <<>> = F /\ ToCodex(F) \o <<>> = ToCodex(F)
    BY <1>1, ConcatEmptySeq
  <2>4. QED
    BY <2>1, <2>2, <2>3
<1>3. ASSUME NEW q \in Seq(Nat), NEW i \in Nat, q \in Fine
      PROVE  Append(q, i) \in Fine
  <2>1. Append(q, i) \in Seq(Nat)
    BY AppendProperties
  <2>2. /\ Outcomes(q) \in Seq(Blocks) /\ Outcomes(Append(q, i)) = Append(Outcomes(q), Result(i))
        /\ ToolMsgs(q) \in Seq(OpenMsgs) /\ ToolMsgs(Append(q, i)) = Append(ToolMsgs(q), ToolMsg(i))
    BY OutcomesFacts, ToolMsgsFacts
  <2>3. Result(i) \in Blocks /\ ToolMsg(i) \in OpenMsgs
    BY TalkPieces
  <2>4. /\ ToCodex(F) \o Append(Outcomes(q), Result(i)) = Append(ToCodex(F) \o Outcomes(q), Result(i))
        /\ ToCodex(F) \o Outcomes(q) \in Seq(Blocks)
    BY <1>1, <2>2, <2>3, AppendBehind
  <2>5. /\ F \o Append(ToolMsgs(q), ToolMsg(i)) = Append(F \o ToolMsgs(q), ToolMsg(i))
        /\ F \o ToolMsgs(q) \in Seq(OpenMsgs)
    BY <2>2, <2>3, AppendBehind
  <2>6. ToCodex(Append(F \o ToolMsgs(q), ToolMsg(i))) = ToCodex(F \o ToolMsgs(q)) \o ToItems(ToolMsg(i))
    BY <2>3, <2>5, ItemsGrow
  <2>7. ToItems(ToolMsg(i)) = <<Result(i)>>
    BY ItemsOf
  <2>8. (ToCodex(F) \o Outcomes(q)) \o <<Result(i)>> = Append(ToCodex(F) \o Outcomes(q), Result(i))
    BY <2>3, <2>4, AppendIsConcat
  <2>9. ToCodex(F \o ToolMsgs(q)) = ToCodex(F) \o Outcomes(q)
    BY <1>3
  <2>10. QED
    BY <2>1, <2>2, <2>4, <2>5, <2>6, <2>7, <2>8, <2>9
<1> HIDE DEF Fine
<1>4. Seq(Nat) \subseteq Fine
  BY <1>2, <1>3, LineSetInduction
<1>5. QED
  BY <1>4 DEF Fine

Readable(talked) == \A k \in DOMAIN talked : FromMessage(talked[k]) \in Seq(OpenMsgs)

LEMMA TalkGrows ==
  ASSUME NEW talked \in Seq(Talks), Readable(talked), NEW m \in Talks, FromMessage(m) \in Seq(OpenMsgs)
  PROVE  /\ FromAnthropic(talked) \in Seq(OpenMsgs) /\ Readable(Append(talked, m))
         /\ FromAnthropic(Append(talked, m)) = FromAnthropic(talked) \o FromMessage(m)
<1> DEFINE read == [k \in DOMAIN talked |-> FromMessage(talked[k])]
           more == Append(talked, m)
           q == [k \in DOMAIN more |-> FromMessage(more[k])]
           r == Append(read, FromMessage(m))
           last == Len(talked)
<1>1. last \in Nat /\ DOMAIN talked = 1 .. last /\ \A k \in 1 .. last : FromMessage(talked[k]) \in Seq(OpenMsgs)
  BY LenProperties DEF Readable
<1>2. /\ more \in Seq(Talks) /\ Len(more) = last + 1 /\ DOMAIN more = 1 .. last + 1
      /\ more[last + 1] = m /\ \A k \in 1 .. last : more[k] = talked[k]
  BY <1>1, AppendProperties, LenProperties
<1>3. read \in Seq(Seq(OpenMsgs)) /\ Len(read) = last /\ \A k \in 1 .. last : read[k] = FromMessage(talked[k])
  BY <1>1
<1> HIDE DEF read, more, last
<1>4. r \in Seq(Seq(OpenMsgs)) /\ Len(r) = last + 1 /\ r[last + 1] = FromMessage(m)
      /\ \A k \in 1 .. last : r[k] = read[k]
  BY <1>3, AppendProperties
<1>5. \A k \in 1 .. last + 1 : q[k] = r[k] /\ FromMessage(more[k]) \in Seq(OpenMsgs)
  <2>1. TAKE k \in 1 .. last + 1
  <2>2. q[k] = FromMessage(more[k])
    BY <1>2
  <2>3. k = last + 1 \/ k \in 1 .. last
    BY <1>1
  <2>4. CASE k = last + 1
    BY <1>2, <1>4, <2>2, <2>4
  <2>5. CASE k \in 1 .. last
    <3>1. more[k] = talked[k] /\ r[k] = FromMessage(talked[k]) /\ FromMessage(talked[k]) \in Seq(OpenMsgs)
      BY <1>1, <1>2, <1>3, <1>4, <2>5
    <3>2. QED
      BY <2>2, <3>1
  <2>6. QED
    BY <2>3, <2>4, <2>5
<1>6. q = r
  <2> HIDE DEF r
  <2>1. q \in Seq(Seq(OpenMsgs)) /\ Len(q) = last + 1
    BY <1>1, <1>2, <1>5
  <2> HIDE DEF q
  <2>2. QED
    BY <1>4, <1>5, <2>1, SeqEqual
<1>7. FromAnthropic(talked) = FlattenSeq(read) /\ FromAnthropic(more) = FlattenSeq(q)
  BY DEF FromAnthropic, read
<1> HIDE DEF q
<1>8. FlattenSeq(read) \in Seq(OpenMsgs) /\ FlattenSeq(Append(read, FromMessage(m))) = FlattenSeq(read) \o FromMessage(m)
  BY <1>3, FlattenAppend
<1>9. Readable(more)
  BY <1>2, <1>5 DEF Readable
<1>10. QED
  BY <1>6, <1>7, <1>8, <1>9 DEF more

-----------------------------------------------------------------------------
\* In each format, every call of the conversation is answered, but for the calls of the
\* last answer while the agent has still to say what came of them.
OpenAIPairs(F, open) ==
  /\ \A k \in 1 .. Len(F) : F[k].calls # <<>> =>
       \/ k = Len(F) /\ F[k].calls = open
       \/ /\ k + Len(F[k].calls) <= Len(F)
          /\ {F[j].id : j \in k + 1 .. k + Len(F[k].calls)} = Elements(F[k].calls)
  /\ \A k \in 1 .. Len(F) : F[k].role = "tool" => \E j \in 1 .. k - 1 : F[k].id \in Elements(F[j].calls)
  /\ open # <<>> => F # <<>> /\ F[Len(F)].calls = open

LEMMA OneMorePaired ==
  ASSUME NEW F \in Seq(OpenMsgs), NEW m \in OpenMsgs, m.role # "tool", OpenAIPairs(F, <<>>)
  PROVE  OpenAIPairs(Append(F, m), m.calls)
<1> DEFINE G == Append(F, m)
           n == Len(F)
<1>1. n \in Nat /\ Len(G) = n + 1 /\ G[n + 1] = m /\ (\A k \in 1 .. n : G[k] = F[k]) /\ G \in Seq(OpenMsgs)
  BY AppendProperties, LenProperties
<1>2. \A k \in 1 .. n : Len(F[k].calls) \in Nat
  <2>1. \A k \in 1 .. n : F[k] \in OpenMsgs
    BY ElementOfSeq
  <2>2. \A k \in 1 .. n : F[k].calls \in Seq(Nat)
    BY <2>1 DEF OpenMsgs
  <2>3. QED
    BY <2>2, LenProperties
<1> HIDE DEF G
<1>3. ASSUME NEW k \in 1 .. Len(G), G[k].calls # <<>>
      PROVE  \/ k = Len(G) /\ G[k].calls = m.calls
             \/ /\ k + Len(G[k].calls) <= Len(G)
                /\ {G[j].id : j \in k + 1 .. k + Len(G[k].calls)} = Elements(G[k].calls)
  <2>1. CASE k = n + 1
    BY <1>1, <2>1
  <2>2. CASE k \in 1 .. n
    <3> DEFINE c == F[k].calls
    <3>1. G[k].calls = c /\ c # <<>> /\ Len(c) \in Nat
      BY <1>1, <1>2, <1>3, <2>2
    <3>2. k + Len(c) <= n /\ {F[j].id : j \in k + 1 .. k + Len(c)} = Elements(c)
      BY <2>2, <3>1 DEF OpenAIPairs
    <3> HIDE DEF c
    <3>3. \A j \in k + 1 .. k + Len(c) : G[j].id = F[j].id
      BY <1>1, <2>2, <3>1, <3>2
    <3>4. {G[j].id : j \in k + 1 .. k + Len(c)} = {F[j].id : j \in k + 1 .. k + Len(c)}
      BY <3>3
    <3>5. k + Len(c) <= Len(G)
      BY <1>1, <2>2, <3>1, <3>2
    <3>6. QED
      BY <3>1, <3>2, <3>4, <3>5
  <2>3. QED
    BY <1>1, <2>1, <2>2
<1>4. ASSUME NEW k \in 1 .. Len(G), G[k].role = "tool"
      PROVE  \E j \in 1 .. k - 1 : G[k].id \in Elements(G[j].calls)
  <2>1. k \in 1 .. n
    BY <1>1, <1>4
  <2>2. G[k] = F[k]
    BY <1>1, <2>1
  <2>3. PICK j \in 1 .. k - 1 : F[k].id \in Elements(F[j].calls)
    BY <1>4, <2>1, <2>2 DEF OpenAIPairs
  <2>4. j \in 1 .. n /\ G[j] = F[j]
    BY <1>1, <2>1
  <2>5. QED
    BY <2>2, <2>3, <2>4
<1>5. G # <<>> /\ G[Len(G)].calls = m.calls
  BY <1>1
<1>6. QED
  BY <1>3, <1>4, <1>5 DEF OpenAIPairs, G

LEMMA ResultsPaired ==
  ASSUME NEW F \in Seq(OpenMsgs), NEW open \in Seq(Nat), NEW order \in Seq(Nat), OpenAIPairs(F, open),
         Len(order) = Len(open), Elements(order) = Elements(open)
  PROVE  OpenAIPairs(F \o ToolMsgs(order), <<>>)
<1> DEFINE tools == ToolMsgs(order)
           G == F \o tools
           n == Len(F)
           d == Len(order)
<1>1. n \in Nat /\ d \in Nat /\ Len(tools) = d /\ tools \in Seq(OpenMsgs)
      /\ DOMAIN order = 1 .. d /\ \A k \in 1 .. d : tools[k] = ToolMsg(order[k])
  BY LenProperties, ToolMsgsFacts
<1> HIDE DEF tools
<1>2. /\ Len(G) = n + d /\ \A k \in 1 .. n : G[k] = F[k]
      /\ \A k \in 1 .. d : G[n + k] = ToolMsg(order[k])
  <2>1. /\ Len(G) = n + d
        /\ \A k \in 1 .. n + d : G[k] = IF k <= n THEN F[k] ELSE tools[k - n]
    <3>1. tools \in Seq(OpenMsgs)
      BY <1>1
    <3>2. /\ Len(G) = Len(F) + Len(tools)
          /\ \A k \in 1 .. Len(F) + Len(tools) : G[k] = IF k <= Len(F) THEN F[k] ELSE tools[k - Len(F)]
      BY <3>1, ConcatProperties
    <3>3. Len(tools) = d
      BY <1>1
    <3> HIDE DEF G, d
    <3>4. QED
      BY <3>2, <3>3
  <2> HIDE DEF G, n, d
  <2>2. \A k \in 1 .. n : k \in 1 .. n + d /\ k <= n
    BY <1>1
  <2>3. \A k \in 1 .. d : n + k \in 1 .. n + d /\ ~ (n + k <= n) /\ (n + k) - n = k
    BY <1>1
  <2>4. \A k \in 1 .. d : G[n + k] = tools[k]
    <3>1. TAKE k \in 1 .. d
    <3>2. n + k \in 1 .. n + d /\ ~ (n + k <= n) /\ (n + k) - n = k
      BY <2>3
    <3>3. G[n + k] = IF n + k <= n THEN F[n + k] ELSE tools[(n + k) - n]
      BY <2>1, <3>2
    <3>4. QED
      BY <3>2, <3>3
  <2>5. QED
    BY <1>1, <2>1, <2>2, <2>4
<1>3. \A i : ToolMsg(i).calls = <<>> /\ ToolMsg(i).id = i
  BY DEF ToolMsg, Msg
<1>4. \A k \in 1 .. n : Len(F[k].calls) \in Nat
  <2>1. \A k \in 1 .. n : F[k] \in OpenMsgs
    BY ElementOfSeq
  <2>2. \A k \in 1 .. n : F[k].calls \in Seq(Nat)
    BY <2>1 DEF OpenMsgs
  <2>3. QED
    BY <2>2, LenProperties
<1> HIDE DEF G, n, d
<1>5. \A k \in 1 .. Len(G) : k \in 1 .. n \/ (k - n \in 1 .. d /\ k = n + (k - n) /\ G[k] = ToolMsg(order[k - n]))
  <2>1. TAKE k \in 1 .. Len(G)
  <2>2. k \in 1 .. n \/ k - n \in 1 .. d
    BY <1>1, <1>2
  <2>3. k = n + (k - n)
    BY <1>1
  <2>4. QED
    BY <1>2, <2>2, <2>3
<1>6. ASSUME NEW k \in 1 .. Len(G), G[k].calls # <<>>
      PROVE  /\ k + Len(G[k].calls) <= Len(G)
             /\ {G[j].id : j \in k + 1 .. k + Len(G[k].calls)} = Elements(G[k].calls)
  <2> DEFINE c == F[k].calls
  <2>1. k \in 1 .. n
    BY <1>3, <1>5, <1>6
  <2>2. G[k].calls = c /\ c # <<>> /\ Len(c) \in Nat
    BY <1>2, <1>4, <1>6, <2>1
  <2>3. \/ k = n /\ c = open
        \/ k + Len(c) <= n /\ {F[j].id : j \in k + 1 .. k + Len(c)} = Elements(c)
    BY <2>1, <2>2 DEF OpenAIPairs, n
  <2> HIDE DEF c
  <2>4. CASE k = n /\ c = open
    <3>1. Len(c) = d
      BY <2>4 DEF d
    <3> DEFINE theirs == {G[j].id : j \in n + 1 .. n + d}
               answered == {order[i] : i \in 1 .. d}
    <3>2. theirs = answered
      <4>1. \A j \in n + 1 .. n + d : j - n \in 1 .. d /\ G[j].id = order[j - n]
        <5>1. TAKE j \in n + 1 .. n + d
        <5>2. j - n \in 1 .. d /\ n + (j - n) = j
          BY <1>1
        <5>3. G[n + (j - n)] = ToolMsg(order[j - n])
          BY <1>2, <5>2
        <5>4. QED
          BY <1>3, <5>2, <5>3
      <4>2. \A i \in 1 .. d : n + i \in n + 1 .. n + d /\ G[n + i].id = order[i]
        BY <1>1, <1>2, <1>3
      <4>3. theirs \subseteq answered
        BY <4>1
      <4>4. \A i \in 1 .. d : order[i] \in theirs
        <5>1. TAKE i \in 1 .. d
        <5>2. n + i \in n + 1 .. n + d /\ G[n + i].id = order[i]
          BY <4>2
        <5>3. QED
          BY <5>2
      <4>5. answered \subseteq theirs
        BY <4>4
      <4> HIDE DEF theirs, answered
      <4>6. QED
        BY <4>3, <4>5
    <3>3. answered = Elements(order)
      BY <1>1 DEF Elements
    <3> HIDE DEF answered
    <3>4. theirs = Elements(c)
      BY <2>4, <3>2, <3>3
    <3>5. theirs = {G[j].id : j \in k + 1 .. k + Len(c)}
      BY <2>4, <3>1
    <3> HIDE DEF theirs
    <3>6. k + Len(c) <= Len(G)
      BY <1>1, <1>2, <2>4, <3>1
    <3>7. QED
      BY <2>2, <3>4, <3>5, <3>6
  <2>5. CASE k + Len(c) <= n /\ {F[j].id : j \in k + 1 .. k + Len(c)} = Elements(c)
    <3>1. \A j \in k + 1 .. k + Len(c) : G[j].id = F[j].id
      BY <1>1, <1>2, <2>1, <2>2, <2>5
    <3>2. {G[j].id : j \in k + 1 .. k + Len(c)} = {F[j].id : j \in k + 1 .. k + Len(c)}
      BY <3>1
    <3>3. k + Len(c) <= Len(G)
      BY <1>1, <1>2, <2>1, <2>2, <2>5
    <3>4. QED
      BY <2>2, <2>5, <3>2, <3>3
  <2>6. QED
    BY <2>3, <2>4, <2>5
<1>7. ASSUME NEW k \in 1 .. Len(G), G[k].role = "tool"
      PROVE  \E j \in 1 .. k - 1 : G[k].id \in Elements(G[j].calls)
  <2>1. CASE k \in 1 .. n
    <3>1. G[k] = F[k]
      BY <1>2, <2>1
    <3>2. PICK j \in 1 .. k - 1 : F[k].id \in Elements(F[j].calls)
      <4>1. \A i \in 1 .. n : F[i].role = "tool" => \E j \in 1 .. i - 1 : F[i].id \in Elements(F[j].calls)
        BY Zenon DEF OpenAIPairs, n
      <4>2. QED
        BY <1>7, <2>1, <3>1, <4>1
    <3>3. j \in 1 .. n /\ G[j] = F[j]
      <4>1. j \in 1 .. n
        BY <1>1, <2>1
      <4>2. QED
        BY <1>2, <4>1
    <3>4. QED
      BY <3>1, <3>2, <3>3
  <2>2. CASE k - n \in 1 .. d /\ G[k] = ToolMsg(order[k - n])
    <3>1. G[k].id \in Elements(open)
      <4>1. G[k].id = order[k - n] /\ k - n \in DOMAIN order
        BY <1>1, <1>3, <2>2
      <4>2. order[k - n] \in Elements(order)
        BY <4>1 DEF Elements
      <4>3. QED
        BY <4>1, <4>2
    <3>2. open # <<>>
      BY <1>1, <2>2 DEF d
    <3>3. F # <<>> /\ F[n].calls = open
      BY <3>2 DEF OpenAIPairs, n
    <3>4. n \in 1 .. n
      BY <1>1, <3>3, EmptySeq DEF n
    <3>5. n \in 1 .. k - 1 /\ G[n] = F[n]
      BY <1>1, <1>2, <2>2, <3>4
    <3>6. QED
      BY <3>1, <3>3, <3>5
  <2>3. QED
    BY <1>5, <2>1, <2>2
<1>8. QED
  BY <1>6, <1>7 DEF OpenAIPairs, G, tools

\* The calls and results of a message with blocks.
Used(m) == Elements(IdsOf(OfType(m.content, "tool_use")))
Given(m) == Elements(IdsOf(OfType(m.content, "tool_result")))
MessagePairs(M, open) ==
  \A k \in 1 .. Len(M) : Used(M[k]) # {} =>
    \/ k = Len(M) /\ Used(M[k]) = Elements(open)
    \/ k < Len(M) /\ M[k + 1].role = "user" /\ Given(M[k + 1]) = Used(M[k])
Posted(s, open) ==
  /\ s \in Posts /\ MessagePairs(AllFlushed(s), open)
  /\ open # <<>> => s.pending = <<>>

LEMMA NoneOf ==
  ASSUME NEW blocks \in Seq(Blocks), NEW type, \A k \in DOMAIN blocks : blocks[k].type # type
  PROVE  OfType(blocks, type) = <<>> /\ IdsOf(OfType(blocks, type)) = <<>> /\ Elements(IdsOf(OfType(blocks, type))) = {}
<1> DEFINE T == {b \in Blocks : b.type # type}
<1>1. blocks \in Seq(T)
  <2>1. DOMAIN blocks = 1 .. Len(blocks) /\ Len(blocks) \in Nat /\ \A k \in 1 .. Len(blocks) : blocks[k] \in T
    BY LenProperties, ElementOfSeq
  <2> HIDE DEF T
  <2>2. blocks = [k \in 1 .. Len(blocks) |-> blocks[k]]
    BY <2>1, LenProperties
  <2>3. QED
    BY <2>1, <2>2
<1>2. T \cap OfKind(type) = {}
  BY DEF OfKind
<1> HIDE DEF T
<1>3. Sifted(blocks, OfKind(type)) = <<>>
  BY <1>1, <1>2, SiftedAll
<1>4. OfType(blocks, type) = <<>>
  BY <1>3, OfTypeSifted
<1>5. IdsOf(<<>>) = <<>>
  BY DEF IdsOf
<1>6. Elements(<<>>) = {}
  BY DEF Elements
<1>7. QED
  BY <1>4, <1>5, <1>6

LEMMA OneMorePosted ==
  ASSUME NEW s, Posted(s, <<>>), NEW m \in OpenMsgs, NEW calls, Used(m) = Elements(calls)
  PROVE  Posted(Post(<<>>, Append(AllFlushed(s), m)), calls)
<1> DEFINE M == AllFlushed(s)
           N == Append(M, m)
           n == Len(M)
           r == Post(<<>>, N)
<1>1. M \in Seq(OpenMsgs)
  BY FlushedFacts DEF Posted
<1> HIDE DEF M
<1>2. n \in Nat /\ N \in Seq(OpenMsgs) /\ Len(N) = n + 1 /\ N[n + 1] = m /\ \A k \in 1 .. n : N[k] = M[k]
  BY <1>1, AppendProperties, LenProperties
<1> HIDE DEF N
<1>3. r.pending = <<>> /\ r.messages = N /\ r \in Posts
  <2>1. <<>> \in Seq(OfKind("tool_result"))
    BY EmptySeq
  <2>2. QED
    BY <1>2, <2>1 DEF Post, Posts
<1> HIDE DEF r
<1>4. AllFlushed(r) = N
  BY <1>3, FlushedFacts
<1>5. Elements(<<>>) = {}
  BY DEF Elements
<1>6. MessagePairs(N, calls)
  <2>1. SUFFICES ASSUME NEW k \in 1 .. Len(N), Used(N[k]) # {}
                 PROVE  \/ k = Len(N) /\ Used(N[k]) = Elements(calls)
                        \/ k < Len(N) /\ N[k + 1].role = "user" /\ Given(N[k + 1]) = Used(N[k])
    BY DEF MessagePairs
  <2>2. CASE k = n + 1
    BY <1>2, <2>2
  <2>3. CASE k \in 1 .. n
    <3>1. N[k] = M[k]
      BY <1>2, <2>3
    <3>2. k < n /\ M[k + 1].role = "user" /\ Given(M[k + 1]) = Used(M[k])
      BY <1>5, <2>1, <2>3, <3>1 DEF MessagePairs, Posted, M
    <3>3. N[k + 1] = M[k + 1] /\ k < Len(N)
      BY <1>2, <2>3, <3>2
    <3>4. QED
      BY <3>1, <3>2, <3>3
  <2>4. QED
    BY <1>2, <2>2, <2>3
<1>7. QED
  BY <1>3, <1>4, <1>6 DEF Posted, r, N, M

LEMMA ResultsPosted ==
  ASSUME NEW s, NEW open \in Seq(Nat), NEW order \in Seq(Nat), Posted(s, open),
         Len(order) = Len(open), Elements(order) = Elements(open)
  PROVE  Posted(Post(s.pending \o Outcomes(order), s.messages), <<>>)
<1> DEFINE r == Post(s.pending \o Outcomes(order), s.messages)
<1>1. s \in Posts /\ s.pending \in Seq(OfKind("tool_result")) /\ s.messages \in Seq(OpenMsgs)
      /\ s = [pending |-> s.pending, messages |-> s.messages]
  BY DEF Posted, Posts
<1>2. CASE order = <<>>
  <2>1. open = <<>>
    BY <1>2, EmptySeq
  <2>2. Outcomes(order) = <<>>
    BY <1>2, OutcomesFacts
  <2>3. s.pending \o <<>> = s.pending
    BY <1>1, ConcatEmptySeq
  <2>4. r = s
    BY <1>1, <2>2, <2>3 DEF Post
  <2>5. QED
    BY <2>1, <2>4
<1>3. CASE order # <<>>
  <2> DEFINE o == Outcomes(order)
             m == Msg("user", o)
             M == s.messages
             N == Append(M, m)
             n == Len(M)
  <2>1. open # <<>>
    BY <1>3, EmptySeq
  <2>2. s.pending = <<>>
    BY <2>1 DEF Posted
  <2>3. o \in Seq(OfKind("tool_result")) /\ o \in Seq(Blocks) /\ Len(o) = Len(order) /\ o # <<>>
        /\ \A k \in 1 .. Len(order) : o[k] = Result(order[k])
    <3>1. o \in Seq(OfKind("tool_result")) /\ o \in Seq(Blocks) /\ Len(o) = Len(order)
          /\ \A k \in 1 .. Len(order) : o[k] = Result(order[k])
      BY OutcomesFacts
    <3>2. Len(order) # 0
      BY <1>3, EmptySeq
    <3>3. QED
      BY <3>1, <3>2, EmptySeq
  <2>4. Used(m) = {} /\ Given(m) = Elements(order) /\ m.role = "user" /\ m \in OpenMsgs
    <3>1. m.content = o /\ m.role = "user"
      BY DEF Msg
    <3>2. m \in OpenMsgs
      <4>1. <<>> \in Seq(Nat) /\ NoCall \in Nat
        BY EmptySeq DEF NoCall
      <4>2. QED
        BY <2>3, <4>1 DEF Msg, OpenMsgs
    <3> HIDE DEF m, o
    <3>3. OfType(o, "tool_result") = o /\ OfType(o, "tool_use") = <<>>
      <4>1. "tool_use" # "tool_result"
        OBVIOUS
      <4>2. QED
        BY <2>3, <4>1, OneType
    <3>4. Elements(IdsOf(<<>>)) = {}
      BY DEF Elements, IdsOf
    <3>5. Elements(IdsOf(o)) = Elements(order)
      <4>1. DOMAIN o = 1 .. Len(order) /\ DOMAIN order = 1 .. Len(order)
        BY <2>3, LenProperties
      <4>2. \A k \in 1 .. Len(order) : o[k].id = order[k]
        <5>1. TAKE k \in 1 .. Len(order)
        <5>2. o[k] = Result(order[k])
          BY <2>3
        <5>3. QED
          BY <5>2 DEF Result
      <4>3. order = [k \in 1 .. Len(order) |-> order[k]]
        BY <4>1, LenProperties
      <4>4. IdsOf(o) = order
        BY <4>1, <4>2, <4>3 DEF IdsOf
      <4>5. QED
        BY <4>4
    <3>6. QED
      BY <3>1, <3>2, <3>3, <3>4, <3>5 DEF Used, Given
  <2>5. s.pending \o o = o
    BY <2>2, <2>3, ConcatEmptySeq
  <2> HIDE DEF o
  <2>6. r.pending = o /\ r.messages = M /\ r \in Posts
    BY <1>1, <2>3, <2>5 DEF Post, Posts, o
  <2> HIDE DEF r
  <2>7. AllFlushed(r) = N
    BY <2>3, <2>6, FlushedFacts
  <2>8. AllFlushed(s) = M
    BY <1>1, <2>2, FlushedFacts
  <2> HIDE DEF m
  <2>9. n \in Nat /\ Len(N) = n + 1 /\ N[n + 1] = m /\ \A k \in 1 .. n : N[k] = M[k]
    BY <1>1, <2>4, AppendProperties, LenProperties
  <2> HIDE DEF M, N
  <2>10. MessagePairs(N, <<>>)
    <3>1. SUFFICES ASSUME NEW k \in 1 .. Len(N), Used(N[k]) # {}
                   PROVE  k < Len(N) /\ N[k + 1].role = "user" /\ Given(N[k + 1]) = Used(N[k])
      BY DEF MessagePairs
    <3>2. CASE k = n + 1
      BY <2>4, <2>9, <3>1, <3>2
    <3>3. CASE k \in 1 .. n
      <4>1. N[k] = M[k] /\ k < Len(N)
        BY <2>9, <3>3
      <4>2. \/ k = n /\ Used(M[k]) = Elements(open)
            \/ k < n /\ M[k + 1].role = "user" /\ Given(M[k + 1]) = Used(M[k])
        BY <2>8, <3>1, <3>3, <4>1 DEF MessagePairs, Posted
      <4>3. CASE k = n /\ Used(M[k]) = Elements(open)
        BY <2>4, <2>9, <4>1, <4>3
      <4>4. CASE k < n /\ M[k + 1].role = "user" /\ Given(M[k + 1]) = Used(M[k])
        <5>1. N[k + 1] = M[k + 1]
          BY <2>9, <3>3, <4>4
        <5>2. QED
          BY <4>1, <4>4, <5>1
      <4>5. QED
        BY <4>2, <4>3, <4>4
    <3>4. QED
      BY <2>9, <3>2, <3>3
  <2>11. QED
    BY <2>6, <2>7, <2>10 DEF Posted, r, o
<1>4. QED
  BY <1>2, <1>3

-----------------------------------------------------------------------------
\* Items in a row: what is true of the conversation so far, when the calls that are open
\* still have no results, and every id is below a bound.
At(C, type) == {k \in 1 .. Len(C) : C[k].type = type}
ItemPairs(C, open, bound) ==
  /\ \A i, j \in At(C, "tool_use") : C[i].id = C[j].id => i = j
  /\ \A i, j \in At(C, "tool_result") : C[i].id = C[j].id => i = j
  /\ \A k \in At(C, "tool_use") : C[k].id < bound
  /\ \A k \in At(C, "tool_use") : C[k].id \in open \/ \E j \in At(C, "tool_result") : k < j /\ C[j].id = C[k].id
  /\ \A j \in At(C, "tool_result") : C[j].id \notin open /\ \E k \in At(C, "tool_use") : k < j /\ C[k].id = C[j].id
  /\ \A i \in open : \E k \in At(C, "tool_use") : C[k].id = i

LEMMA LinesJoin ==
  ASSUME NEW T, NEW p \in Seq(T), NEW q \in Seq(T)
  PROVE  /\ p \o q \in Seq(T) /\ Len(p) \in Nat /\ Len(q) \in Nat /\ Len(p \o q) = Len(p) + Len(q)
         /\ \A k \in 1 .. Len(p) : k \in 1 .. Len(p \o q) /\ (p \o q)[k] = p[k]
         /\ \A k \in 1 .. Len(q) : Len(p) + k \in 1 .. Len(p \o q) /\ (p \o q)[Len(p) + k] = q[k]
         /\ \A k \in 1 .. Len(p \o q) :
              \/ k \in 1 .. Len(p) /\ (p \o q)[k] = p[k]
              \/ k - Len(p) \in 1 .. Len(q) /\ (p \o q)[k] = q[k - Len(p)] /\ k = Len(p) + (k - Len(p))
<1> DEFINE n == Len(p)
           d == Len(q)
           J == p \o q
<1>1. n \in Nat /\ d \in Nat
  BY LenProperties
<1>2. J \in Seq(T) /\ Len(J) = n + d /\ \A k \in 1 .. n + d : J[k] = IF k <= n THEN p[k] ELSE q[k - n]
  BY ConcatProperties
<1> HIDE DEF n, d, J
<1>3. \A k \in 1 .. n : k \in 1 .. Len(J) /\ J[k] = p[k]
  <2>1. TAKE k \in 1 .. n
  <2>2. k \in 1 .. n + d /\ k <= n
    BY <1>1
  <2>3. QED
    BY <1>2, <2>2
<1>4. \A k \in 1 .. d : n + k \in 1 .. Len(J) /\ J[n + k] = q[k]
  <2>1. TAKE k \in 1 .. d
  <2>2. n + k \in 1 .. n + d /\ ~ (n + k <= n) /\ (n + k) - n = k
    BY <1>1
  <2>3. J[n + k] = IF n + k <= n THEN p[n + k] ELSE q[(n + k) - n]
    BY <1>2, <2>2
  <2>4. QED
    BY <1>2, <2>2, <2>3
<1>5. \A k \in 1 .. Len(J) : \/ k \in 1 .. n /\ J[k] = p[k]
                             \/ k - n \in 1 .. d /\ J[k] = q[k - n] /\ k = n + (k - n)
  <2>1. TAKE k \in 1 .. Len(J)
  <2>2. k \in 1 .. n \/ (k - n \in 1 .. d /\ k = n + (k - n) /\ ~ (k <= n))
    BY <1>1, <1>2
  <2>3. J[k] = IF k <= n THEN p[k] ELSE q[k - n]
    BY <1>2
  <2>4. QED
    BY <1>3, <2>2, <2>3
<1>6. QED
  BY <1>1, <1>2, <1>3, <1>4, <1>5 DEF n, d, J

\* The open calls are answered, each once.
LEMMA ItemsAnswered ==
  ASSUME NEW C \in Seq(Blocks), NEW order \in Seq(Nat), NEW bound \in Nat, ItemPairs(C, Elements(order), bound),
         \A i, j \in DOMAIN order : order[i] = order[j] => i = j
  PROVE  ItemPairs(C \o Outcomes(order), {}, bound)
<1> DEFINE R == Outcomes(order)
           J == C \o R
           n == Len(C)
           d == Len(order)
           open == Elements(order)
<1>1. R \in Seq(Blocks) /\ Len(R) = d /\ d \in Nat /\ DOMAIN order = 1 .. d
  BY OutcomesFacts, LenProperties
<1>2. \A k \in 1 .. d : R[k].type = "tool_result" /\ R[k].id = order[k]
  <2>1. TAKE k \in 1 .. d
  <2>2. R[k] = Result(order[k])
    BY OutcomesFacts
  <2>3. QED
    BY <2>2 DEF Result
<1>3. \A k \in 1 .. d : order[k] \in open
  BY <1>1 DEF Elements
<1>4. \A i \in open : \E k \in 1 .. d : order[k] = i
  BY <1>1 DEF Elements
<1> HIDE DEF R
<1>5. /\ n \in Nat /\ \A k \in 1 .. n : k \in 1 .. Len(J) /\ J[k] = C[k]
      /\ \A k \in 1 .. d : n + k \in 1 .. Len(J) /\ J[n + k] = R[k]
      /\ \A k \in 1 .. Len(J) : \/ k \in 1 .. n /\ J[k] = C[k]
                                \/ k - n \in 1 .. d /\ J[k] = R[k - n] /\ k = n + (k - n)
  <2>1. R \in Seq(Blocks) /\ Len(R) = d
    BY <1>1
  <2> HIDE DEF d
  <2>2. QED
    BY <2>1, LinesJoin
<1> HIDE DEF J, d, open, n
<1>6. /\ \A i, j \in At(C, "tool_use") : C[i].id = C[j].id => i = j
      /\ \A i, j \in At(C, "tool_result") : C[i].id = C[j].id => i = j
      /\ \A k \in At(C, "tool_use") : C[k].id < bound
      /\ \A k \in At(C, "tool_use") : C[k].id \in open \/ \E j \in At(C, "tool_result") : k < j /\ C[j].id = C[k].id
      /\ \A j \in At(C, "tool_result") : C[j].id \notin open /\ \E k \in At(C, "tool_use") : k < j /\ C[k].id = C[j].id
      /\ \A i \in open : \E k \in At(C, "tool_use") : C[k].id = i
  BY DEF ItemPairs, open
<1>7. \A k : k \in At(J, "tool_use") <=> k \in At(C, "tool_use")
  <2>1. TAKE k
  <2>2. k \in At(J, "tool_use") => k \in 1 .. n /\ J[k] = C[k]
    BY <1>2, <1>5 DEF At
  <2>3. QED
    BY <1>5, <2>2 DEF At, n
<1>8. \A k \in At(C, "tool_use") : J[k] = C[k] /\ k \in 1 .. n
  BY <1>5 DEF At, n
<1>9. \A k \in At(C, "tool_result") : k \in At(J, "tool_result") /\ J[k] = C[k] /\ k \in 1 .. n
  BY <1>5 DEF At, n
<1>10. \A k \in 1 .. d : n + k \in At(J, "tool_result") /\ J[n + k].id = order[k]
  BY <1>2, <1>5 DEF At
<1>11. \A k \in At(J, "tool_result") : \/ k \in At(C, "tool_result") /\ J[k] = C[k]
                                       \/ k - n \in 1 .. d /\ J[k].id = order[k - n] /\ k = n + (k - n)
  <2>1. TAKE k \in At(J, "tool_result")
  <2>2. k \in 1 .. Len(J) /\ J[k].type = "tool_result"
    BY DEF At
  <2>3. CASE k \in 1 .. n /\ J[k] = C[k]
    BY <2>2, <2>3 DEF At, n
  <2>4. CASE k - n \in 1 .. d /\ J[k] = R[k - n] /\ k = n + (k - n)
    BY <1>2, <2>4
  <2>5. QED
    BY <1>5, <2>2, <2>3, <2>4
<1>12. \A i, j \in At(J, "tool_use") : J[i].id = J[j].id => i = j
  BY <1>6, <1>7, <1>8
<1>13. ASSUME NEW i \in At(J, "tool_result"), NEW j \in At(J, "tool_result"), J[i].id = J[j].id
       PROVE  i = j
  <2>1. CASE i \in At(C, "tool_result") /\ J[i] = C[i] /\ j \in At(C, "tool_result") /\ J[j] = C[j]
    BY <1>6, <1>13, <2>1
  <2>2. CASE i - n \in 1 .. d /\ J[i].id = order[i - n] /\ i = n + (i - n)
             /\ j - n \in 1 .. d /\ J[j].id = order[j - n] /\ j = n + (j - n)
    <3>1. i - n = j - n
      BY <1>1, <1>13, <2>2
    <3>2. QED
      BY <2>2, <3>1
  <2>3. CASE i \in At(C, "tool_result") /\ J[i] = C[i] /\ j - n \in 1 .. d /\ J[j].id = order[j - n]
    <3>1. J[i].id \notin open /\ J[j].id \in open
      BY <1>3, <1>6, <2>3
    <3>2. QED
      BY <1>13, <3>1
  <2>4. CASE j \in At(C, "tool_result") /\ J[j] = C[j] /\ i - n \in 1 .. d /\ J[i].id = order[i - n]
    <3>1. J[j].id \notin open /\ J[i].id \in open
      BY <1>3, <1>6, <2>4
    <3>2. QED
      BY <1>13, <3>1
  <2>5. QED
    BY <1>11, <2>1, <2>2, <2>3, <2>4
<1>14. \A k \in At(J, "tool_use") : J[k].id < bound
  BY <1>6, <1>7, <1>8
<1>15. ASSUME NEW k \in At(J, "tool_use")
       PROVE  \E j \in At(J, "tool_result") : k < j /\ J[j].id = J[k].id
  <2>1. k \in At(C, "tool_use") /\ J[k] = C[k] /\ k \in 1 .. n
    BY <1>7, <1>8
  <2>2. CASE C[k].id \in open
    <3>1. PICK i \in 1 .. d : order[i] = C[k].id
      BY <1>4, <2>2
    <3>2. n + i \in At(J, "tool_result") /\ J[n + i].id = order[i]
      BY <1>10
    <3>3. k < n + i
      BY <1>1, <1>5, <2>1
    <3>4. QED
      BY <2>1, <3>1, <3>2, <3>3
  <2>3. CASE \E j \in At(C, "tool_result") : k < j /\ C[j].id = C[k].id
    BY <1>9, <2>1, <2>3
  <2>4. QED
    BY <1>6, <2>1, <2>2, <2>3
<1>16. ASSUME NEW j \in At(J, "tool_result")
       PROVE  \E k \in At(J, "tool_use") : k < j /\ J[k].id = J[j].id
  <2>1. CASE j \in At(C, "tool_result") /\ J[j] = C[j]
    BY <1>6, <1>7, <1>8, <2>1
  <2>2. CASE j - n \in 1 .. d /\ J[j].id = order[j - n] /\ j = n + (j - n)
    <3>1. PICK k \in At(C, "tool_use") : C[k].id = order[j - n]
      BY <1>3, <1>6, <2>2
    <3>2. k \in At(J, "tool_use") /\ J[k] = C[k] /\ k \in 1 .. n
      BY <1>7, <1>8
    <3>3. k < j
      <4>1. \A x \in 1 .. d : k < n + x
        BY <1>1, <1>5, <3>2
      <4>2. QED
        BY <2>2, <4>1
    <3>4. QED
      BY <2>2, <3>1, <3>2, <3>3
  <2>3. QED
    BY <1>11, <2>1, <2>2
<1>17. QED
  BY <1>12, <1>13, <1>14, <1>15, <1>16 DEF ItemPairs, J, R

\* New calls are open, and what is said besides changes nothing.
LEMMA ItemsAsked ==
  ASSUME NEW C \in Seq(Blocks), NEW R \in Seq(Blocks), NEW bound \in Nat, NEW later \in Nat, bound <= later,
         ItemPairs(C, {}, bound), At(R, "tool_result") = {},
         \A i, j \in At(R, "tool_use") : R[i].id = R[j].id => i = j,
         \A k \in At(R, "tool_use") : R[k].id \in Nat /\ bound <= R[k].id /\ R[k].id < later
  PROVE  ItemPairs(C \o R, {R[k].id : k \in At(R, "tool_use")}, later)
<1> DEFINE J == C \o R
           n == Len(C)
           d == Len(R)
           open == {R[k].id : k \in At(R, "tool_use")}
<1>1. \A k \in 1 .. n : C[k].id \in Nat
  <2>1. \A k \in 1 .. n : C[k] \in Blocks
    BY ElementOfSeq
  <2>2. QED
    BY <2>1 DEF Blocks
<1>2. /\ n \in Nat /\ d \in Nat /\ \A k \in 1 .. n : k \in 1 .. Len(J) /\ J[k] = C[k]
      /\ \A k \in 1 .. d : n + k \in 1 .. Len(J) /\ J[n + k] = R[k]
      /\ \A k \in 1 .. Len(J) : \/ k \in 1 .. n /\ J[k] = C[k]
                                \/ k - n \in 1 .. d /\ J[k] = R[k - n] /\ k = n + (k - n)
  BY LinesJoin
<1>3. /\ \A i, j \in At(C, "tool_use") : C[i].id = C[j].id => i = j
      /\ \A i, j \in At(C, "tool_result") : C[i].id = C[j].id => i = j
      /\ \A k \in At(C, "tool_use") : C[k].id < bound
      /\ \A k \in At(C, "tool_use") : \E j \in At(C, "tool_result") : k < j /\ C[j].id = C[k].id
      /\ \A j \in At(C, "tool_result") : \E k \in At(C, "tool_use") : k < j /\ C[k].id = C[j].id
  BY DEF ItemPairs
<1>4. \A k \in At(R, "tool_use") : R[k].id \in open
  OBVIOUS
<1>5. \A i \in open : \E k \in At(R, "tool_use") : R[k].id = i
  OBVIOUS
<1> HIDE DEF J, n, d, open
<1>6. \A k : k \in At(J, "tool_result") <=> k \in At(C, "tool_result")
  <2>1. TAKE k
  <2>2. \A x \in 1 .. d : R[x].type # "tool_result"
    BY DEF At, d
  <2>3. k \in At(J, "tool_result") => k \in 1 .. n /\ J[k] = C[k]
    BY <1>2, <2>2 DEF At
  <2>4. QED
    BY <1>2, <2>3 DEF At, n
<1>7. \A k \in At(C, "tool_result") : J[k] = C[k] /\ k \in 1 .. n
  BY <1>2 DEF At, n
<1>8. \A k \in At(C, "tool_use") : k \in At(J, "tool_use") /\ J[k] = C[k] /\ k \in 1 .. n
  BY <1>2 DEF At, n
<1>9. \A k \in At(R, "tool_use") : n + k \in At(J, "tool_use") /\ J[n + k] = R[k]
  BY <1>2 DEF At, d
<1>10. \A k \in At(J, "tool_use") : \/ k \in At(C, "tool_use") /\ J[k] = C[k]
                                    \/ k - n \in At(R, "tool_use") /\ J[k] = R[k - n] /\ k = n + (k - n)
  <2>1. TAKE k \in At(J, "tool_use")
  <2>2. k \in 1 .. Len(J) /\ J[k].type = "tool_use"
    BY DEF At
  <2>3. CASE k \in 1 .. n /\ J[k] = C[k]
    BY <2>2, <2>3 DEF At, n
  <2>4. CASE k - n \in 1 .. d /\ J[k] = R[k - n] /\ k = n + (k - n)
    BY <2>2, <2>4 DEF At, d
  <2>5. QED
    BY <1>2, <2>2, <2>3, <2>4
<1>11. ASSUME NEW i \in At(J, "tool_use"), NEW j \in At(J, "tool_use"), J[i].id = J[j].id
       PROVE  i = j
  <2>1. \A x \in At(C, "tool_use"), y \in At(R, "tool_use") : C[x].id # R[y].id
    <3>1. TAKE x \in At(C, "tool_use"), y \in At(R, "tool_use")
    <3>2. C[x].id < bound /\ C[x].id \in Nat /\ R[y].id \in Nat /\ bound <= R[y].id
      BY <1>1, <1>3, <1>8
    <3>3. QED
      BY <3>2
  <2>2. CASE i \in At(C, "tool_use") /\ J[i] = C[i]
    <3>1. j \in At(C, "tool_use") /\ J[j] = C[j]
      BY <1>10, <1>11, <2>1, <2>2
    <3>2. QED
      BY <1>3, <1>11, <2>2, <3>1
  <2>3. CASE i - n \in At(R, "tool_use") /\ J[i] = R[i - n] /\ i = n + (i - n)
    <3>1. j - n \in At(R, "tool_use") /\ J[j] = R[j - n] /\ j = n + (j - n)
      BY <1>10, <1>11, <2>1, <2>3
    <3>2. i - n = j - n
      BY <1>11, <2>3, <3>1
    <3>3. QED
      BY <2>3, <3>1, <3>2
  <2>4. QED
    BY <1>10, <2>2, <2>3
<1>12. \A i, j \in At(J, "tool_result") : J[i].id = J[j].id => i = j
  BY <1>3, <1>6, <1>7
<1>13. ASSUME NEW k \in At(J, "tool_use")
       PROVE  J[k].id < later
  <2>1. CASE k \in At(C, "tool_use") /\ J[k] = C[k]
    <3>1. C[k].id < bound /\ C[k].id \in Nat
      BY <1>1, <1>3, <1>8, <2>1
    <3>2. QED
      BY <2>1, <3>1
  <2>2. QED
    BY <1>10, <2>1
<1>14. \A k \in At(J, "tool_use") : J[k].id \in open \/ \E j \in At(J, "tool_result") : k < j /\ J[j].id = J[k].id
  <2>1. TAKE k \in At(J, "tool_use")
  <2>2. CASE k \in At(C, "tool_use") /\ J[k] = C[k]
    BY <1>3, <1>6, <1>7, <2>2
  <2>3. CASE k - n \in At(R, "tool_use") /\ J[k] = R[k - n]
    BY <1>4, <2>3
  <2>4. QED
    BY <1>10, <2>2, <2>3
<1>15. ASSUME NEW j \in At(J, "tool_result")
       PROVE  J[j].id \notin open /\ \E k \in At(J, "tool_use") : k < j /\ J[k].id = J[j].id
  <2>1. j \in At(C, "tool_result") /\ J[j] = C[j]
    BY <1>6, <1>7
  <2>2. PICK k \in At(C, "tool_use") : k < j /\ C[k].id = C[j].id
    BY <1>3, <2>1
  <2>3. k \in At(J, "tool_use") /\ J[k] = C[k]
    BY <1>8
  <2>4. J[j].id \notin open
    <3>1. C[k].id < bound /\ C[k].id \in Nat
      BY <1>1, <1>3, <1>8
    <3>2. \A i \in open : i \in Nat /\ bound <= i
      BY <1>5
    <3>3. QED
      BY <2>1, <2>2, <3>1, <3>2
  <2>5. QED
    BY <2>1, <2>2, <2>3, <2>4
<1>16. \A i \in open : \E k \in At(J, "tool_use") : J[k].id = i
  BY <1>5, <1>9
<1>17. QED
  BY <1>11, <1>12, <1>13, <1>14, <1>15, <1>16 DEF ItemPairs, J, open

LEMMA ItemsPaired ==
  ASSUME NEW C \in Seq(Blocks), NEW bound, ItemPairs(C, {}, bound)
  PROVE  PairedCodex(C)
<1>1. /\ \A i, j \in At(C, "tool_use") : C[i].id = C[j].id => i = j
      /\ \A i, j \in At(C, "tool_result") : C[i].id = C[j].id => i = j
      /\ \A k \in At(C, "tool_use") : \E j \in At(C, "tool_result") : k < j /\ C[j].id = C[k].id
      /\ \A j \in At(C, "tool_result") : \E k \in At(C, "tool_use") : k < j /\ C[k].id = C[j].id
  BY DEF ItemPairs
<1>2. DOMAIN C = 1 .. Len(C) /\ At(C, "tool_use") \subseteq Nat /\ At(C, "tool_result") \subseteq Nat
  BY LenProperties DEF At
<1>3. ASSUME NEW k \in At(C, "tool_use")
      PROVE  Cardinality({j \in At(C, "tool_result") : C[j].id = C[k].id /\ j > k}) = 1
  <2> DEFINE S == {j \in At(C, "tool_result") : C[j].id = C[k].id /\ j > k}
  <2>1. PICK j \in At(C, "tool_result") : k < j /\ C[j].id = C[k].id
    BY <1>1
  <2>2. S = {j}
    <3>1. j \in S
      BY <1>2, <2>1
    <3>2. \A i \in S : i = j
      BY <1>1, <2>1
    <3> HIDE DEF S
    <3>3. QED
      BY <3>1, <3>2
  <2> HIDE DEF S
  <2>3. Cardinality(S) = 1
    BY <2>2, FS_Singleton
  <2>4. QED
    BY <2>3 DEF S
<1>4. ASSUME NEW j \in At(C, "tool_result")
      PROVE  Cardinality({k \in At(C, "tool_use") : C[k].id = C[j].id /\ k < j}) = 1
  <2> DEFINE S == {k \in At(C, "tool_use") : C[k].id = C[j].id /\ k < j}
  <2>1. PICK k \in At(C, "tool_use") : k < j /\ C[k].id = C[j].id
    BY <1>1
  <2>2. S = {k}
    <3>1. k \in S
      BY <2>1
    <3>2. \A i \in S : i = k
      BY <1>1, <2>1
    <3> HIDE DEF S
    <3>3. QED
      BY <3>1, <3>2
  <2> HIDE DEF S
  <2>3. Cardinality(S) = 1
    BY <2>2, FS_Singleton
  <2>4. QED
    BY <2>3 DEF S
<1>5. \A type : At(C, type) = {k \in DOMAIN C : C[k].type = type}
  BY <1>2 DEF At
<1>6. QED
  BY <1>3, <1>4, <1>5 DEF PairedCodex

-----------------------------------------------------------------------------
\* The ids of an answer are new, and its calls are answered each once.
OnceInOrder(ids) == \A i, j \in DOMAIN ids : ids[i] = ids[j] => i = j
IdBound == (MaxBlocks + 1) * (Turns + 1)
NewIds(calls, bound) ==
  OnceInOrder(calls) /\ \A k \in DOMAIN calls : bound < calls[k] /\ calls[k] <= bound + MaxBlocks
NewAnswer(content, bound) ==
  \E t \in Phrases, calls \in Seq(Nat) :
    content = Speech(t) \o Uses(calls) /\ (t # <<>> \/ calls # <<>>) /\ NewIds(calls, bound)
NumberedCalls(content) ==
  /\ content \in Seq(Blocks) /\ Len(content) <= MaxBlocks
  /\ \A k \in 1 .. Len(content) : content[k].type = "tool_use" => content[k].id = IdBound + k

LEMMA OrdersFacts ==
  ASSUME NEW open \in Seq(Nat), OnceInOrder(open), NEW order \in Orders(open)
  PROVE  /\ order \in Seq(Nat) /\ Len(order) = Len(open) /\ Elements(order) = Elements(open)
         /\ OnceInOrder(order)
<1>1. Len(open) \in Nat /\ DOMAIN open = 1 .. Len(open) /\ \A k \in 1 .. Len(open) : open[k] \in Nat
  BY LenProperties, ElementOfSeq
<1>2. PICK p \in {q \in [DOMAIN open -> DOMAIN open] : \A i, j \in DOMAIN open : q[i] = q[j] => i = j} :
        order = [k \in DOMAIN open |-> open[p[k]]]
  BY DEF Orders
<1>3. p \in [DOMAIN open -> DOMAIN open] /\ \A i, j \in DOMAIN open : p[i] = p[j] => i = j
  BY <1>2
<1>4. p \in Surjection(DOMAIN open, DOMAIN open)
  <2>1. p \in Injection(DOMAIN open, DOMAIN open)
    BY <1>3 DEF Injection, IsInjective
  <2>2. IsFiniteSet(DOMAIN open)
    BY <1>1, FS_Interval
  <2>3. QED
    BY <2>1, <2>2, FS_Injection
<1>5. \A k \in DOMAIN open : \E i \in DOMAIN open : p[i] = k
  BY <1>4 DEF Surjection
<1>6. \A k \in 1 .. Len(open) : p[k] \in 1 .. Len(open) /\ order[k] = open[p[k]]
  BY <1>1, <1>2, <1>3
<1>7. order \in Seq(Nat) /\ Len(order) = Len(open) /\ DOMAIN order = DOMAIN open
  <2>1. \A k \in 1 .. Len(open) : open[p[k]] \in Nat
    BY <1>1, <1>6
  <2>2. order = [k \in 1 .. Len(open) |-> open[p[k]]]
    BY <1>1, <1>2
  <2>3. QED
    BY <1>1, <2>1, <2>2
<1>8. Elements(order) = Elements(open)
  <2>1. \A x \in Elements(order) : x \in Elements(open)
    <3>1. TAKE x \in Elements(order)
    <3>2. PICK k \in DOMAIN order : x = order[k]
      BY DEF Elements
    <3>3. p[k] \in DOMAIN open /\ x = open[p[k]]
      BY <1>1, <1>6, <1>7, <3>2
    <3>4. QED
      BY <3>3 DEF Elements
  <2>2. \A x \in Elements(open) : x \in Elements(order)
    <3>1. TAKE x \in Elements(open)
    <3>2. PICK k \in DOMAIN open : x = open[k]
      BY DEF Elements
    <3>3. PICK i \in DOMAIN open : p[i] = k
      BY <1>5
    <3>4. i \in DOMAIN order /\ x = order[i]
      BY <1>1, <1>6, <1>7, <3>2, <3>3
    <3>5. QED
      BY <3>4 DEF Elements
  <2>3. QED
    BY <2>1, <2>2
<1>9. OnceInOrder(order)
  <2>1. SUFFICES ASSUME NEW i \in DOMAIN open, NEW j \in DOMAIN open, order[i] = order[j]
                 PROVE  i = j
    BY <1>7 DEF OnceInOrder
  <2>2. open[p[i]] = open[p[j]] /\ p[i] \in DOMAIN open /\ p[j] \in DOMAIN open
    BY <1>1, <1>6, <2>1
  <2>3. p[i] = p[j]
    BY <2>2 DEF OnceInOrder
  <2>4. QED
    BY <1>3, <2>3
<1>10. QED
  BY <1>7, <1>8, <1>9

LEMMA BoundIsNumber ==
  ASSUME talk \in Seq(Talks)
  PROVE  IdBound \in Nat /\ Turns \in Nat /\ \A n \in Nat : Fresh(n) = IdBound + n
<1>1. Len(talk) \in Nat /\ DOMAIN talk = 1 .. Len(talk)
  BY LenProperties
<1>2. IsFiniteSet({k \in DOMAIN talk : talk[k].role = "assistant"})
  <2>1. IsFiniteSet(DOMAIN talk)
    BY <1>1, FS_Interval
  <2>2. {k \in DOMAIN talk : talk[k].role = "assistant"} \subseteq DOMAIN talk
    OBVIOUS
  <2>3. QED
    BY <2>1, <2>2, FS_Subset
<1>3. Turns \in Nat
  BY <1>2, FS_CardinalityType DEF Turns
<1> HIDE DEF Turns
<1>4. IdBound \in Nat
  BY <1>3, BridgeAssumption DEF IdBound
<1>5. QED
  BY <1>3, <1>4 DEF Fresh, IdBound

LEMMA RepliesNumbered ==
  ASSUME talk \in Seq(Talks), NEW reply \in AgentReplies \cup CodexReplies
  PROVE  NumberedCalls(reply.content)
<1>1. ASSUME NEW r \in AgentReplies
      PROVE  NumberedCalls(r.content)
  <2>1. PICK s \in UNION {[1 .. n -> Parts] : n \in 0 .. MaxBlocks}, stop \in {"end_turn", "max_tokens"} :
          r = [content |-> [k \in DOMAIN s |-> Part(s[k], k)], stop |-> stop]
    BY DEF AgentReplies
  <2>2. PICK n \in 0 .. MaxBlocks : s \in [1 .. n -> Parts]
    BY <2>1
  <2>3. n \in Nat /\ n <= MaxBlocks
    BY <2>2, BridgeAssumption
  <2>4. r \in Replies
    BY RepliesType
  <2>5. r.content \in Seq(Blocks) /\ r.content = [k \in 1 .. n |-> Part(s[k], k)]
    BY <2>1, <2>2, <2>4 DEF Replies
  <2>6. Len(r.content) = n
    BY <2>3, <2>5
  <2>7. \A k \in 1 .. n : r.content[k].type = "tool_use" => r.content[k].id = IdBound + k
    <3>1. SUFFICES ASSUME NEW k \in 1 .. n, r.content[k].type = "tool_use"
                   PROVE  r.content[k].id = IdBound + k
      OBVIOUS
    <3>2. r.content[k] = Part(s[k], k)
      BY <2>5
    <3>3. k \in Nat
      BY <2>3
    <3>4. Part(s[k], k) = Use(Fresh(k))
      BY <3>1, <3>2 DEF Part, Text, Thinking
    <3>5. Use(Fresh(k)).id = Fresh(k)
      BY DEF Use
    <3>6. Fresh(k) = IdBound + k
      BY <3>3, BoundIsNumber
    <3>7. QED
      BY <3>2, <3>4, <3>5, <3>6
  <2>8. QED
    BY <2>3, <2>5, <2>6, <2>7 DEF NumberedCalls
<1>2. ASSUME NEW r \in AgentReplies
      PROVE  NumberedCalls(CutOff(r).content)
  <2> DEFINE c == r.content
             n == Len(c)
             cut == [c EXCEPT ![n] = [c[n] EXCEPT !.type = "cut"]]
  <2>1. r \in Replies /\ NumberedCalls(c) /\ c \in Seq(Blocks) /\ n \in Nat
    <3>1. r \in Replies /\ NumberedCalls(c)
      BY <1>1, RepliesType
    <3>2. QED
      BY <3>1, LenProperties DEF NumberedCalls
  <2>2. CASE n > 0 /\ r.stop = "max_tokens" /\ c[n].type = "tool_use"
    <3>1. CutOff(r) = [r EXCEPT !.content = cut]
      BY <2>2 DEF CutOff
    <3>2. n \in 1 .. n /\ c[n] \in Blocks
      BY <2>1, <2>2, ElementOfSeq
    <3>3. [c[n] EXCEPT !.type = "cut"] \in Blocks /\ [c[n] EXCEPT !.type = "cut"].type = "cut"
      BY <3>2 DEF Blocks, Kinds
    <3> DEFINE x == [c[n] EXCEPT !.type = "cut"]
    <3> HIDE DEF x
    <3>4. cut = [c EXCEPT ![n] = x]
      BY DEF x
    <3>5. /\ cut \in Seq(Blocks) /\ Len(cut) = n
          /\ \A k \in 1 .. n : cut[k] = IF k = n THEN x ELSE c[k]
      <4>1. x \in Blocks
        BY <3>3 DEF x
      <4> HIDE DEF cut
      <4>2. QED
        BY <2>1, <3>2, <3>4, <4>1, ExceptSeq
    <3>6. CutOff(r).content = cut
      <4> HIDE DEF cut
      <4>1. QED
        BY <2>1, <3>1 DEF Replies
    <3> HIDE DEF cut
    <3>7. \A k \in 1 .. n : cut[k].type = "tool_use" => cut[k].id = IdBound + k
      <4>1. SUFFICES ASSUME NEW k \in 1 .. n, cut[k].type = "tool_use"
                     PROVE  cut[k].id = IdBound + k
        OBVIOUS
      <4>2. k # n
        BY <3>3, <3>5, <4>1 DEF x
      <4>3. cut[k] = c[k]
        BY <3>5, <4>2
      <4>4. QED
        BY <2>1, <4>1, <4>3 DEF NumberedCalls
    <3>8. QED
      BY <2>1, <3>5, <3>6, <3>7 DEF NumberedCalls
  <2>3. CASE ~ (n > 0 /\ r.stop = "max_tokens" /\ c[n].type = "tool_use")
    BY <2>1, <2>3 DEF CutOff
  <2>4. QED
    BY <2>2, <2>3
<1>3. \A r \in AgentReplies, failed \in BOOLEAN : [r EXCEPT !.stop = IF failed THEN "failed" ELSE @].content = r.content
  <2>1. TAKE r \in AgentReplies, failed \in BOOLEAN
  <2>2. r \in Replies
    BY RepliesType
  <2>3. QED
    BY <2>2 DEF Replies
<1>4. CASE reply \in AgentReplies
  BY <1>1, <1>4
<1>5. CASE reply \in CodexReplies
  <2>1. (\E r \in AgentReplies, failed \in BOOLEAN : reply = [r EXCEPT !.stop = IF failed THEN "failed" ELSE @])
        \/ \E r \in AgentReplies : reply = CutOff(r)
    BY <1>5 DEF CodexReplies
  <2>2. CASE \E r \in AgentReplies : reply = CutOff(r)
    BY <1>2, <2>2
  <2>3. ASSUME NEW r \in AgentReplies, NEW failed \in BOOLEAN, reply = [r EXCEPT !.stop = IF failed THEN "failed" ELSE @]
        PROVE  NumberedCalls(reply.content)
    <3>1. reply.content = r.content
      BY <1>3, <2>3
    <3>2. QED
      BY <1>1, <3>1
  <2>4. QED
    BY <2>1, <2>2, <2>3
<1>6. QED
  BY <1>4, <1>5

LEMMA NumberedIds ==
  ASSUME talk \in Seq(Talks), NEW m, NumberedCalls(m.content)
  PROVE  NewIds(CallsOf(m), IdBound)
<1> DEFINE c == m.content
           I == {k \in DOMAIN c : c[k].type = "tool_use"}
           p == Picked(c, I)
           ids == CallsOf(m)
<1>1. c \in Seq(Blocks) /\ Len(c) \in Nat /\ DOMAIN c = 1 .. Len(c) /\ Len(c) <= MaxBlocks
  BY LenProperties DEF NumberedCalls
<1>2. OfType(c, "tool_use") = p
  BY DEF OfType, Those, Picked
<1>3. \A k \in I : c[k].id = IdBound + k
  BY <1>1 DEF NumberedCalls
<1>4. IdBound \in Nat /\ MaxBlocks \in Nat
  BY BoundIsNumber, BridgeAssumption
<1>5. p \in Seq(Blocks) /\ \E h : PicksBy(p, h, c, I, Len(c))
  <2> HIDE DEF c, I, p
  <2>1. c \in Seq(Blocks)
    BY <1>1
  <2>2. QED
    BY <2>1, PickedFacts DEF p
<1>6. PICK h : PicksBy(p, h, c, I, Len(c))
  BY <1>5
<1>7. ids = [k \in DOMAIN p |-> p[k].id]
  BY <1>2 DEF CallsOf, IdsOf
<1> HIDE DEF c, I, p, ids
<1>8. Len(p) \in Nat /\ DOMAIN p = 1 .. Len(p)
  BY <1>5, LenProperties
<1>9. /\ h \in [1 .. Len(p) -> 1 .. Len(c)] /\ \A j \in 1 .. Len(p) : h[j] \in I /\ p[j] = c[h[j]]
      /\ \A i, j \in 1 .. Len(p) : i < j => h[i] < h[j]
  BY <1>6 DEF PicksBy
<1>10. \A j \in 1 .. Len(p) : ids[j] = IdBound + h[j] /\ h[j] \in 1 .. Len(c)
  <2>1. TAKE j \in 1 .. Len(p)
  <2>2. ids[j] = c[h[j]].id
    BY <1>7, <1>8, <1>9
  <2>3. QED
    BY <1>3, <1>9, <2>2
<1>11. DOMAIN ids = 1 .. Len(p)
  BY <1>7, <1>8
<1>12. OnceInOrder(ids)
  <2>1. SUFFICES ASSUME NEW i \in 1 .. Len(p), NEW j \in 1 .. Len(p), ids[i] = ids[j]
                 PROVE  i = j
    BY <1>11 DEF OnceInOrder
  <2>2. h[i] = h[j] /\ h[i] \in Nat /\ h[j] \in Nat
    <3>1. h[i] \in 1 .. Len(c) /\ h[j] \in 1 .. Len(c) /\ IdBound + h[i] = IdBound + h[j]
      BY <1>10, <2>1
    <3>2. QED
      BY <1>1, <1>4, <3>1
  <2>3. ~ (i < j) /\ ~ (j < i)
    BY <1>9, <2>2
  <2>4. i \in Nat /\ j \in Nat
    BY <1>8
  <2>5. QED
    BY <2>3, <2>4
<1>13. \A k \in DOMAIN ids : IdBound < ids[k] /\ ids[k] <= IdBound + MaxBlocks
  <2>1. TAKE k \in DOMAIN ids
  <2>2. ids[k] = IdBound + h[k] /\ h[k] \in 1 .. Len(c)
    BY <1>10, <1>11
  <2>3. QED
    BY <1>1, <1>4, <2>2
<1>14. QED
  BY <1>12, <1>13 DEF NewIds, ids

LEMMA AnswersAreNew ==
  ASSUME talk \in Seq(Talks), NEW pair \in Answered, Accepted(pair[2])
  PROVE  ToReply(pair[2]) \in Backs /\ NewAnswer(ToReply(pair[2]).content, IdBound)
<1>1. PICK reply \in AgentReplies \cup CodexReplies : pair = <<reply, ToCompletion(reply)>> \/ pair = <<reply, FromCodex(reply)>>
  BY DEF Answered
<1>2. reply \in Replies /\ Telling(pair[2], reply)
  <2>1. reply \in Replies
    BY RepliesType
  <2>2. QED
    BY <1>1, <2>1, CompletionTells
<1> DEFINE completion == pair[2]
           t == completion.text
           calls == completion.calls
           blocks == Speech(t) \o Uses(calls)
<1>3. t = TextOf(reply) /\ calls = CallsOf(reply)
  BY <1>2 DEF Telling
<1>4. calls \in Seq(Nat) /\ t \in Phrases
  BY <1>2, <1>3, CallsAndText DEF Replies
<1>5. ToReply(completion) \in Backs
  BY <1>2, ReplyTells
<1>6. t # <<>> \/ calls # <<>>
  BY DEF Accepted
<1>7. ToReply(completion).content = IF blocks = <<>> THEN <<Text(<<>>)>> ELSE blocks
  BY DEF ToReply, Speech, Uses
<1>8. NewIds(calls, IdBound)
  <2>1. NumberedCalls(reply.content)
    BY RepliesNumbered
  <2>2. QED
    BY <1>3, <2>1, NumberedIds
<1> HIDE DEF completion, t, calls
<1>9. blocks # <<>>
  <2>1. Speech(t) \in Seq(Blocks) /\ Uses(calls) \in Seq(Blocks) /\ Len(Uses(calls)) = Len(calls)
    BY <1>4, TalkPieces, UsesFacts
  <2>2. blocks = <<>> => Speech(t) = <<>> /\ Uses(calls) = <<>>
    BY <2>1, ConcatEqualIffEmpty
  <2>3. Uses(calls) = <<>> => calls = <<>>
    <3>1. Uses(calls) = <<>> => Len(calls) = 0
      BY <2>1
    <3>2. QED
      BY <1>4, <3>1, EmptySeq
  <2>4. Speech(t) = <<>> => t = <<>>
    BY <1>4, SpeechFacts
  <2>5. QED
    BY <1>6, <2>2, <2>3, <2>4
<1>10. ToReply(completion).content = blocks
  BY <1>7, <1>9
<1>11. NewAnswer(blocks, IdBound)
  BY <1>4, <1>6, <1>8 DEF NewAnswer
<1>12. QED
  BY <1>5, <1>10, <1>11 DEF completion

-----------------------------------------------------------------------------
\* A conversation that is paired in every format, but for the calls that are open.
TalkPairs(talked, open, bound) ==
  /\ talked \in Seq(Talks) /\ Readable(talked)
  /\ open \in Seq(Nat) /\ OnceInOrder(open)
  /\ OpenAIPairs(FromAnthropic(talked), open)
  /\ \E s : Sent(FromAnthropic(talked), s) /\ Posted(s, open)
  /\ ItemPairs(ToCodex(FromAnthropic(talked)), Elements(open), bound)

LEMMA NoneOpen == Elements(<<>>) = {} /\ OnceInOrder(<<>>) /\ <<>> \in Seq(Nat)
BY EmptySeq DEF Elements, OnceInOrder

\* The agent tells what came of the calls, and says what else it has to.
LEMMA QuestionPairs ==
  ASSUME NEW talked, NEW open, NEW bound \in Nat, TalkPairs(talked, open, bound),
         NEW order \in Orders(open), NEW remark \in Remarks
  PROVE  TalkPairs(Append(talked, Msg("user", Outcomes(order) \o remark)), <<>>, bound)
<1> DEFINE m == Msg("user", Outcomes(order) \o remark)
           F == FromAnthropic(talked)
           G == F \o ToolMsgs(order)
           more == Append(talked, m)
<1>1. talked \in Seq(Talks) /\ Readable(talked) /\ open \in Seq(Nat) /\ OnceInOrder(open)
  BY DEF TalkPairs
<1>2. order \in Seq(Nat) /\ Len(order) = Len(open) /\ Elements(order) = Elements(open) /\ OnceInOrder(order)
  BY <1>1, OrdersFacts
<1>3. m \in Talks
  <2>1. Outcomes(order) \in Seq(Blocks) /\ remark \in Seq(Blocks)
    BY <1>2, OutcomesFacts, TalkPieces
  <2>2. Outcomes(order) \o remark \in Seq(Blocks)
    BY <2>1, ConcatProperties
  <2>3. QED
    BY <2>2 DEF Msg, Talks
<1>4. FromMessage(m) = ToolMsgs(order) \o Voiced(remark)
  BY <1>2, QuestionRead
<1>5. ToolMsgs(order) \in Seq(OpenMsgs) /\ Voiced(remark) \in Seq(OpenMsgs)
  BY <1>2, ToolMsgsFacts, TalkPieces
<1> HIDE DEF m
<1>6. FromMessage(m) \in Seq(OpenMsgs)
  BY <1>4, <1>5, ConcatProperties
<1>7. /\ F \in Seq(OpenMsgs) /\ Readable(more) /\ FromAnthropic(more) = F \o FromMessage(m)
      /\ more \in Seq(Talks)
  <2>1. F \in Seq(OpenMsgs) /\ Readable(more) /\ FromAnthropic(more) = F \o FromMessage(m)
    BY <1>1, <1>3, <1>6, TalkGrows
  <2>2. QED
    BY <1>1, <1>3, <2>1, AppendProperties
<1> HIDE DEF F, more
<1>8. FromAnthropic(more) = G \o Voiced(remark) /\ G \in Seq(OpenMsgs)
  <2> DEFINE tools == ToolMsgs(order)
             voice == Voiced(remark)
  <2>1. F \in Seq(OpenMsgs) /\ tools \in Seq(OpenMsgs) /\ voice \in Seq(OpenMsgs)
    BY <1>5, <1>7
  <2>2. FromAnthropic(more) = F \o (tools \o voice)
    BY <1>4, <1>7
  <2> HIDE DEF tools, voice
  <2>3. (F \o tools) \o voice = F \o (tools \o voice) /\ F \o tools \in Seq(OpenMsgs)
    BY <2>1, ConcatAssociative, ConcatProperties
  <2>4. QED
    BY <2>2, <2>3 DEF tools, voice
<1>9. OpenAIPairs(G, <<>>)
  <2>1. OpenAIPairs(F, open)
    BY DEF TalkPairs, F
  <2>2. QED
    BY <1>1, <1>2, <1>7, <2>1, ResultsPaired
<1>10. \E s : Sent(G, s) /\ Posted(s, <<>>)
  <2>1. PICK s : Sent(F, s) /\ Posted(s, open)
    BY DEF TalkPairs, F
  <2>2. s \in Posts
    BY <2>1 DEF Posted
  <2> DEFINE r == Post(s.pending \o Outcomes(order), s.messages)
  <2>3. Sent(G, r)
    BY <1>2, <1>7, <2>1, <2>2, ResultsSent
  <2>4. Posted(r, <<>>)
    BY <1>1, <1>2, <2>1, ResultsPosted
  <2>5. QED
    BY <2>3, <2>4
<1>11. ItemPairs(ToCodex(G), {}, bound) /\ ToCodex(G) \in Seq(Blocks)
  <2>1. ToolMsg(0) \in OpenMsgs
    BY TalkPieces
  <2>2. ToCodex(F) \in Seq(Blocks) /\ ToCodex(G) \in Seq(Blocks)
    BY <1>7, <1>8, <2>1, ItemsGrow
  <2>3. ItemPairs(ToCodex(F), Elements(order), bound)
    BY <1>2 DEF TalkPairs, F
  <2>4. \A i, j \in DOMAIN order : order[i] = order[j] => i = j
    BY <1>2 DEF OnceInOrder
  <2>5. ItemPairs(ToCodex(F) \o Outcomes(order), {}, bound)
    BY <1>2, <2>2, <2>3, <2>4, ItemsAnswered
  <2>6. ToCodex(G) = ToCodex(F) \o Outcomes(order)
    BY <1>2, <1>7, ResultsItems
  <2>7. QED
    BY <2>2, <2>5, <2>6
<1> HIDE DEF G
<1>12. CASE remark \notin Audible
  <2>1. Voiced(remark) = <<>>
    BY <1>12 DEF Voiced
  <2>2. FromAnthropic(more) = G
    BY <1>8, <2>1, ConcatEmptySeq
  <2>3. QED
    BY <1>7, <1>9, <1>10, <1>11, <2>2, NoneOpen DEF TalkPairs, more, m
<1>13. CASE remark \in Audible
  <2> DEFINE u == Msg("user", remark)
  <2>1. u \in OpenMsgs /\ remark \in Seq(Blocks) /\ \A k \in DOMAIN remark : remark[k].type \notin {"tool_use", "tool_result"}
    BY <1>13, AudibleFacts
  <2>2. u.role = "user" /\ u.calls = <<>> /\ u.content = remark
    BY DEF Msg
  <2>3. ToItems(u) = remark
    BY <1>13, ItemsOf
  <2>4. PICK s : Sent(G, s) /\ Posted(s, <<>>)
    BY <1>10
  <2> DEFINE r == Post(<<>>, Append(AllFlushed(s), u))
  <2>5. ToMessage(s, u) = r
    <3>1. s \in Posts
      BY <2>4 DEF Posted
    <3>2. QED
      BY <1>13, <3>1, MessagesPost
  <2>6. Voiced(remark) = <<u>>
    BY <1>13 DEF Voiced
  <2> HIDE DEF u
  <2>7. FromAnthropic(more) = Append(G, u)
    BY <1>8, <2>1, <2>6, AppendIsConcat
  <2>8. OpenAIPairs(Append(G, u), <<>>)
    <3>1. u.role # "tool"
      BY <2>2
    <3>2. OpenAIPairs(Append(G, u), u.calls)
      BY <1>8, <1>9, <2>1, <3>1, OneMorePaired
    <3>3. QED
      BY <2>2, <3>2
  <2>9. Sent(Append(G, u), r) /\ Posted(r, <<>>)
    <3>1. Sent(Append(G, u), ToMessage(s, u))
      BY <1>8, <2>1, <2>4, OneMoreSent
    <3>2. Used(u) = Elements(<<>>)
      BY <2>1, <2>2, NoneOf, NoneOpen DEF Used
    <3>3. Posted(r, <<>>)
      BY <2>1, <2>4, <3>2, OneMorePosted
    <3>4. QED
      BY <2>5, <3>1, <3>3
  <2> HIDE DEF r
  <2>10. ItemPairs(ToCodex(Append(G, u)), {}, bound)
    <3>1. ToCodex(Append(G, u)) = ToCodex(G) \o remark
      BY <1>8, <2>1, <2>3, ItemsGrow
    <3>2. At(remark, "tool_use") = {} /\ At(remark, "tool_result") = {}
      <4>1. DOMAIN remark = 1 .. Len(remark)
        BY <2>1, LenProperties
      <4>2. QED
        BY <2>1, <4>1 DEF At
    <3>3. bound <= bound
      OBVIOUS
    <3>4. ItemPairs(ToCodex(G) \o remark, {remark[k].id : k \in At(remark, "tool_use")}, bound)
      BY <1>11, <2>1, <3>2, <3>3, ItemsAsked
    <3>5. {remark[k].id : k \in At(remark, "tool_use")} = {}
      BY <3>2
    <3>6. QED
      BY <3>1, <3>4, <3>5
  <2>11. QED
    BY <1>7, <2>7, <2>8, <2>9, <2>10, NoneOpen DEF TalkPairs, more, m
<1>14. QED
  BY <1>12, <1>13

\* What the answer is as items.
LEMMA AnswerItems ==
  ASSUME NEW t \in Phrases, NEW calls \in Seq(Nat), NEW bound \in Nat, NewIds(calls, bound)
  PROVE  LET R == Speech(t) \o Uses(calls)
         IN /\ R \in Seq(Blocks) /\ At(R, "tool_result") = {}
            /\ \A i, j \in At(R, "tool_use") : R[i].id = R[j].id => i = j
            /\ \A k \in At(R, "tool_use") : R[k].id \in Nat /\ bound <= R[k].id /\ R[k].id < bound + MaxBlocks + 1
            /\ {R[k].id : k \in At(R, "tool_use")} = Elements(calls)
<1> DEFINE p == Speech(t)
           q == Uses(calls)
           R == p \o q
           n == Len(p)
           d == Len(calls)
<1>1. p \in Seq(OfKind("text")) /\ p \in Seq(Blocks) /\ q \in Seq(Blocks) /\ Len(q) = d /\ n \in Nat /\ d \in Nat
      /\ \A k \in 1 .. d : q[k] = Use(calls[k])
  BY TalkPieces, UsesFacts, LenProperties
<1>2. \A k \in 1 .. n : p[k].type = "text"
  <2>1. \A k \in 1 .. n : p[k] \in OfKind("text")
    BY <1>1, ElementOfSeq
  <2>2. QED
    BY <2>1 DEF OfKind
<1>3. \A i : Use(i).type = "tool_use" /\ Use(i).id = i
  BY DEF Use
<1>4. DOMAIN calls = 1 .. d /\ \A k \in 1 .. d : calls[k] \in Nat
  BY LenProperties, ElementOfSeq
<1> HIDE DEF p, q
<1>5. /\ R \in Seq(Blocks)
      /\ \A k \in 1 .. Len(q) : n + k \in 1 .. Len(R) /\ R[n + k] = q[k]
      /\ \A k \in 1 .. Len(R) : \/ k \in 1 .. n /\ R[k] = p[k]
                                \/ k - n \in 1 .. Len(q) /\ R[k] = q[k - n] /\ k = n + (k - n)
  <2>1. p \in Seq(Blocks) /\ q \in Seq(Blocks)
    BY <1>1
  <2>2. QED
    BY <2>1, LinesJoin
<1> HIDE DEF R, n, d
<1>6. \A k \in 1 .. Len(R) : \/ k \in 1 .. n /\ R[k].type = "text"
                             \/ k - n \in 1 .. d /\ R[k].type = "tool_use" /\ R[k].id = calls[k - n] /\ k = n + (k - n)
  <2>1. TAKE k \in 1 .. Len(R)
  <2>2. CASE k \in 1 .. n /\ R[k] = p[k]
    BY <1>2, <2>2
  <2>3. CASE k - n \in 1 .. Len(q) /\ R[k] = q[k - n] /\ k = n + (k - n)
    <3>1. k - n \in 1 .. d /\ R[k] = Use(calls[k - n])
      BY <1>1, <2>3
    <3>2. QED
      BY <1>3, <2>3, <3>1
  <2>4. QED
    BY <1>5, <2>2, <2>3
<1>7. \A k \in At(R, "tool_use") : k - n \in 1 .. d /\ R[k].id = calls[k - n] /\ k = n + (k - n)
  BY <1>6 DEF At
<1>8. \A k \in 1 .. d : n + k \in At(R, "tool_use") /\ R[n + k].id = calls[k]
  <2>1. TAKE k \in 1 .. d
  <2>2. k \in 1 .. Len(q)
    BY <1>1
  <2>3. n + k \in 1 .. Len(R) /\ R[n + k] = q[k] /\ q[k] = Use(calls[k])
    BY <1>1, <1>5, <2>2
  <2>4. QED
    BY <1>3, <2>3 DEF At
<1>9. At(R, "tool_result") = {}
  BY <1>6 DEF At
<1>10. ASSUME NEW i \in At(R, "tool_use"), NEW j \in At(R, "tool_use"), R[i].id = R[j].id
       PROVE  i = j
  <2>1. i - n = j - n
    BY <1>4, <1>7, <1>10 DEF NewIds, OnceInOrder
  <2>2. QED
    BY <1>7, <2>1
<1>11. \A k \in At(R, "tool_use") : R[k].id \in Nat /\ bound <= R[k].id /\ R[k].id < bound + MaxBlocks + 1
  <2>1. TAKE k \in At(R, "tool_use")
  <2>2. calls[k - n] \in Nat /\ bound < calls[k - n] /\ calls[k - n] <= bound + MaxBlocks /\ R[k].id = calls[k - n]
    BY <1>4, <1>7 DEF NewIds
  <2>3. QED
    BY <2>2, BridgeAssumption
<1> DEFINE S == {R[k].id : k \in At(R, "tool_use")}
<1>12. S = Elements(calls)
  <2>1. \A k \in At(R, "tool_use") : R[k].id \in Elements(calls)
    BY <1>4, <1>7 DEF Elements
  <2>2. \A x \in S : x \in Elements(calls)
    BY <2>1
  <2>3. \A k \in 1 .. d : calls[k] \in S
    <3>1. TAKE k \in 1 .. d
    <3>2. n + k \in At(R, "tool_use") /\ R[n + k].id = calls[k]
      BY <1>8
    <3>3. QED
      BY <3>2
  <2> HIDE DEF S
  <2>4. \A x \in Elements(calls) : x \in S
    BY <1>4, <2>3 DEF Elements
  <2>5. QED
    BY <2>2, <2>4
<1>13. QED
  BY <1>5, <1>9, <1>10, <1>11, <1>12 DEF R, p, q

\* The agent keeps what the model said.
LEMMA AnswerPairs ==
  ASSUME NEW talked, NEW bound \in Nat, TalkPairs(talked, <<>>, bound), NEW t \in Phrases, NEW calls \in Seq(Nat),
         t # <<>> \/ calls # <<>>, NewIds(calls, bound)
  PROVE  TalkPairs(Append(talked, Msg("assistant", Speech(t) \o Uses(calls))), calls, bound + MaxBlocks + 1)
<1> DEFINE R == Speech(t) \o Uses(calls)
           m == Msg("assistant", R)
           u == AgentMsg(t, calls)
           F == FromAnthropic(talked)
           more == Append(talked, m)
           later == bound + MaxBlocks + 1
<1>1. talked \in Seq(Talks) /\ Readable(talked)
  BY DEF TalkPairs
<1>2. /\ R \in Seq(Blocks) /\ At(R, "tool_result") = {}
      /\ \A i, j \in At(R, "tool_use") : R[i].id = R[j].id => i = j
      /\ \A k \in At(R, "tool_use") : R[k].id \in Nat /\ bound <= R[k].id /\ R[k].id < later
      /\ {R[k].id : k \in At(R, "tool_use")} = Elements(calls)
  BY AnswerItems
<1>3. FromMessage(m) = <<u>>
  BY AnswerRead
<1>4. u \in OpenMsgs /\ u.role = "assistant" /\ u.calls = calls
  <2>1. u \in OpenMsgs
    BY TalkPieces
  <2>2. QED
    BY <2>1 DEF AgentMsg, Msg
<1>5. ToItems(u) = R
  BY ItemsOf
<1>6. PICK s : Sent(F, s) /\ Posted(s, <<>>)
  BY DEF TalkPairs
<1> DEFINE r == Post(<<>>, Append(AllFlushed(s), m))
<1>7. ToMessage(s, u) = r
  <2>1. s \in Posts
    BY <1>6 DEF Posted
  <2>2. QED
    BY <2>1, MessagesPost
<1>8. OpenAIPairs(F, <<>>) /\ ItemPairs(ToCodex(F), {}, bound)
  BY NoneOpen DEF TalkPairs
<1>9. Used(m) = Elements(calls)
  <2>1. Speech(t) \in Seq(OfKind("text")) /\ Uses(calls) \in Seq(OfKind("tool_use")) /\ Len(Speech(t)) \in {0, 1}
    BY TalkPieces, UsesFacts, SpeechFacts
  <2>2. m.content = Speech(t) \o Uses(calls)
    BY DEF Msg
  <2> HIDE DEF m
  <2>3. CallsOf(m) = IdsOf(Uses(calls))
    BY <2>1, <2>2, TextThenCalls
  <2>4. IdsOf(Uses(calls)) = calls
    BY UsesOf DEF Uses
  <2>5. QED
    BY <2>3, <2>4 DEF Used, CallsOf
<1>10. m \in Talks /\ m \in OpenMsgs
  <2>1. R \in Seq(Blocks) /\ <<>> \in Seq(Nat) /\ NoCall \in Nat
    BY <1>2, EmptySeq DEF NoCall
  <2> HIDE DEF R
  <2>2. QED
    BY <2>1 DEF Msg, Talks, OpenMsgs
<1> HIDE DEF R, m, u
<1>11. <<u>> \in Seq(OpenMsgs)
  BY <1>4
<1>12. /\ F \in Seq(OpenMsgs) /\ Readable(more) /\ FromAnthropic(more) = F \o <<u>> /\ more \in Seq(Talks)
  <2>1. FromMessage(m) \in Seq(OpenMsgs)
    BY <1>3, <1>11
  <2>2. F \in Seq(OpenMsgs) /\ Readable(more) /\ FromAnthropic(more) = F \o FromMessage(m)
    BY <1>1, <1>10, <2>1, TalkGrows
  <2>3. QED
    BY <1>1, <1>3, <1>10, <2>2, AppendProperties
<1> HIDE DEF F, more
<1>13. FromAnthropic(more) = Append(F, u)
  BY <1>4, <1>12, AppendIsConcat
<1>14. OpenAIPairs(Append(F, u), calls)
  <2>1. u.role # "tool"
    BY <1>4
  <2>2. OpenAIPairs(Append(F, u), u.calls)
    BY <1>4, <1>8, <1>12, <2>1, OneMorePaired
  <2>3. QED
    BY <1>4, <2>2
<1>15. Sent(Append(F, u), r) /\ Posted(r, calls)
  <2>1. Sent(Append(F, u), ToMessage(s, u))
    BY <1>4, <1>6, <1>12, OneMoreSent
  <2>2. Posted(r, calls)
    BY <1>6, <1>9, <1>10, OneMorePosted
  <2>3. QED
    BY <1>7, <2>1, <2>2
<1>16. ItemPairs(ToCodex(Append(F, u)), Elements(calls), later)
  <2>1. ToCodex(F) \in Seq(Blocks) /\ ToCodex(Append(F, u)) = ToCodex(F) \o R
    BY <1>4, <1>5, <1>12, ItemsGrow
  <2>2. later \in Nat /\ bound <= later
    BY BridgeAssumption
  <2> HIDE DEF later
  <2>3. ItemPairs(ToCodex(F) \o R, {R[k].id : k \in At(R, "tool_use")}, later)
    BY <1>2, <1>8, <2>1, <2>2, ItemsAsked
  <2>4. QED
    BY <1>2, <2>1, <2>3
<1>17. OnceInOrder(calls)
  BY DEF NewIds
<1> HIDE DEF r
<1>18. QED
  BY <1>12, <1>13, <1>14, <1>15, <1>16, <1>17 DEF TalkPairs, more, m, R

-----------------------------------------------------------------------------
\* Between questions the calls of the last answer are open; else none is, and what is on
\* its way to the agent is an answer with new ids.
WireInv ==
  /\ TalkPairs(talk, OpenCalls, IdBound)
  /\ stage \in {"compose", "asked", "events", "over"}
  /\ stage # "compose" => OpenCalls = <<>>
  /\ stage = "events" => \E back \in Backs : Hearing(back, heard, events) /\ NewAnswer(back.content, IdBound)
  /\ stage = "over" => heard \in Backs /\ NewAnswer(heard.content, IdBound)

LEMMA WireBegins == BridgeInit => WireInv
<1>1. SUFFICES ASSUME BridgeInit
               PROVE  WireInv
  OBVIOUS
<1>2. talk = <<>> /\ stage = "compose" /\ OpenCalls = <<>>
  BY <1>1 DEF BridgeInit, OpenCalls
<1>3. FlattenSeq(<<>>) = <<>>
  <2>1. <<>> \in Seq(Seq(Nat)) /\ <<>> \in Seq(Nat)
    BY EmptySeq
  <2>2. QED
    BY <2>1, FlattenAppend
<1>4. FromAnthropic(<<>>) = <<>> /\ ToCodex(<<>>) = <<>>
  <2>1. [k \in DOMAIN <<>> |-> FromMessage(<<>>[k])] = <<>> /\ [k \in DOMAIN <<>> |-> ToItems(<<>>[k])] = <<>>
    OBVIOUS
  <2>2. QED
    BY <1>3, <2>1 DEF FromAnthropic, ToCodex
<1>5. <<>> \in Seq(Talks) /\ Readable(<<>>) /\ Len(<<>>) = 0
  BY EmptySeq DEF Readable
<1>6. OpenAIPairs(<<>>, <<>>)
  BY <1>5 DEF OpenAIPairs
<1>7. Posted(NoMessages, <<>>)
  <2>1. NoMessages \in Posts
    <3>1. <<>> \in Seq(OfKind("tool_result")) /\ <<>> \in Seq(OpenMsgs)
      BY EmptySeq
    <3>2. QED
      BY <3>1 DEF NoMessages, Posts
  <2>2. AllFlushed(NoMessages) = <<>>
    BY DEF AllFlushed, ResultsFlushed, NoMessages
  <2>3. MessagePairs(<<>>, <<>>)
    BY <1>5 DEF MessagePairs
  <2>4. QED
    BY <2>1, <2>2, <2>3 DEF Posted
<1>8. ItemPairs(<<>>, {}, IdBound)
  <2>1. At(<<>>, "tool_use") = {} /\ At(<<>>, "tool_result") = {}
    BY <1>5 DEF At
  <2>2. QED
    BY <2>1 DEF ItemPairs
<1>9. TalkPairs(talk, OpenCalls, IdBound)
  BY <1>2, <1>4, <1>5, <1>6, <1>7, <1>8, NothingSent, NoneOpen DEF TalkPairs
<1>10. QED
  BY <1>2, <1>9 DEF WireInv

\* What the agent has to answer is what the last message calls.
LEMMA LastCalls ==
  ASSUME NEW m \in Talks, talk \in Seq(Talks), talk' = Append(talk, m)
  PROVE  /\ OpenCalls' = CallsOf(m)
         /\ Turns' = IF m.role = "assistant" THEN Turns + 1 ELSE Turns
<1> DEFINE n == Len(talk)
           asked == {k \in DOMAIN talk : talk[k].role = "assistant"}
           now == {k \in DOMAIN talk' : talk'[k].role = "assistant"}
<1>1. /\ n \in Nat /\ DOMAIN talk = 1 .. n /\ Len(talk') = n + 1 /\ DOMAIN talk' = 1 .. n + 1
      /\ talk'[n + 1] = m /\ \A k \in 1 .. n : talk'[k] = talk[k]
  BY AppendProperties, LenProperties
<1>2. talk' # <<>>
  BY <1>1
<1>3. OpenCalls' = CallsOf(m)
  BY <1>1, <1>2 DEF OpenCalls, CallsOf
<1>4. IsFiniteSet(asked)
  <2>1. IsFiniteSet(1 .. n) /\ asked \subseteq 1 .. n
    BY <1>1, FS_Interval
  <2>2. QED
    BY <2>1, FS_Subset
<1>5. Turns = Cardinality(asked) /\ Turns' = Cardinality(now)
  BY DEF Turns
<1>6. n + 1 \notin asked
  BY <1>1
<1>7. CASE m.role = "assistant"
  <2>1. now = asked \cup {n + 1}
    <3>1. \A k \in now : k \in asked \/ k = n + 1
      BY <1>1
    <3>2. n + 1 \in now /\ \A k \in asked : k \in now
      BY <1>1, <1>7
    <3> HIDE DEF now, asked
    <3>3. QED
      BY <3>1, <3>2
  <2> HIDE DEF now, asked, n
  <2>2. Cardinality(asked \cup {n + 1}) = Cardinality(asked) + 1
    BY <1>4, <1>6, FS_AddElement
  <2>3. QED
    BY <1>3, <1>5, <1>7, <2>1, <2>2
<1>8. CASE m.role # "assistant"
  <2>1. now = asked
    <3>1. \A k \in now : k \in asked
      BY <1>1, <1>8
    <3>2. \A k \in asked : k \in now
      BY <1>1
    <3> HIDE DEF now, asked
    <3>3. QED
      BY <3>1, <3>2
  <2> HIDE DEF now, asked
  <2>2. QED
    BY <1>3, <1>5, <1>8, <2>1
<1>9. QED
  BY <1>7, <1>8

LEMMA AskedPairs ==
  ASSUME WireInv, Compose
  PROVE  WireInv'
<1>1. PICK order \in Orders(OpenCalls), remark \in Remarks :
        talk' = Append(talk, Msg("user", [k \in DOMAIN order |-> Result(order[k])] \o remark))
  BY DEF Compose
<1> DEFINE m == Msg("user", Outcomes(order) \o remark)
<1>2. talk' = Append(talk, m)
  BY <1>1 DEF Outcomes
<1>3. talk \in Seq(Talks) /\ TalkPairs(talk, OpenCalls, IdBound) /\ OpenCalls \in Seq(Nat) /\ OnceInOrder(OpenCalls)
  BY DEF WireInv, TalkPairs
<1>4. IdBound \in Nat
  BY <1>3, BoundIsNumber
<1>5. TalkPairs(talk', <<>>, IdBound)
  BY <1>2, <1>3, <1>4, QuestionPairs
<1>6. m \in Talks /\ m.role = "user" /\ m.content = Outcomes(order) \o remark
  <2>1. m \in Talks
    BY <1>3, QuestionType DEF Outcomes
  <2>2. QED
    BY <2>1 DEF Msg
<1>7. CallsOf(m) = <<>>
  <2>1. order \in Seq(Nat)
    BY <1>3, OrdersFacts
  <2>2. Outcomes(order) \in Seq(OfKind("tool_result")) /\ Outcomes(order) \in Seq(Blocks) /\ remark \in Seq(Blocks)
    BY <2>1, OutcomesFacts, TalkPieces
  <2>3. OfType(Outcomes(order), "tool_use") = <<>>
    <3>1. "tool_use" # "tool_result"
      OBVIOUS
    <3>2. QED
      BY <2>2, <3>1, OneType
  <2>4. \A k \in DOMAIN remark : remark[k].type # "tool_use"
    <3>1. \A x : Text(x).type = "text" /\ Image.type = "image"
      BY DEF Text, Image
    <3>2. remark = <<>> \/ remark = <<Text(<<"a">>)>> \/ remark = <<Text(<<"a">>), Image>> \/ remark = <<Text(<<>>)>>
      BY DEF Remarks
    <3>3. QED
      BY <3>1, <3>2
  <2>5. OfType(remark, "tool_use") = <<>>
    BY <2>2, <2>4, NoneOf
  <2>6. OfType(Outcomes(order) \o remark, "tool_use") = <<>> \o <<>>
    BY <2>2, <2>3, <2>5, OfTypeConcat
  <2>7. <<>> \o <<>> = <<>> /\ IdsOf(<<>>) = <<>>
    BY DEF IdsOf
  <2>8. QED
    BY <1>6, <2>6, <2>7 DEF CallsOf
<1> HIDE DEF m
<1>8. OpenCalls' = <<>> /\ Turns' = Turns
  <2>1. OpenCalls' = CallsOf(m) /\ Turns' = IF m.role = "assistant" THEN Turns + 1 ELSE Turns
    BY <1>2, <1>3, <1>6, LastCalls
  <2>2. QED
    BY <1>6, <1>7, <2>1
<1>9. IdBound' = IdBound
  BY <1>8 DEF IdBound
<1>10. stage' = "asked"
  BY DEF Compose
<1>11. TalkPairs(talk', OpenCalls', IdBound')
  BY <1>5, <1>8, <1>9
<1>12. QED
  BY <1>8, <1>10, <1>11 DEF WireInv

LEMMA KeptPairs ==
  ASSUME WireInv, Keep
  PROVE  WireInv'
<1>1. /\ talk \in Seq(Talks) /\ TalkPairs(talk, <<>>, IdBound)
      /\ heard \in Backs /\ NewAnswer(heard.content, IdBound)
  BY DEF WireInv, TalkPairs, Keep
<1>2. talk' = Append(talk, Msg("assistant", heard.content)) /\ stage' = "compose"
  BY DEF Keep
<1>3. PICK t \in Phrases, calls \in Seq(Nat) :
        heard.content = Speech(t) \o Uses(calls) /\ (t # <<>> \/ calls # <<>>) /\ NewIds(calls, IdBound)
  BY <1>1 DEF NewAnswer
<1> DEFINE m == Msg("assistant", Speech(t) \o Uses(calls))
<1>4. talk' = Append(talk, m)
  BY <1>2, <1>3
<1>5. IdBound \in Nat /\ Turns \in Nat
  BY <1>1, BoundIsNumber
<1>6. TalkPairs(talk', calls, IdBound + MaxBlocks + 1)
  BY <1>1, <1>3, <1>4, <1>5, AnswerPairs
<1>7. m \in Talks /\ m.role = "assistant" /\ m.content = Speech(t) \o Uses(calls)
  <2>1. Speech(t) \in Seq(Blocks) /\ Uses(calls) \in Seq(Blocks)
    BY TalkPieces, UsesFacts
  <2>2. Speech(t) \o Uses(calls) \in Seq(Blocks)
    BY <2>1, ConcatProperties
  <2>3. QED
    BY <2>2 DEF Msg, Talks
<1> HIDE DEF m
<1>8. CallsOf(m) = calls
  <2>1. Speech(t) \in Seq(OfKind("text")) /\ Uses(calls) \in Seq(OfKind("tool_use")) /\ Len(Speech(t)) \in {0, 1}
    BY TalkPieces, UsesFacts, SpeechFacts
  <2>2. CallsOf(m) = IdsOf(Uses(calls))
    BY <1>7, <2>1, TextThenCalls
  <2>3. IdsOf(Uses(calls)) = calls
    BY UsesOf DEF Uses
  <2>4. QED
    BY <2>2, <2>3
<1>9. OpenCalls' = calls /\ Turns' = Turns + 1
  BY <1>1, <1>4, <1>7, <1>8, LastCalls
<1>10. IdBound' = IdBound + MaxBlocks + 1
  <2>1. \A x, y \in Nat : (x + 1) * ((y + 1) + 1) = (x + 1) * (y + 1) + x + 1
    OBVIOUS
  <2>2. IdBound' = (MaxBlocks + 1) * ((Turns + 1) + 1)
    BY <1>9 DEF IdBound
  <2> HIDE DEF Turns
  <2>3. QED
    BY <1>5, <2>1, <2>2, BridgeAssumption DEF IdBound
<1>11. TalkPairs(talk', OpenCalls', IdBound')
  BY <1>6, <1>9, <1>10
<1>12. QED
  BY <1>2, <1>11 DEF WireInv

LEMMA WireStays == WireInv /\ [BridgeNext]_bridgeVars => WireInv'
<1>1. SUFFICES ASSUME WireInv, [BridgeNext]_bridgeVars
               PROVE  WireInv'
  OBVIOUS
<1>2. talk \in Seq(Talks)
  BY <1>1 DEF WireInv, TalkPairs
<1>3. ASSUME talk' = talk
      PROVE  /\ OpenCalls' = OpenCalls /\ IdBound' = IdBound
             /\ TalkPairs(talk', OpenCalls', IdBound')
             /\ \A back : NewAnswer(back.content, IdBound) => NewAnswer(back.content, IdBound')
  <2>1. OpenCalls' = OpenCalls /\ IdBound' = IdBound
    BY <1>3 DEF OpenCalls, IdBound, Turns
  <2>2. QED
    BY <1>1, <1>3, <2>1 DEF WireInv
<1>4. CASE Compose
  BY <1>1, <1>4, AskedPairs
<1>5. ASSUME NEW streamed \in BOOLEAN, AnswerAgent(streamed)
      PROVE  WireInv'
  <2>1. PICK pair \in Answered :
          /\ Accepted(pair[2])
          /\ IF streamed
             THEN stage' = "events" /\ events' = MessageEvents(ToReply(pair[2])) /\ heard' = Nothing
             ELSE stage' = "over" /\ heard' = ToReply(pair[2])
    BY <1>5 DEF AnswerAgent
  <2>2. stage = "asked" /\ talk' = talk
    BY <1>5 DEF AnswerAgent
  <2> DEFINE back == ToReply(pair[2])
  <2>3. back \in Backs /\ NewAnswer(back.content, IdBound)
    BY <1>2, <2>1, AnswersAreNew
  <2> HIDE DEF back
  <2>4. OpenCalls' = <<>> /\ TalkPairs(talk', OpenCalls', IdBound') /\ NewAnswer(back.content, IdBound')
    BY <1>1, <1>3, <2>2, <2>3 DEF WireInv
  <2>5. CASE streamed
    <3>1. stage' = "events" /\ events' = MessageEvents(back) /\ heard' = Nothing
      BY <2>1, <2>5 DEF back
    <3>2. MessageEvents(back) = <<Begin>> \o After(back, 0)
      BY <2>3, AfterSteps
    <3>3. Hearing(back, heard', events')
      BY <3>1, <3>2 DEF Hearing
    <3>4. QED
      BY <2>3, <2>4, <3>1, <3>3 DEF WireInv
  <2>6. CASE ~ streamed
    <3>1. stage' = "over" /\ heard' = back
      BY <2>1, <2>6 DEF back
    <3>2. QED
      BY <2>3, <2>4, <3>1 DEF WireInv
  <2>7. QED
    BY <2>5, <2>6
<1>6. CASE Hear
  <2>1. PICK back \in Backs : Hearing(back, heard, events) /\ NewAnswer(back.content, IdBound)
    BY <1>1, <1>6 DEF WireInv, Hear
  <2>2. /\ Len(events) = 1 => Accumulated(heard, Head(events)) = back
        /\ Len(events) # 1 => Hearing(back, Accumulated(heard, Head(events)), Tail(events))
    BY <2>1, HearingStep
  <2>3. stage = "events" /\ talk' = talk
    BY <1>6 DEF Hear
  <2>4. OpenCalls' = <<>> /\ TalkPairs(talk', OpenCalls', IdBound') /\ NewAnswer(back.content, IdBound')
    BY <1>1, <1>3, <2>1, <2>3 DEF WireInv
  <2>5. CASE Len(events) = 1
    <3>1. stage' = "over" /\ heard' = back
      BY <1>6, <2>2, <2>5 DEF Hear
    <3>2. QED
      BY <2>1, <2>4, <3>1 DEF WireInv
  <2>6. CASE Len(events) # 1
    <3>1. stage' = "events" /\ Hearing(back, heard', events')
      BY <1>6, <2>2, <2>6 DEF Hear
    <3>2. QED
      BY <2>1, <2>4, <3>1 DEF WireInv
  <2>7. QED
    BY <2>5, <2>6
<1>7. CASE Break
  <2>1. stage = "events" /\ stage' = "asked" /\ talk' = talk
    BY <1>7 DEF Break
  <2>2. QED
    BY <1>1, <1>3, <2>1 DEF WireInv
<1>8. CASE Keep
  BY <1>1, <1>8, KeptPairs
<1>9. CASE UNCHANGED bridgeVars
  <2>1. talk' = talk /\ stage' = stage /\ heard' = heard /\ events' = events
    BY <1>9 DEF bridgeVars
  <2>2. QED
    BY <1>1, <1>3, <2>1 DEF WireInv
<1>10. QED
  BY <1>1, <1>4, <1>5, <1>6, <1>7, <1>8, <1>9 DEF BridgeNext

\* With no call open, the conversation that goes out is paired.
LEMMA WirePairs == WireInv => WireIsPaired
<1>1. SUFFICES ASSUME WireInv, stage = "asked"
               PROVE  /\ PairedOpenAI(FromAnthropic(talk))
                      /\ PairedAnthropic(ToAnthropic(FromAnthropic(talk)))
                      /\ PairedCodex(ToCodex(FromAnthropic(talk)))
  BY DEF WireIsPaired
<1> DEFINE F == FromAnthropic(talk)
<1>2. TalkPairs(talk, <<>>, IdBound)
  BY <1>1 DEF WireInv
<1>3. F \in Seq(OpenMsgs)
  <2> DEFINE m == Msg("assistant", Speech(<<"a">>) \o Uses(<<>>))
  <2>1. <<"a">> \in Phrases /\ <<"a">> # <<>> /\ <<>> \in Seq(Nat)
    BY PhraseFacts, EmptySeq DEF Letters
  <2>2. FromMessage(m) = <<AgentMsg(<<"a">>, <<>>)>> /\ AgentMsg(<<"a">>, <<>>) \in OpenMsgs
    BY <2>1, AnswerRead, TalkPieces
  <2>3. m \in Talks
    <3>1. Speech(<<"a">>) \in Seq(Blocks) /\ Uses(<<>>) \in Seq(Blocks)
      BY <2>1, TalkPieces, UsesFacts
    <3>2. Speech(<<"a">>) \o Uses(<<>>) \in Seq(Blocks)
      BY <3>1, ConcatProperties
    <3>3. QED
      BY <3>2 DEF Msg, Talks
  <2> HIDE DEF m
  <2>4. FromMessage(m) \in Seq(OpenMsgs)
    BY <2>2
  <2>5. QED
    BY <1>2, <2>3, <2>4, TalkGrows DEF TalkPairs
<1>4. PICK s : Sent(F, s) /\ Posted(s, <<>>)
  BY <1>2 DEF TalkPairs
<1>5. OpenAIPairs(F, <<>>) /\ ItemPairs(ToCodex(F), {}, IdBound)
  BY <1>2, NoneOpen DEF TalkPairs
<1> HIDE DEF F
<1>6. PairedOpenAI(F)
  <2>1. DOMAIN F = 1 .. Len(F)
    BY <1>3, LenProperties
  <2>2. \A k \in 1 .. Len(F) : F[k].calls # <<>> =>
          /\ k + Len(F[k].calls) <= Len(F)
          /\ {F[j].id : j \in k + 1 .. k + Len(F[k].calls)} = Elements(F[k].calls)
    BY <1>5, Zenon DEF OpenAIPairs
  <2>3. \A k \in 1 .. Len(F) : F[k].role = "tool" => \E j \in 1 .. k - 1 : F[k].id \in Elements(F[j].calls)
    BY <1>5, Zenon DEF OpenAIPairs
  <2>4. QED
    BY <2>1, <2>2, <2>3, Zenon DEF PairedOpenAI
<1>7. PairedAnthropic(ToAnthropic(F))
  <2> DEFINE M == AllFlushed(s)
             greeting == <<Msg("user", <<Text(<<"a">>)>>)>>
  <2>1. ToAnthropic(F) = IF M = <<>> THEN greeting ELSE M
    BY <1>3, <1>4, AllSent
  <2>2. M \in Seq(OpenMsgs) /\ MessagePairs(M, <<>>)
    BY <1>4, FlushedFacts DEF Posted
  <2>3. PairedAnthropic(M)
    <3>1. DOMAIN M = 1 .. Len(M)
      BY <2>2, LenProperties
    <3> HIDE DEF M
    <3>2. \A k \in 1 .. Len(M) : Used(M[k]) # {} => k < Len(M) /\ M[k + 1].role = "user" /\ Given(M[k + 1]) = Used(M[k])
      BY <2>2, NoneOpen DEF MessagePairs
    <3>3. QED
      BY <3>1, <3>2 DEF PairedAnthropic, Used, Given
  <2>4. PairedAnthropic(greeting)
    <3>1. DOMAIN greeting = {1} /\ greeting[1] = Msg("user", <<Text(<<"a">>)>>)
      OBVIOUS
    <3>2. OfType(<<Text(<<"a">>)>>, "tool_use") = <<>>
      <4>1. Text(<<"a">>) \in OfKind("text")
        BY BlockFacts, PhraseFacts DEF Letters
      <4>2. <<Text(<<"a">>)>> \in Seq(OfKind("text")) /\ "tool_use" # "text"
        BY <4>1
      <4>3. QED
        BY <4>2, OneType
    <3>3. Elements(IdsOf(OfType(greeting[1].content, "tool_use"))) = {}
      <4>1. greeting[1].content = <<Text(<<"a">>)>>
        BY <3>1 DEF Msg
      <4>2. IdsOf(<<>>) = <<>>
        BY DEF IdsOf
      <4>3. QED
        BY <3>2, <4>1, <4>2, NoneOpen
    <3> HIDE DEF greeting
    <3>4. QED
      BY <3>1, <3>3 DEF PairedAnthropic
  <2>5. QED
    BY <2>1, <2>3, <2>4
<1>8. PairedCodex(ToCodex(F))
  <2>1. ToolMsg(0) \in OpenMsgs
    BY TalkPieces
  <2>2. ToCodex(F) \in Seq(Blocks)
    BY <1>3, <2>1, ItemsGrow
  <2>3. QED
    BY <1>5, <2>2, ItemsPaired
<1>9. QED
  BY <1>6, <1>7, <1>8 DEF F

(* However long the conversation and the answers, what goes out is paired  *)
(* in every format: between two turns the calls of the last answer are all *)
(* that is open, the agent's next message closes each of them once, right  *)
(* behind it, and a new answer has ids that no earlier call had.           *)
(* fromAnthropicRequest(), toAnthropicRequest(), toCodexRequest().         *)
THEOREM WireStaysPaired == BridgeSpec => []WireIsPaired
<1>1. BridgeInit => WireInv
  BY WireBegins
<1>2. WireInv /\ [BridgeNext]_bridgeVars => WireInv'
  BY WireStays
<1>3. WireInv => WireIsPaired
  BY WirePairs
<1>4. QED
  BY <1>1, <1>2, <1>3, PTL DEF BridgeSpec
=============================================================================
