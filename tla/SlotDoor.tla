------------------------------ MODULE SlotDoor ------------------------------
(***************************************************************************)
(* What the connection pool promises: each door (a capacity domain) is a   *)
(* bounded room with one waiting line.  Nobody is inside beyond the bound, *)
(* nobody walks past a line that has formed, a place that becomes free     *)
(* goes to the head of the line in the same step, and whoever waits may    *)
(* leave the line without disturbing the order of the others.              *)
(*                                                                         *)
(* This is the abstract specification ConnectionPool implements; it has no *)
(* counters, tickets, settled flags or timers.                             *)
(***************************************************************************)
EXTENDS Integers, SequencesExt

CONSTANTS Guests,   \* whoever may ask for a place
          Doors,    \* the capacity domains
          Places    \* Places[d] is the number of places behind door d, at least 1

VARIABLES inside,   \* inside[d]: the guests holding a place behind d
          line      \* line[d]: the guests waiting in front of d, oldest first

doorVars == <<inside, line>>

Init ==
  /\ inside = [d \in Doors |-> {}]
  /\ line = [d \in Doors |-> <<>>]

\* Someone is behind or in front of d.
At(g, d) == g \in inside[d] \/ Contains(line[d], g)

\* A place is free and nobody waits for it.
WalkIn(g, d) ==
  /\ line[d] = <<>>
  /\ Cardinality(inside[d]) < Places[d]
  /\ ~ At(g, d)
  /\ inside' = [inside EXCEPT ![d] = @ \cup {g}]
  /\ UNCHANGED line

\* All places are taken: g joins at the tail.
Join(g, d) ==
  /\ Cardinality(inside[d]) = Places[d]
  /\ ~ At(g, d)
  /\ line' = [line EXCEPT ![d] = Append(@, g)]
  /\ UNCHANGED inside

\* g stops waiting (timeout or disconnect); the others keep their order.
GiveUp(g, d) ==
  /\ \E i \in DOMAIN line[d] :
       /\ line[d][i] = g
       /\ line' = [line EXCEPT ![d] = RemoveAt(@, i)]
  /\ UNCHANGED inside

\* g returns its place and nobody waits for it.
Leave(g, d) ==
  /\ g \in inside[d]
  /\ line[d] = <<>>
  /\ inside' = [inside EXCEPT ![d] = @ \ {g}]
  /\ UNCHANGED line

\* g returns its place and the head of the line takes it at once.
HandOver(g, d) ==
  /\ g \in inside[d]
  /\ line[d] # <<>>
  /\ inside' = [inside EXCEPT ![d] = (@ \ {g}) \cup {Head(line[d])}]
  /\ line' = [line EXCEPT ![d] = Tail(@)]

Next ==
  \E g \in Guests, d \in Doors :
    WalkIn(g, d) \/ Join(g, d) \/ GiveUp(g, d) \/ Leave(g, d) \/ HandOver(g, d)

Spec == Init /\ [][Next]_doorVars
=============================================================================
