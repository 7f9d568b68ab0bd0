------------------------------ MODULE EventBus ------------------------------
(***************************************************************************)
(* The event bus of src/src/siem/events.mjs: emit(), the chain of writes   *)
(* of each output, and close().                                            *)
(*                                                                         *)
(* An output's writes follow each other on a chain of promises; one        *)
(* counter for the whole bus says how far the outputs have fallen behind,  *)
(* and an event that finds it at maxBuffer is dropped.                     *)
(***************************************************************************)
EXTENDS Naturals, Sequences, FiniteSets

CONSTANTS Outputs,    \* the registered output adapters
          MaxBuffer,  \* maxBuffer
          MaxEmitted  \* bound: how many events are emitted

ASSUME BusAssumption ==
  /\ IsFiniteSet(Outputs)
  /\ MaxBuffer \in Nat \ {0}
  /\ MaxEmitted \in Nat

VARIABLES emitted,   \* how many events there were; event n is the n-th
          dropped,   \* those that found the buffer full
          tail,      \* tail[o]: the events on the chain of output o
          buffered,  \* bufferedCount
          closing,   \* close(): "no", "draining", "flushed"; "closed" has no outputs
          awaited    \* awaited[o]: the last event whose write drain() waits for

busVars == <<emitted, dropped, tail, buffered, closing, awaited>>

BusInit ==
  /\ emitted = 0
  /\ dropped = {}
  /\ tail = [o \in Outputs |-> <<>>]
  /\ buffered = 0
  /\ closing = "no"
  /\ awaited = [o \in Outputs |-> 0]

\* With outputs, a full buffer drops the event; without, nobody wants it.
Emit ==
  /\ emitted < MaxEmitted
  /\ emitted' = emitted + 1
  /\ CASE Outputs = {} \/ closing = "closed" -> UNCHANGED <<dropped, tail, buffered>>
       [] OTHER ->
            \/ /\ buffered >= MaxBuffer
               /\ dropped' = dropped \cup {emitted'}
               /\ UNCHANGED <<tail, buffered>>
            \/ /\ buffered < MaxBuffer
               /\ buffered' = buffered + 1
               /\ tail' = [o \in Outputs |-> Append(tail[o], emitted')]
               /\ UNCHANGED dropped
  /\ UNCHANGED <<closing, awaited>>

\* mutant: a write that fails does not give its place back.
GivenBackOnSuccess(ok) == IF ok /\ buffered > 0 THEN buffered - 1 ELSE buffered
\* In the finally block, however the write ended.
GivenBack(ok) == IF buffered > 0 THEN buffered - 1 ELSE 0

\* The head of the chain of o settles; a write that failed is only logged.
WriteSettles(o, ok) ==
  /\ tail[o] # <<>>
  /\ tail' = [tail EXCEPT ![o] = Tail(@)]
  /\ buffered' = GivenBack(ok)
  /\ UNCHANGED <<emitted, dropped, closing, awaited>>

\* close() begins with drain(), which waits for the chains as they are now.
StartClose ==
  /\ closing = "no"
  /\ closing' = "draining"
  /\ awaited' = [o \in Outputs |-> IF tail[o] = <<>> THEN 0 ELSE tail[o][Len(tail[o])]]
  /\ UNCHANGED <<emitted, dropped, tail, buffered>>

Drained == \A o \in Outputs : \A i \in DOMAIN tail[o] : tail[o][i] > awaited[o]

\* The outputs are flushed and closed one after the other, then forgotten.
DrainEnds ==
  /\ closing = "draining"
  /\ Drained
  /\ closing' = "flushed"
  /\ UNCHANGED <<emitted, dropped, tail, buffered, awaited>>

OutputsClosed ==
  /\ closing = "flushed"
  /\ closing' = "closed"
  /\ UNCHANGED <<emitted, dropped, tail, buffered, awaited>>

BusNext ==
  \/ Emit
  \/ \E o \in Outputs, ok \in BOOLEAN : WriteSettles(o, ok)
  \/ StartClose
  \/ DrainEnds
  \/ OutputsClosed

BusSpec == BusInit /\ [][BusNext]_busVars

-----------------------------------------------------------------------------

Backlog(o) == Len(tail[o])

\* The counter never runs ahead of the outputs, also when writes fail: an event
\* is dropped only while an output really is maxBuffer events behind.
DropsOnlyWhenBehind ==
  Outputs # {} => \E o \in Outputs : buffered <= Backlog(o)

=============================================================================
