--------------------------- MODULE ServingProofs ---------------------------
(***************************************************************************)
(* Proofs about the front door and what runs beside it: the authorization  *)
(* gate, the gauge of requests in flight, the event outputs, the reload of *)
(* the configuration and the hand-over of the listener.                    *)
(***************************************************************************)
EXTENDS FrontDoor, Authorization, EventBus, SiemOutputs, ConfigReload, AtomicActivation, LineLemmas,
        FiniteSetTheorems

-----------------------------------------------------------------------------
(* The authorization gate *)

Waits == [at : {"credential", "reading", "asking", "body"}, route : Routes, subject : Subjects,
          open : {FALSE}, timer : Nat, answer : {"none", "allow", "deny", "fault"},
          file : [inode : Nat, version : Nat]]
Judged == [at : {"judged"}, allowed : BOOLEAN, route : Routes, subject : Subjects \cup {NoSubject},
           open : BOOLEAN]

Entry == [key : Keys, left : Nat]

\* No entry of the cache holds longer than CacheTtl after the answer it comes from was read.
Within(cache, age) ==
  /\ cache \in Seq(Entry)
  /\ \A i \in 1..Len(cache) : cache[i].left + age[cache[i].key] <= CacheTtl

GateInv ==
  /\ gate \in [AuthzRequests -> [at : {"idle"}] \cup Waits \cup Judged]
  /\ \A r \in AuthzRequests : gate[r] \in Waits => CapabilityOf(gate[r].route) # "public"
  /\ credential \in [inode : Nat, version : Nat, age : Nat, approved : BOOLEAN]
  /\ told \in [Keys -> 0..CacheTtl]
  /\ Within(allowCache, told)

LEMMA CacheTtlIsNat == {CacheTtl, MaxCache, PdpTimeout, CredentialLife} \subseteq Nat /\ Subjects # {}
BY AuthorizationAssumption

\* Taking the entry of a key out of the cache leaves the others as they are.
LEMMA WithoutFacts ==
  ASSUME NEW age \in [Keys -> 0..CacheTtl], NEW cache, Within(cache, age), NEW k
  PROVE  Within(Without(cache, k), age)
<1>1. CASE \E i \in DOMAIN cache : cache[i].key = k
  <2> DEFINE p == CHOOSE i \in DOMAIN cache : cache[i].key = k
  <2>1. p \in 1..Len(cache)
    BY <1>1, LenProperties DEF Within
  <2>2. Without(cache, k) = RemoveAt(cache, p)
    BY <1>1 DEF Without
  <2> HIDE DEF p
  <2>3. /\ RemoveAt(cache, p) \in Seq(Entry)
        /\ Len(RemoveAt(cache, p)) = Len(cache) - 1
        /\ \A j \in 1..(Len(cache) - 1) :
             RemoveAt(cache, p)[j] = IF j < p THEN cache[j] ELSE cache[j + 1]
    BY <2>1, RemoveAtFacts DEF Within
  <2>4. Len(cache) \in Nat
    BY LenProperties DEF Within
  <2>5. ASSUME NEW j \in 1..(Len(cache) - 1)
        PROVE  RemoveAt(cache, p)[j].left + age[RemoveAt(cache, p)[j].key] <= CacheTtl
    <3>1. PICK i \in 1..Len(cache) : RemoveAt(cache, p)[j] = cache[i]
      BY <2>3, <2>4
    <3>2. QED
      BY <3>1 DEF Within
  <2>6. QED
    BY <2>2, <2>3, <2>5 DEF Within
<1>2. CASE ~ \E i \in DOMAIN cache : cache[i].key = k
  BY <1>2 DEF Without
<1>3. QED
  BY <1>1, <1>2

LEMMA AppendedFacts ==
  ASSUME NEW age \in [Keys -> 0..CacheTtl], NEW cache, Within(cache, age),
         NEW entry \in Entry, entry.left + age[entry.key] <= CacheTtl
  PROVE  Within(Append(cache, entry), age)
<1>1. /\ Append(cache, entry) \in Seq(Entry)
      /\ Len(Append(cache, entry)) = Len(cache) + 1
      /\ \A i \in 1..Len(cache) : Append(cache, entry)[i] = cache[i]
      /\ Append(cache, entry)[Len(cache) + 1] = entry
      /\ Len(cache) \in Nat
  BY AppendProperties, LenProperties DEF Within
<1>2. ASSUME NEW i \in 1..(Len(cache) + 1)
      PROVE  Append(cache, entry)[i].left + age[Append(cache, entry)[i].key] <= CacheTtl
  <2>1. CASE i = Len(cache) + 1
    BY <1>1, <2>1
  <2>2. CASE i # Len(cache) + 1
    <3>1. i \in 1..Len(cache)
      BY <1>1, <2>2
    <3>2. QED
      BY <1>1, <3>1 DEF Within
  <2>3. QED
    BY <2>1, <2>2
<1>3. QED
  BY <1>1, <1>2 DEF Within

\* Remembering an answer that was just read.
LEMMA PutFacts ==
  ASSUME NEW age \in [Keys -> 0..CacheTtl], NEW cache, Within(cache, age),
         NEW k \in Keys, age[k] = 0
  PROVE  Within(Put(cache, k), age)
<1> DEFINE longer == Append(Without(cache, k), Young(k))
           over == IF Len(longer) > MaxCache THEN Len(longer) - MaxCache ELSE 0
<1>1. Young(k) \in Entry /\ Young(k).left = CacheTtl /\ Young(k).key = k
  BY CacheTtlIsNat DEF Young, Entry
<1>2. Within(longer, age)
  <2>1. Within(Without(cache, k), age)
    BY WithoutFacts
  <2>2. Young(k).left + age[Young(k).key] <= CacheTtl
    BY <1>1, CacheTtlIsNat
  <2>3. QED
    BY <1>1, <2>1, <2>2, AppendedFacts
<1>3. Put(cache, k) = IF CacheTtl = 0 THEN cache ELSE SubSeq(longer, over + 1, Len(longer))
  BY DEF Put
<1> HIDE DEF longer
<1>4. Len(longer) \in Nat /\ over \in Nat
  BY <1>2, LenProperties, CacheTtlIsNat DEF Within
<1> HIDE DEF over
<1>5. \A i \in (over + 1)..Len(longer) : longer[i] \in Entry
  BY <1>2, <1>4, ElementOfSeq DEF Within
<1>6. /\ SubSeq(longer, over + 1, Len(longer)) \in Seq(Entry)
      /\ Len(SubSeq(longer, over + 1, Len(longer)))
           = IF over + 1 <= Len(longer) THEN Len(longer) - (over + 1) + 1 ELSE 0
      /\ \A i \in 1..(Len(longer) - (over + 1) + 1) :
           SubSeq(longer, over + 1, Len(longer))[i] = longer[over + 1 + i - 1]
  BY <1>4, <1>5, SubSeqProperties
<1> DEFINE kept == SubSeq(longer, over + 1, Len(longer))
<1>7. ASSUME NEW i \in 1..Len(kept)
      PROVE  kept[i].left + age[kept[i].key] <= CacheTtl
  <2>1. over + 1 + i - 1 \in 1..Len(longer) /\ kept[i] = longer[over + 1 + i - 1]
    BY <1>4, <1>6
  <2>2. QED
    BY <2>1, <1>2 DEF Within
<1>8. Within(kept, age)
  BY <1>6, <1>7 DEF Within
<1>9. QED
  BY <1>3, <1>8

\* A hit shows an answer that is younger than CacheTtl, and stays what it is.
LEMMA HitFacts ==
  ASSUME GateInv, NEW k \in Keys, Hit(k)
  PROVE  told[k] < CacheTtl /\ Within(Touched(allowCache, k), told)
<1> DEFINE left == CHOOSE n \in LeftOf(allowCache, k) : TRUE
<1>1. \A n \in LeftOf(allowCache, k) : n \in Nat /\ n + told[k] <= CacheTtl
  <2>1. ASSUME NEW i \in DOMAIN allowCache, allowCache[i].key = k
        PROVE  allowCache[i].left \in Nat /\ allowCache[i].left + told[k] <= CacheTtl
    <3>1. i \in 1..Len(allowCache)
      BY <2>1, LenProperties DEF GateInv, Within
    <3>2. allowCache[i] \in Entry
      BY <3>1, ElementOfSeq DEF GateInv, Within
    <3>3. QED
      BY <2>1, <3>1, <3>2 DEF GateInv, Within, Entry
  <2>2. QED
    BY <2>1 DEF LeftOf
<1>2. PICK n \in LeftOf(allowCache, k) : n > 0
  BY DEF Hit
<1>3. told[k] \in Nat /\ told \in [Keys -> 0..CacheTtl]
  BY DEF GateInv
<1>4. left \in LeftOf(allowCache, k)
  BY <1>2
<1> HIDE DEF left
<1>5. left \in Nat /\ left + told[k] <= CacheTtl
  BY <1>1, <1>4
<1> DEFINE entry == [key |-> k, left |-> left]
<1>6. entry \in Entry /\ entry.left + told[entry.key] <= CacheTtl
  BY <1>5 DEF Entry
<1>7. Touched(allowCache, k) = Append(Without(allowCache, k), entry)
  BY DEF Touched, left
<1>8. Within(Without(allowCache, k), told)
  BY <1>3, WithoutFacts DEF GateInv
<1> HIDE DEF entry
<1>9. Within(Touched(allowCache, k), told)
  BY <1>3, <1>6, <1>7, <1>8, AppendedFacts
<1>10. QED
  BY <1>1, <1>2, <1>3, <1>9, CacheTtlIsNat

\* Time ages the entries and the answers alike.
LEMMA AgeFacts ==
  ASSUME GateInv,
         allowCache' = [i \in DOMAIN allowCache |-> [allowCache[i] EXCEPT !.left = Less(@)]],
         told' = [k \in Keys |-> More(told[k], CacheTtl)]
  PROVE  told' \in [Keys -> 0..CacheTtl] /\ Within(allowCache', told')
<1>1. /\ allowCache \in Seq(Entry)
      /\ Len(allowCache) \in Nat
      /\ DOMAIN allowCache = 1..Len(allowCache)
      /\ \A i \in 1..Len(allowCache) : allowCache[i] \in Entry
      /\ CacheTtl \in Nat
  BY LenProperties, ElementOfSeq, CacheTtlIsNat DEF GateInv, Within
<1>2. told' \in [Keys -> 0..CacheTtl]
  BY <1>1 DEF GateInv, More
<1>3. ASSUME NEW i \in 1..Len(allowCache)
      PROVE  /\ [allowCache[i] EXCEPT !.left = Less(@)] \in Entry
             /\ [allowCache[i] EXCEPT !.left = Less(@)].left
                  + told'[[allowCache[i] EXCEPT !.left = Less(@)].key] <= CacheTtl
  <2> DEFINE e == allowCache[i]
  <2>1. e \in Entry /\ e.left + told[e.key] <= CacheTtl
    BY <1>1 DEF GateInv, Within
  <2> HIDE DEF e
  <2>2. e.left \in Nat /\ e.key \in Keys
    BY <2>1 DEF Entry
  <2>3. Less(e.left) \in Nat
    BY <2>2 DEF Less
  <2>4. /\ [e EXCEPT !.left = Less(@)] \in Entry
        /\ [e EXCEPT !.left = Less(@)].left = Less(e.left)
        /\ [e EXCEPT !.left = Less(@)].key = e.key
    BY <2>1, <2>3 DEF Entry
  <2>5. told'[e.key] = More(told[e.key], CacheTtl) /\ told[e.key] \in 0..CacheTtl
    BY <2>2 DEF GateInv
  <2>6. Less(e.left) + told'[e.key] <= CacheTtl
    BY <1>1, <2>1, <2>2, <2>5 DEF Less, More
  <2>7. QED
    BY <2>4, <2>6 DEF e
<1>4. /\ allowCache' \in [1..Len(allowCache) -> Entry]
      /\ \A i \in 1..Len(allowCache) : allowCache'[i] = [allowCache[i] EXCEPT !.left = Less(@)]
  BY <1>1, <1>3
<1>5. allowCache' \in Seq(Entry) /\ Len(allowCache') = Len(allowCache)
  BY <1>1, <1>4, IsASeq, LenProperties
<1>6. QED
  BY <1>2, <1>3, <1>4, <1>5 DEF Within

LEMMA MovedFacts ==
  ASSUME GateInv, NEW r \in AuthzRequests, NEW record, Moved(r, record),
         record \in Waits \cup Judged,
         record \in Waits => CapabilityOf(record.route) # "public"
  PROVE  /\ gate' \in [AuthzRequests -> [at : {"idle"}] \cup Waits \cup Judged]
         /\ \A q \in AuthzRequests : gate'[q] \in Waits => CapabilityOf(gate'[q].route) # "public"
         /\ gate'[r] = record
         /\ \A q \in AuthzRequests : q # r => gate'[q] = gate[q]
<1>1. /\ gate' = [gate EXCEPT ![r] = record]
      /\ gate \in [AuthzRequests -> [at : {"idle"}] \cup Waits \cup Judged]
      /\ \A q \in AuthzRequests : gate[q] \in Waits => CapabilityOf(gate[q].route) # "public"
  BY DEF GateInv, Moved
<1>2. gate'[r] = record /\ \A q \in AuthzRequests : q # r => gate'[q] = gate[q]
  BY <1>1
<1>3. gate' \in [AuthzRequests -> [at : {"idle"}] \cup Waits \cup Judged]
  BY <1>1
<1>4. QED
  BY <1>1, <1>2, <1>3

\* A request whose state is one of waiting has the fields of one.
LEMMA WaitingFacts ==
  ASSUME GateInv, NEW r \in AuthzRequests, gate[r].at \in {"credential", "reading", "asking", "body"}
  PROVE  /\ gate[r] \in Waits
         /\ CapabilityOf(gate[r].route) # "public"
         /\ CacheKey(gate[r].subject, CapabilityOf(gate[r].route)) \in Keys
<1>1. gate[r] \in [at : {"idle"}] \cup Waits \cup Judged
  BY DEF GateInv
<1>2. gate[r] \in Waits
  BY <1>1 DEF Judged
<1>3. CapabilityOf(gate[r].route) # "public"
  BY <1>2 DEF GateInv
<1>4. gate[r].subject \in Subjects /\ CapabilityOf(gate[r].route) \in {"skgateway.infer", "skgateway.admin"}
  BY <1>2, <1>3 DEF Waits, CapabilityOf
<1>5. QED
  BY <1>2, <1>3, <1>4 DEF CacheKey, Keys

LEMMA RuledFacts ==
  ASSUME GateInv, NEW r \in AuthzRequests, gate[r] \in Waits, NEW allowed \in BOOLEAN, Ruled(r, allowed)
  PROVE  /\ gate' \in [AuthzRequests -> [at : {"idle"}] \cup Waits \cup Judged]
         /\ \A q \in AuthzRequests : gate'[q] \in Waits => CapabilityOf(gate'[q].route) # "public"
         /\ gate'[r].allowed = allowed
         /\ \A q \in AuthzRequests : q # r => gate'[q] = gate[q]
<1> DEFINE record == [at |-> "judged", allowed |-> allowed, route |-> gate[r].route,
                      subject |-> gate[r].subject, open |-> gate[r].open]
<1>1. Moved(r, record)
  BY DEF Ruled
<1>2. record \in Judged /\ record \notin Waits /\ record.allowed = allowed
  BY DEF Waits, Judged
<1> HIDE DEF record
<1>3. QED
  BY <1>1, <1>2, MovedFacts

\* A record of waiting with another field stays one.
LEMMA StillWaits ==
  ASSUME NEW w \in Waits
  PROVE  /\ \A seen \in [inode : Nat, version : Nat] : [w EXCEPT !.file = seen] \in Waits
         /\ \A answer \in {"none", "allow", "deny", "fault"} : [w EXCEPT !.answer = answer] \in Waits
         /\ \A timer \in Nat : [w EXCEPT !.timer = timer] \in Waits
         /\ \A place \in {"credential", "reading", "asking", "body"} : [w EXCEPT !.at = place] \in Waits
         /\ w.at # "judged"
BY DEF Waits

\* A request for a gated route passes on the word of the PDP, for any identities and any
\* overlap of requests, with any size of the cache and however long the service runs: an
\* allow from the cache is always younger than CacheTtl.
THEOREM NoAllowUntold == AuthzSpec => AllowIsTold
<1> DEFINE Told(r) ==
             LET g == gate'[r]
                 key == [subject |-> g.subject, capability |-> CapabilityOf(g.route)]
             IN g # gate[r] /\ g.at = "judged" /\ g.allowed =>
                  \/ g.open
                  \/ gate[r].at = "body" /\ gate[r].answer = "allow"
                  \/ /\ ~Qualified(g.route)
                     /\ key \in Keys /\ told[key] < CacheTtl
<1>1. AuthzInit => GateInv
  <2> SUFFICES ASSUME AuthzInit PROVE GateInv
    OBVIOUS
  <2>1. gate \in [AuthzRequests -> [at : {"idle"}] \cup Waits \cup Judged]
    BY DEF AuthzInit, AtRest
  <2>2. \A r \in AuthzRequests : gate[r] \notin Waits
    BY DEF AuthzInit, AtRest, Waits
  <2>3. credential \in [inode : Nat, version : Nat, age : Nat, approved : BOOLEAN]
    BY DEF AuthzInit
  <2>4. told \in [Keys -> 0..CacheTtl]
    BY CacheTtlIsNat DEF AuthzInit
  <2>5. Within(allowCache, told)
    BY EmptySeq DEF AuthzInit, Within
  <2>6. QED
    BY <2>1, <2>2, <2>3, <2>4, <2>5 DEF GateInv
<1>2. ASSUME GateInv, AuthzNext
      PROVE  GateInv' /\ \A r \in AuthzRequests : Told(r)
  <2> DEFINE GateOK ==
        /\ gate' \in [AuthzRequests -> [at : {"idle"}] \cup Waits \cup Judged]
        /\ \A q \in AuthzRequests : gate'[q] \in Waits => CapabilityOf(gate'[q].route) # "public"
  <2>1. ASSUME GateOK, UNCHANGED <<credential, told>>, Within(allowCache', told)
        PROVE  GateInv'
    BY <1>2, <2>1 DEF GateInv
  <2>2. ASSUME NEW r \in AuthzRequests, NEW route \in Routes, NEW identity \in Identities,
               NEW internal \in BOOLEAN, Enter(r, route, identity, internal)
        PROVE  GateInv' /\ \A q \in AuthzRequests : Told(q)
    <3> DEFINE governed == Qualified(route)
               open == ~governed /\ (CapabilityOf(route) = "public" \/ internal)
               subject == IF governed THEN ScopeSubject
                          ELSE IF open THEN NoSubject ELSE SubjectOf(identity)
               key == CacheKey(subject, CapabilityOf(route))
               waiting(place) == [at |-> place, route |-> route, subject |-> subject, open |-> FALSE,
                               timer |-> PdpTimeout, answer |-> "none", file |-> Unseen]
               judged(allowed) == [at |-> "judged", allowed |-> allowed, route |-> route,
                                   subject |-> subject, open |-> open]
    <3>1. /\ governed => CapabilityOf(route) = "skgateway.infer"
          /\ ~open => CapabilityOf(route) \in {"skgateway.infer", "skgateway.admin"}
      BY DEF Qualified, CapabilityOf, Routes
    <3>2. subject \in Subjects \cup {NoSubject} /\ open \in BOOLEAN
      BY CacheTtlIsNat DEF ScopeSubject, SubjectOf, Identities
    <3>3. governed => subject \in Subjects
      BY CacheTtlIsNat DEF ScopeSubject
    <3>4. ~open /\ subject # NoSubject => subject \in Subjects /\ key \in Keys
      BY <3>1, <3>2 DEF CacheKey, Keys
    <3>5. \/ open /\ Moved(r, judged(TRUE)) /\ UNCHANGED allowCache
          \/ Moved(r, judged(FALSE)) /\ UNCHANGED allowCache
          \/ governed /\ Moved(r, waiting("credential")) /\ UNCHANGED allowCache
          \/ /\ ~open /\ ~governed /\ subject # NoSubject /\ Hit(key)
             /\ Moved(r, judged(TRUE)) /\ allowCache' = Touched(allowCache, key)
          \/ /\ ~open /\ ~governed /\ subject # NoSubject /\ ~Hit(key)
             /\ Moved(r, waiting("asking")) /\ allowCache' = Without(allowCache, key)
      BY <2>2 DEF Enter
    <3>6. UNCHANGED <<credential, told>>
      BY <2>2 DEF Enter
    <3>7. Within(allowCache, told) /\ told \in [Keys -> 0..CacheTtl]
      BY <1>2 DEF GateInv
    <3> HIDE DEF subject, open, governed, key
    <3>8. \A allowed \in BOOLEAN :
            /\ judged(allowed) \in Judged /\ judged(allowed) \notin Waits
            /\ judged(allowed).allowed = allowed /\ judged(allowed).open = open
            /\ judged(allowed).route = route /\ judged(allowed).subject = subject
      BY <3>2 DEF Judged, Waits
    <3>9. \A place \in {"credential", "asking"} :
            subject \in Subjects =>
              /\ waiting(place) \in Waits /\ waiting(place).at # "judged" /\ waiting(place).route = route
      BY CacheTtlIsNat DEF Waits, Unseen
    <3> HIDE DEF judged, waiting, Told, GateOK
    <3>10. CASE open /\ Moved(r, judged(TRUE)) /\ UNCHANGED allowCache
      <4>1. /\ GateOK /\ gate'[r] = judged(TRUE)
            /\ \A q \in AuthzRequests : q # r => gate'[q] = gate[q]
        BY <1>2, <3>8, <3>10, MovedFacts DEF GateOK
      <4>2. GateInv'
        BY <2>1, <3>6, <3>7, <3>10, <4>1
      <4>3. \A q \in AuthzRequests : Told(q)
        BY <3>8, <3>10, <4>1 DEF Told
      <4>4. QED
        BY <4>2, <4>3
    <3>11. CASE Moved(r, judged(FALSE)) /\ UNCHANGED allowCache
      <4>1. /\ GateOK /\ gate'[r] = judged(FALSE)
            /\ \A q \in AuthzRequests : q # r => gate'[q] = gate[q]
        BY <1>2, <3>8, <3>11, MovedFacts DEF GateOK
      <4>2. GateInv'
        BY <2>1, <3>6, <3>7, <3>11, <4>1
      <4>3. \A q \in AuthzRequests : Told(q)
        BY <3>8, <4>1 DEF Told
      <4>4. QED
        BY <4>2, <4>3
    <3>12. CASE governed /\ Moved(r, waiting("credential")) /\ UNCHANGED allowCache
      <4>1. CapabilityOf(waiting("credential").route) # "public"
        BY <3>1, <3>3, <3>9, <3>12
      <4>2. /\ GateOK /\ gate'[r] = waiting("credential")
            /\ \A q \in AuthzRequests : q # r => gate'[q] = gate[q]
        BY <1>2, <3>3, <3>9, <3>12, <4>1, MovedFacts DEF GateOK
      <4>3. GateInv'
        BY <2>1, <3>6, <3>7, <3>12, <4>2
      <4>4. \A q \in AuthzRequests : Told(q)
        BY <3>3, <3>9, <3>12, <4>2 DEF Told
      <4>5. QED
        BY <4>3, <4>4
    <3>13. CASE /\ ~open /\ ~governed /\ subject # NoSubject /\ Hit(key)
                /\ Moved(r, judged(TRUE)) /\ allowCache' = Touched(allowCache, key)
      <4>1. /\ GateOK /\ gate'[r] = judged(TRUE)
            /\ \A q \in AuthzRequests : q # r => gate'[q] = gate[q]
        BY <1>2, <3>8, <3>13, MovedFacts DEF GateOK
      <4>2. key \in Keys /\ told[key] < CacheTtl /\ Within(Touched(allowCache, key), told)
        BY <1>2, <3>4, <3>13, HitFacts
      <4>3. GateInv'
        BY <2>1, <3>6, <3>13, <4>1, <4>2
      <4>4. Told(r)
        <5>1. key = [subject |-> subject, capability |-> CapabilityOf(route)]
          BY DEF key, CacheKey
        <5>2. gate'[r].subject = subject /\ gate'[r].route = route /\ ~Qualified(route)
          BY <3>8, <3>13, <4>1 DEF governed
        <5>3. QED
          BY <4>2, <5>1, <5>2 DEF Told
      <4>5. \A q \in AuthzRequests : Told(q)
        BY <4>1, <4>4 DEF Told
      <4>6. QED
        BY <4>3, <4>5
    <3>14. CASE /\ ~open /\ ~governed /\ subject # NoSubject /\ ~Hit(key)
                /\ Moved(r, waiting("asking")) /\ allowCache' = Without(allowCache, key)
      <4>1. CapabilityOf(waiting("asking").route) # "public"
        BY <3>1, <3>4, <3>9, <3>14
      <4>2. /\ GateOK /\ gate'[r] = waiting("asking")
            /\ \A q \in AuthzRequests : q # r => gate'[q] = gate[q]
        BY <1>2, <3>4, <3>9, <3>14, <4>1, MovedFacts DEF GateOK
      <4>3. Within(allowCache', told)
        BY <3>7, <3>14, WithoutFacts
      <4>4. GateInv'
        BY <2>1, <3>6, <4>2, <4>3
      <4>5. \A q \in AuthzRequests : Told(q)
        BY <3>4, <3>9, <3>14, <4>2 DEF Told
      <4>6. QED
        BY <4>4, <4>5
    <3>15. QED
      BY <3>5, <3>10, <3>11, <3>12, <3>13, <3>14
  <2>3. ASSUME NEW r \in AuthzRequests, gate[r] \in Waits, Ruled(r, FALSE),
               UNCHANGED <<allowCache, credential, told>>
        PROVE  GateInv' /\ \A q \in AuthzRequests : Told(q)
    <3>1. /\ GateOK /\ gate'[r].allowed = FALSE
          /\ \A q \in AuthzRequests : q # r => gate'[q] = gate[q]
      BY <1>2, <2>3, RuledFacts
    <3>2. Within(allowCache', told)
      BY <1>2, <2>3 DEF GateInv
    <3>3. QED
      BY <2>1, <2>3, <3>1, <3>2
  <2>4. ASSUME NEW r \in AuthzRequests, gate[r] \in Waits, NEW w \in Waits, Moved(r, w),
               w.route = gate[r].route, UNCHANGED <<allowCache, credential, told>>
        PROVE  GateInv' /\ \A q \in AuthzRequests : Told(q)
    <3>1. CapabilityOf(w.route) # "public"
      BY <1>2, <2>4 DEF GateInv
    <3>2. /\ GateOK /\ gate'[r] = w
          /\ \A q \in AuthzRequests : q # r => gate'[q] = gate[q]
      BY <1>2, <2>4, <3>1, MovedFacts
    <3>3. Within(allowCache', told)
      BY <1>2, <2>4 DEF GateInv
    <3>4. w.at # "judged"
      BY <2>4, StillWaits
    <3>5. GateInv'
      BY <2>1, <2>4, <3>2, <3>3
    <3>6. \A q \in AuthzRequests : Told(q)
      BY <3>2, <3>4
    <3>7. QED
      BY <3>5, <3>6
  <2> HIDE DEF Told, GateOK
  <2>5. File \in [inode : Nat, version : Nat] /\ Unseen \in [inode : Nat, version : Nat]
    BY <1>2 DEF GateInv, File, Unseen
  <2>6. ASSUME NEW r \in AuthzRequests,
               SeeCredential(r) \/ OpenCredential(r) \/ ReadCredential(r)
        PROVE  GateInv' /\ \A q \in AuthzRequests : Told(q)
    <3>1. gate[r] \in Waits /\ UNCHANGED <<allowCache, credential, told>>
      BY <1>2, <2>6, WaitingFacts DEF SeeCredential, OpenCredential, ReadCredential
    <3>2. CASE Ruled(r, FALSE)
      BY <2>3, <3>1, <3>2
    <3>3. CASE Moved(r, [gate[r] EXCEPT !.file = File])
      <4>1. /\ [gate[r] EXCEPT !.file = File] \in Waits
            /\ [gate[r] EXCEPT !.file = File].route = gate[r].route
        BY <2>5, <3>1 DEF Waits
      <4>2. QED
        BY <2>4, <3>1, <3>3, <4>1
    <3>4. CASE Moved(r, [gate[r] EXCEPT !.at = "reading", !.file = File])
      <4>1. /\ [gate[r] EXCEPT !.at = "reading", !.file = File] \in Waits
            /\ [gate[r] EXCEPT !.at = "reading", !.file = File].route = gate[r].route
        BY <2>5, <3>1 DEF Waits
      <4>2. QED
        BY <2>4, <3>1, <3>4, <4>1
    <3>5. CASE Moved(r, [gate[r] EXCEPT !.at = "asking", !.timer = PdpTimeout, !.file = Unseen])
      <4>1. PdpTimeout \in Nat
        BY CacheTtlIsNat
      <4>2. /\ [gate[r] EXCEPT !.at = "asking", !.timer = PdpTimeout, !.file = Unseen] \in Waits
            /\ [gate[r] EXCEPT !.at = "asking", !.timer = PdpTimeout, !.file = Unseen].route
                 = gate[r].route
        BY <2>5, <3>1, <4>1 DEF Waits
      <4>3. QED
        BY <2>4, <3>1, <3>5, <4>2
    <3>6. QED
      BY <2>6, <3>2, <3>3, <3>4, <3>5 DEF SeeCredential, OpenCredential, ReadCredential
  <2>7. ASSUME NEW r \in AuthzRequests, Decide(r)
        PROVE  GateInv' /\ \A q \in AuthzRequests : Told(q)
    <3>1. gate[r] \in Waits /\ UNCHANGED <<allowCache, credential, told>>
      BY <1>2, <2>7, WaitingFacts DEF Decide
    <3>2. PICK answer \in {"allow", "deny", "fault"} : Moved(r, [gate[r] EXCEPT !.answer = answer])
      BY <2>7 DEF Decide
    <3>3. /\ [gate[r] EXCEPT !.answer = answer] \in Waits
          /\ [gate[r] EXCEPT !.answer = answer].route = gate[r].route
      BY <3>1 DEF Waits
    <3>4. QED
      BY <2>4, <3>1, <3>2, <3>3
  <2>8. ASSUME NEW r \in AuthzRequests, HeadArrives(r)
        PROVE  GateInv' /\ \A q \in AuthzRequests : Told(q)
    <3>1. gate[r] \in Waits /\ UNCHANGED <<allowCache, credential, told>>
      BY <1>2, <2>8, WaitingFacts DEF HeadArrives
    <3>2. /\ [gate[r] EXCEPT !.at = "body"] \in Waits
          /\ [gate[r] EXCEPT !.at = "body"].route = gate[r].route
      BY <3>1 DEF Waits
    <3>3. Ruled(r, FALSE) \/ Moved(r, [gate[r] EXCEPT !.at = "body"])
      BY <2>8 DEF HeadArrives
    <3>4. QED
      BY <2>3, <2>4, <3>1, <3>2, <3>3
  <2>9. ASSUME NEW r \in AuthzRequests, CallFails(r) \/ DecisionBreaks(r)
        PROVE  GateInv' /\ \A q \in AuthzRequests : Told(q)
    <3>1. /\ gate[r] \in Waits /\ Ruled(r, FALSE)
          /\ UNCHANGED <<allowCache, credential, told>>
      BY <1>2, <2>9, WaitingFacts DEF CallFails, DecisionBreaks
    <3>2. QED
      BY <2>3, <3>1
  <2>10. ASSUME NEW r \in AuthzRequests, DecisionArrives(r)
         PROVE  GateInv' /\ \A q \in AuthzRequests : Told(q)
    <3> DEFINE key == CacheKey(gate[r].subject, CapabilityOf(gate[r].route))
               allowed == gate[r].answer = "allow"
    <3>1. gate[r] \in Waits /\ key \in Keys /\ gate[r].at = "body" /\ Asked(r) = key
      BY <1>2, <2>10, WaitingFacts DEF DecisionArrives, Asked, CacheKey
    <3>2. /\ Ruled(r, allowed) /\ UNCHANGED credential
          /\ allowCache' \in {allowCache} \cup (IF allowed THEN {Put(allowCache, key)} ELSE {})
          /\ told' = IF allowed THEN [told EXCEPT ![key] = 0] ELSE told
      BY <2>10, <3>1 DEF DecisionArrives
    <3>3. /\ GateOK /\ gate'[r].allowed = allowed
          /\ \A q \in AuthzRequests : q # r => gate'[q] = gate[q]
      BY <1>2, <3>1, <3>2, RuledFacts DEF GateOK
    <3>4. \A q \in AuthzRequests : Told(q)
      BY <3>1, <3>3 DEF Told
    <3> HIDE DEF key, allowed
    <3>5. told' \in [Keys -> 0..CacheTtl] /\ Within(allowCache, told')
      <4>1. told \in [Keys -> 0..CacheTtl] /\ Within(allowCache, told) /\ CacheTtl \in Nat
        BY <1>2, CacheTtlIsNat DEF GateInv
      <4>2. told' \in [Keys -> 0..CacheTtl] /\ \A k \in Keys : told'[k] <= told[k]
        BY <3>1, <3>2, <4>1
      <4>3. ASSUME NEW i \in 1..Len(allowCache)
            PROVE  allowCache[i].left + told'[allowCache[i].key] <= CacheTtl
        <5>1. allowCache[i].left \in Nat /\ allowCache[i].key \in Keys
          <6>1. allowCache[i] \in Entry
            BY <4>1, ElementOfSeq DEF Within
          <6>2. QED
            BY <6>1 DEF Entry
        <5>2. allowCache[i].left + told[allowCache[i].key] <= CacheTtl
          BY <4>1 DEF Within
        <5>3. /\ told'[allowCache[i].key] <= told[allowCache[i].key]
              /\ told[allowCache[i].key] \in Nat /\ told'[allowCache[i].key] \in Nat
          BY <4>1, <4>2, <5>1
        <5>4. QED
          BY <4>1, <5>1, <5>2, <5>3
      <4>4. QED
        BY <4>1, <4>2, <4>3 DEF Within
    <3>6. Within(allowCache', told')
      <4>1. CASE allowed /\ allowCache' = Put(allowCache, key)
        <5>1. told'[key] = 0
          BY <1>2, <3>1, <3>2, <4>1 DEF GateInv
        <5>2. QED
          BY <3>1, <3>5, <4>1, <5>1, PutFacts
      <4>2. QED
        BY <3>2, <3>5, <4>1
    <3>7. GateInv'
      BY <1>2, <3>2, <3>3, <3>5, <3>6 DEF GateInv, GateOK
    <3>8. QED
      BY <3>4, <3>7
  <2>11. ASSUME NEW inPlace \in BOOLEAN, NEW approved \in BOOLEAN, RotateCredential(inPlace, approved)
         PROVE  GateInv' /\ \A q \in AuthzRequests : Told(q)
    <3>1. credential \in [inode : Nat, version : Nat, age : Nat, approved : BOOLEAN]
      BY <1>2 DEF GateInv
    <3>2. credential' \in [inode : Nat, version : Nat, age : Nat, approved : BOOLEAN]
      BY <2>11, <3>1 DEF RotateCredential
    <3>3. UNCHANGED <<allowCache, gate, told>>
      BY <2>11 DEF RotateCredential
    <3>4. QED
      BY <1>2, <3>2, <3>3 DEF GateInv, Told
  <2>12. ASSUME TimePasses
         PROVE  GateInv' /\ \A q \in AuthzRequests : Told(q)
    <3>1. told' \in [Keys -> 0..CacheTtl] /\ Within(allowCache', told')
      BY <1>2, <2>12, AgeFacts DEF TimePasses
    <3>2. credential' \in [inode : Nat, version : Nat, age : Nat, approved : BOOLEAN]
      <4>1. /\ credential \in [inode : Nat, version : Nat, age : Nat, approved : BOOLEAN]
            /\ CredentialLife \in Nat
        BY <1>2, CacheTtlIsNat DEF GateInv
      <4>2. More(credential.age, CredentialLife + 1) \in Nat
        BY <4>1 DEF More
      <4>3. credential' = [credential EXCEPT !.age = More(credential.age, CredentialLife + 1)]
        BY <2>12 DEF TimePasses
      <4>4. QED
        BY <4>1, <4>2, <4>3
    <3>3. ASSUME NEW q \in AuthzRequests
          PROVE  /\ gate'[q] \in [at : {"idle"}] \cup Waits \cup Judged
                 /\ gate'[q] \in Waits => CapabilityOf(gate'[q].route) # "public"
                 /\ gate'[q] = gate[q] \/ gate'[q].at # "judged"
      <4>1. gate'[q] = IF gate[q].at = "asking" THEN [gate[q] EXCEPT !.timer = Less(gate[q].timer)]
                       ELSE gate[q]
        BY <2>12 DEF TimePasses
      <4>2. CASE gate[q].at = "asking"
        <5>1. gate[q] \in Waits /\ CapabilityOf(gate[q].route) # "public"
          BY <1>2, <4>2, WaitingFacts
        <5>2. Less(gate[q].timer) \in Nat
          <6>1. gate[q].timer \in Nat
            BY <5>1 DEF Waits
          <6>2. QED
            BY <6>1 DEF Less
        <5>3. gate'[q] \in Waits /\ gate'[q].route = gate[q].route
          BY <4>1, <4>2, <5>1, <5>2 DEF Waits
        <5>4. QED
          BY <5>1, <5>3, StillWaits
      <4>3. CASE gate[q].at # "asking"
        BY <1>2, <4>1, <4>3 DEF GateInv
      <4>4. QED
        BY <4>2, <4>3
    <3>4. gate' = [q \in AuthzRequests |-> gate'[q]]
      BY <2>12 DEF TimePasses
    <3>5. gate' \in [AuthzRequests -> [at : {"idle"}] \cup Waits \cup Judged]
      BY <3>3, <3>4
    <3>6. GateInv'
      BY <3>1, <3>2, <3>3, <3>5 DEF GateInv
    <3>7. \A q \in AuthzRequests : Told(q)
      BY <3>3 DEF Told
    <3>8. QED
      BY <3>6, <3>7
  <2>13. QED
    BY <1>2, <2>2, <2>6, <2>7, <2>8, <2>9, <2>10, <2>11, <2>12 DEF AuthzNext
<1>3. ASSUME GateInv, UNCHANGED authzVars PROVE GateInv'
  BY <1>3 DEF GateInv, authzVars, Within, Entry
<1>4. ASSUME GateInv, [AuthzNext]_authzVars
      PROVE  GateInv' /\ [\A r \in AuthzRequests : Told(r)]_gate
  BY <1>2, <1>3, <1>4 DEF authzVars
<1>5. QED
  BY <1>1, <1>4, PTL DEF AuthzSpec, AllowIsTold

-----------------------------------------------------------------------------
(* The reload of the configuration *)

\* No file and no registry lifts a boundary, unless the file that is now in force does
\* without it: whatever the documents, the sections and their values.
THEOREM BoundariesStand == ReloadSpec => BoundaryStands
<1> DEFINE Inv == guards \in [Boundaries -> {"off", "available", "unavailable"}]
<1>1. ReloadInit => Inv
  BY DEF ReloadInit
<1>2. ASSUME Inv, [ReloadNext]_reloadVars
      PROVE  /\ Inv'
             /\ [\A b \in Boundaries :
                   guards[b] # "off" /\ guards'[b] = "off" => b \notin current'.enabled]_reloadVars
  <2>1. CASE UNCHANGED guards
    BY <1>2, <2>1
  <2>2. CASE Sighup /\ guards' = Rebuilt(file.document) /\ current' = file.document
    BY <2>2 DEF Rebuilt
  <2>3. CASE Sighup /\ guards' = Withheld(file.document) /\ current' = file.document
    <3>1. /\ guards' \in [Boundaries -> {"off", "available", "unavailable"}]
          /\ guards'["client"] = "off" =>
               "client" \notin file.document.enabled \/ guards["client"] = "off"
          /\ guards'["operator"] = "off" => guards["operator"] = "off"
      BY <1>2, <2>3 DEF Withheld, Boundaries
    <3>2. QED
      BY <2>3, <3>1 DEF Boundaries
  <2>4. QED
    BY <1>2, <2>1, <2>2, <2>3 DEF ReloadNext, reloadVars, Edit, RegistryChanges, Sighup
<1>3. QED
  BY <1>1, <1>2, PTL DEF ReloadSpec, BoundaryStands

-----------------------------------------------------------------------------
(* The event bus *)

BusInv ==
  /\ buffered \in Nat
  /\ emitted \in Nat
  /\ tail \in [Outputs -> Seq(Nat)]
  /\ DropsOnlyWhenBehind

\* For any outputs and any limit, through writes that fail and while the bus closes, the
\* counter that makes the bus drop an event is not ahead of the outputs: one of them is at
\* least that many events behind.
THEOREM CounterIsBehind == BusSpec => []DropsOnlyWhenBehind
<1>1. BusInit => BusInv
  BY DEF BusInit, BusInv, DropsOnlyWhenBehind, Backlog
<1>2. ASSUME BusInv, [BusNext]_busVars PROVE BusInv'
  <2>1. CASE UNCHANGED <<tail, buffered>> /\ emitted' \in Nat
    BY <1>2, <2>1 DEF BusInv, DropsOnlyWhenBehind, Backlog
  <2>2. CASE /\ emitted' = emitted + 1 /\ buffered' = buffered + 1
             /\ tail' = [o \in Outputs |-> Append(tail[o], emitted')]
    <3>1. emitted' \in Nat /\ buffered' \in Nat
      BY <1>2, <2>2 DEF BusInv
    <3>2. \A o \in Outputs : /\ Append(tail[o], emitted') \in Seq(Nat)
                             /\ Len(Append(tail[o], emitted')) = Len(tail[o]) + 1
      BY <1>2, <3>1, AppendProperties DEF BusInv
    <3>3. ASSUME Outputs # {} PROVE \E o \in Outputs : buffered' <= Len(tail'[o])
      <4>1. PICK o \in Outputs : buffered <= Len(tail[o]) /\ Len(tail[o]) \in Nat
        BY <1>2, <3>3, LenProperties DEF BusInv, DropsOnlyWhenBehind, Backlog
      <4>2. buffered' <= Len(tail'[o])
        BY <1>2, <2>2, <3>2, <4>1 DEF BusInv
      <4>3. QED
        BY <4>2
    <3>4. QED
      BY <2>2, <3>1, <3>2, <3>3 DEF BusInv, DropsOnlyWhenBehind, Backlog
  <2>3. ASSUME NEW o \in Outputs, NEW ok \in BOOLEAN, WriteSettles(o, ok)
        PROVE  BusInv'
    <3>1. /\ tail[o] \in Seq(Nat) /\ tail[o] # <<>> /\ buffered \in Nat /\ emitted' \in Nat
          /\ tail' = [tail EXCEPT ![o] = Tail(@)]
          /\ buffered' = IF buffered > 0 THEN buffered - 1 ELSE 0
      BY <1>2, <2>3 DEF BusInv, WriteSettles, GivenBack
    <3>2. Tail(tail[o]) \in Seq(Nat) /\ Len(Tail(tail[o])) = Len(tail[o]) - 1 /\ Len(tail[o]) \in Nat \ {0}
      BY <3>1, HeadTailProperties, LenProperties, EmptySeq
    <3>3. tail' \in [Outputs -> Seq(Nat)] /\ buffered' \in Nat
      BY <1>2, <3>1, <3>2 DEF BusInv
    <3>4. \E q \in Outputs : buffered' <= Len(tail'[q])
      <4>1. PICK q \in Outputs : buffered <= Len(tail[q]) /\ Len(tail[q]) \in Nat
        BY <1>2, <2>3, LenProperties DEF BusInv, DropsOnlyWhenBehind, Backlog
      <4>2. Len(tail'[q]) = IF q = o THEN Len(tail[q]) - 1 ELSE Len(tail[q])
        BY <1>2, <3>1, <3>2 DEF BusInv
      <4>3. buffered' <= Len(tail'[q])
        BY <3>1, <3>2, <4>1, <4>2
      <4>4. QED
        BY <4>3
    <3>5. QED
      BY <3>1, <3>3, <3>4 DEF BusInv, DropsOnlyWhenBehind, Backlog
  <2>4. CASE Emit
    <3>1. emitted' \in Nat
      BY <1>2, <2>4 DEF Emit, BusInv
    <3>2. QED
      BY <2>1, <2>2, <2>4, <3>1 DEF Emit
  <2>5. CASE StartClose \/ DrainEnds \/ OutputsClosed \/ UNCHANGED busVars
    BY <1>2, <2>1, <2>5 DEF StartClose, DrainEnds, OutputsClosed, busVars, BusInv
  <2>6. QED
    BY <1>2, <2>3, <2>4, <2>5 DEF BusNext
<1>3. BusInv => DropsOnlyWhenBehind
  BY DEF BusInv
<1>4. QED
  BY <1>1, <1>2, <1>3, PTL DEF BusSpec

-----------------------------------------------------------------------------
(* The front door *)

DoorInv ==
  /\ visit \in [Visits -> {"idle", "done"} \cup Awaits]
  /\ ActiveIsInFlight

Recorded == {"observe", "dispatch"}

LEMMA CountFacts ==
  ASSUME DoorInv
  PROVE  /\ IsFiniteSet(inFlight) /\ actives \in Nat
         /\ \A r : r \notin inFlight => Cardinality(inFlight \cup {r}) = actives + 1
         /\ \A r \in inFlight : /\ Cardinality(inFlight \ {r}) = actives - 1
                                /\ actives - 1 \in Nat
<1>1. IsFiniteSet(inFlight)
  BY FrontDoorAssumption, FS_Subset DEF DoorInv, ActiveIsInFlight
<1>2. actives = Cardinality(inFlight) /\ actives \in Nat
  BY <1>1, FS_CardinalityType DEF DoorInv, ActiveIsInFlight
<1>3. ASSUME NEW r, r \notin inFlight PROVE Cardinality(inFlight \cup {r}) = actives + 1
  BY <1>1, <1>2, <1>3, FS_AddElement
<1>4. ASSUME NEW r \in inFlight
      PROVE  Cardinality(inFlight \ {r}) = actives - 1 /\ actives - 1 \in Nat
  <2>1. Cardinality(inFlight \ {r}) = actives - 1 /\ IsFiniteSet(inFlight \ {r})
    BY <1>1, <1>2, FS_RemoveElement
  <2>2. QED
    BY <2>1, FS_CardinalityType
<1>5. QED
  BY <1>1, <1>2, <1>3, <1>4

\* A handler that moves on without passing the two ends of its record.
LEMMA BesideRecord ==
  ASSUME DoorInv, NEW r \in Visits, NEW from, NEW to \in {"idle", "done"} \cup Awaits,
         Moves(r, from, to), UNCHANGED <<inFlight, actives>>,
         visit[r] \in Recorded <=> to \in Recorded
  PROVE  DoorInv'
BY DEF DoorInv, ActiveIsInFlight, Moves, Recorded

\* The record is opened.
LEMMA OpenStep ==
  ASSUME DoorInv, NEW r \in Visits, Open(r)
  PROVE  DoorInv'
<1>1. PICK next \in Recorded : Moves(r, {"body"}, next)
  BY DEF Open, Recorded
<1>2. visit' \in [Visits -> {"idle", "done"} \cup Awaits]
  BY <1>1 DEF Moves, Recorded, DoorInv, Awaits
<1>3. inFlight' = inFlight \cup {r} /\ actives' = actives + 1
  BY DEF Open, RecordRequest
<1>4. r \notin inFlight /\ inFlight' = {s \in Visits : visit'[s] \in Recorded}
  BY <1>1, <1>3 DEF Moves, DoorInv, ActiveIsInFlight, Recorded
<1>5. actives' = Cardinality(inFlight')
  BY <1>3, <1>4, CountFacts
<1>6. QED
  BY <1>2, <1>4, <1>5 DEF DoorInv, ActiveIsInFlight, Recorded

\* The record is closed, however the handler ends.
LEMMA CloseStep ==
  ASSUME DoorInv, NEW r \in Visits, NEW energy, NEW again,
         Moves(r, {"dispatch"}, "done"), RecordResponse(r, energy, again)
  PROVE  DoorInv'
<1>1. visit' \in [Visits -> {"idle", "done"} \cup Awaits]
  BY DEF Moves, DoorInv, Awaits
<1>2. r \in inFlight /\ inFlight' = inFlight \ {r}
  BY DEF Moves, RecordResponse, DoorInv, ActiveIsInFlight
<1>3. inFlight' = {s \in Visits : visit'[s] \in Recorded}
  BY <1>2 DEF Moves, DoorInv, ActiveIsInFlight, Recorded
<1>4. actives' = actives - 1
  <2>1. actives \in Nat /\ actives - 1 \in Nat
    BY <1>2, CountFacts
  <2>2. actives' = IF actives > 1 THEN actives - 1 ELSE 0
    BY DEF RecordResponse, FirstCall
  <2>3. QED
    BY <2>1, <2>2
<1>5. actives' = Cardinality(inFlight')
  BY <1>2, <1>4, CountFacts
<1>6. QED
  BY <1>1, <1>3, <1>5 DEF DoorInv, ActiveIsInFlight, Recorded

\* However the handlers end, and in whichever order, the gauge, the map of the requests in
\* flight and the handlers with an open record agree, for any number of requests.
THEOREM GaugeIsExact == FrontDoorSpec => []ActiveIsInFlight
<1>1. FrontDoorInit => DoorInv
  <2>1. Cardinality({}) = 0
    BY FS_EmptySet
  <2>2. QED
    BY <2>1 DEF FrontDoorInit, DoorInv, ActiveIsInFlight
<1>2. ASSUME DoorInv, [FrontDoorNext]_frontDoorVars PROVE DoorInv'
  <2>1. CASE UNCHANGED <<visit, inFlight, actives>>
    BY <1>2, <2>1 DEF DoorInv, ActiveIsInFlight
  <2>2. ASSUME NEW r \in Visits, Refuse(r) \/ BodyBreaks(r) \/ TrimFails(r)
        PROVE  DoorInv'
    <3>1. PICK from \in {{"idle"}, {"authz", "identity", "body"}, {"body"}} : Moves(r, from, "done")
      BY <2>2 DEF Refuse, BodyBreaks, TrimFails
    <3>2. visit[r] \notin Recorded
      BY <3>1 DEF Moves, Recorded
    <3>3. UNCHANGED <<inFlight, actives>>
      BY <2>2 DEF Refuse, BodyBreaks, TrimFails, NoRecord
    <3>4. QED
      BY <1>2, <3>1, <3>2, <3>3, BesideRecord DEF Recorded
  <2>3. ASSUME NEW r \in Visits, Pass(r)
        PROVE  DoorInv'
    <3>1. PICK from \in {{"idle"}, {"authz"}, {"identity"}}, to \in {"authz", "identity", "body"} :
            Moves(r, from, to)
      BY <2>3 DEF Pass
    <3>2. visit[r] \notin Recorded /\ to \notin Recorded /\ to \in Awaits
      BY <3>1 DEF Moves, Recorded, Awaits
    <3>3. UNCHANGED <<inFlight, actives>>
      BY <2>3 DEF Pass, NoRecord
    <3>4. QED
      BY <1>2, <3>1, <3>2, <3>3, BesideRecord
  <2>4. ASSUME NEW r \in Visits, Observed(r)
        PROVE  DoorInv'
    <3>1. Moves(r, {"observe"}, "dispatch") /\ UNCHANGED <<inFlight, actives>>
      BY <2>4 DEF Observed, NoRecord
    <3>2. visit[r] \in Recorded /\ "dispatch" \in Recorded /\ "dispatch" \in Awaits
      BY <3>1 DEF Moves, Recorded, Awaits
    <3>3. QED
      BY <1>2, <3>1, <3>2, BesideRecord
  <2>5. ASSUME NEW r \in Visits, Answer(r) \/ SanitizeFails(r) \/ DispatchThrows(r)
        PROVE  DoorInv'
    <3>1. Moves(r, {"dispatch"}, "done") /\ \E energy, again \in BOOLEAN : RecordResponse(r, energy, again)
      BY <2>5 DEF Answer, SanitizeFails, DispatchThrows, ClosedFinally
    <3>2. QED
      BY <1>2, <3>1, CloseStep
  <2>6. ASSUME NEW r \in Visits, ClientLeaves(r) \/ Purge(r)
        PROVE  DoorInv'
    BY <2>1, <2>6 DEF ClientLeaves, Purge
  <2>7. CASE FlushTimer \/ Shutdown \/ ServerClosed \/ ForcedExit \/ UNCHANGED frontDoorVars
    BY <2>1, <2>7 DEF FlushTimer, Shutdown, ServerClosed, ForcedExit, frontDoorVars
  <2>8. QED
    BY <1>2, <2>2, <2>3, <2>4, <2>5, <2>6, <2>7, OpenStep DEF FrontDoorNext
<1>3. DoorInv => ActiveIsInFlight
  BY DEF DoorInv
<1>4. QED
  BY <1>1, <1>2, <1>3, PTL DEF FrontDoorSpec

-----------------------------------------------------------------------------
(* The hand-over of the listener *)

\* Where the handoff and the rollback have come: the old listener is stopped before its
\* work is drained, drained before the candidate is bound, and restored only when the
\* candidate is unbound again.
Stopped == {"drain", "drained", "bind", "active", "publish", "retire", "activated"}
Idle == {"bind", "active", "publish", "retire", "activated"}
NotBound == {"baseline", "stopAccepting", "drain", "drained", "bind", "restore", "restored", "record", "rolled_back"}

ActivationInv ==
  /\ prior \in [accepting : BOOLEAN, active : Nat]
  /\ at \in Stopped => ~ prior.accepting
  /\ at \in Idle => prior.active = 0
  /\ at \in NotBound => ~ candidate.bound
  /\ NoOverlap

\* The step after one that a list names once.
LEMMA StepAfterFacts ==
  ASSUME NEW steps, NEW i \in 1 .. Len(steps) - 1,
         \A j \in 1 .. Len(steps) - 1 : steps[j] = steps[i] => j = i
  PROVE  StepAfter(steps, steps[i]) = steps[i + 1]
<1>1. {steps[k + 1] : k \in {j \in 1 .. Len(steps) - 1 : steps[j] = steps[i]}} = {steps[i + 1]}
  OBVIOUS
<1>2. QED
  BY <1>1 DEF StepAfter

LEMMA Order ==
  /\ StepAfter(Handoff, "baseline") = "stopAccepting"
  /\ StepAfter(Handoff, "stopAccepting") = "drain"
  /\ StepAfter(Handoff, "drain") = "drained"
  /\ StepAfter(Handoff, "drained") = "bind"
  /\ StepAfter(Handoff, "bind") = "active"
  /\ StepAfter(Handoff, "active") = "publish"
  /\ StepAfter(Handoff, "publish") = "retire"
  /\ StepAfter(Rollback, "stop") = "restore"
  /\ StepAfter(Rollback, "restore") = "restored"
  /\ StepAfter(Rollback, "restored") = "record"
  /\ Rollback[1] = "stop"
<1>1. /\ Len(Handoff) = 8
      /\ \A i \in 1 .. 7 : StepAfter(Handoff, Handoff[i]) = Handoff[i + 1]
  <2>1. Len(Handoff) = 8
    BY DEF Handoff
  <2>2. \A i, j \in 1 .. 7 : Handoff[j] = Handoff[i] => j = i
    BY DEF Handoff
  <2>3. 1 .. Len(Handoff) - 1 = 1 .. 7
    BY <2>1
  <2>4. ASSUME NEW i \in 1 .. Len(Handoff) - 1
        PROVE  StepAfter(Handoff, Handoff[i]) = Handoff[i + 1]
    <3>1. \A j \in 1 .. Len(Handoff) - 1 : Handoff[j] = Handoff[i] => j = i
      BY <2>2, <2>3
    <3>2. QED
      BY <3>1, StepAfterFacts
  <2>5. QED
    BY <2>1, <2>3, <2>4
<1>2. /\ Len(Rollback) = 4
      /\ \A i \in 1 .. 3 : StepAfter(Rollback, Rollback[i]) = Rollback[i + 1]
  <2>1. Len(Rollback) = 4
    BY DEF Rollback
  <2>2. \A i, j \in 1 .. 3 : Rollback[j] = Rollback[i] => j = i
    BY DEF Rollback
  <2>3. 1 .. Len(Rollback) - 1 = 1 .. 3
    BY <2>1
  <2>4. ASSUME NEW i \in 1 .. Len(Rollback) - 1
        PROVE  StepAfter(Rollback, Rollback[i]) = Rollback[i + 1]
    <3>1. \A j \in 1 .. Len(Rollback) - 1 : Rollback[j] = Rollback[i] => j = i
      BY <2>2, <2>3
    <3>2. QED
      BY <3>1, StepAfterFacts
  <2>5. QED
    BY <2>1, <2>3, <2>4
<1>3. /\ Handoff[1] = "baseline" /\ Handoff[2] = "stopAccepting" /\ Handoff[3] = "drain"
      /\ Handoff[4] = "drained" /\ Handoff[5] = "bind" /\ Handoff[6] = "active"
      /\ Handoff[7] = "publish" /\ Handoff[8] = "retire"
  BY DEF Handoff
<1>4. Rollback[1] = "stop" /\ Rollback[2] = "restore" /\ Rollback[3] = "restored" /\ Rollback[4] = "record"
  BY DEF Rollback
<1>5. /\ \A i \in 1 .. 7 : StepAfter(Handoff, Handoff[i]) = Handoff[i + 1]
      /\ 1 \in 1 .. 7 /\ 2 \in 1 .. 7 /\ 3 \in 1 .. 7 /\ 4 \in 1 .. 7 /\ 5 \in 1 .. 7
      /\ 6 \in 1 .. 7 /\ 7 \in 1 .. 7
      /\ 1 + 1 = 2 /\ 2 + 1 = 3 /\ 3 + 1 = 4 /\ 4 + 1 = 5 /\ 5 + 1 = 6 /\ 6 + 1 = 7 /\ 7 + 1 = 8
  BY <1>1
<1>6. /\ StepAfter(Rollback, Rollback[1]) = Rollback[2]
      /\ StepAfter(Rollback, Rollback[2]) = Rollback[3]
      /\ StepAfter(Rollback, Rollback[3]) = Rollback[4]
  BY <1>2
<1>7. /\ StepAfter(Handoff, Handoff[1]) = Handoff[2] /\ StepAfter(Handoff, Handoff[2]) = Handoff[3]
      /\ StepAfter(Handoff, Handoff[3]) = Handoff[4] /\ StepAfter(Handoff, Handoff[4]) = Handoff[5]
      /\ StepAfter(Handoff, Handoff[5]) = Handoff[6] /\ StepAfter(Handoff, Handoff[6]) = Handoff[7]
      /\ StepAfter(Handoff, Handoff[7]) = Handoff[8]
  BY <1>5
<1>8. QED
  BY <1>3, <1>4, <1>6, <1>7

\* No failure of the handoff or of its rollback, at any step, leaves the candidate bound
\* while the old listener accepts or still works.
THEOREM NeverOverlap == ActivationSpec => []NoOverlap
<1>1. ActivationInit => ActivationInv
  <2>1. 0 .. MaxActive \subseteq Nat
    BY ActivationAssumption
  <2>2. SUFFICES ASSUME ActivationInit PROVE ActivationInv
    OBVIOUS
  <2>3. prior \in [accepting : BOOLEAN, active : Nat] /\ at = "baseline" /\ ~ candidate.bound
    BY <2>1, <2>2 DEF ActivationInit, Unbound
  <2>4. QED
    BY <2>3 DEF ActivationInv, NoOverlap, Stopped, Idle, NotBound
<1>2. ASSUME ActivationInv, [ActivationNext]_activationVars PROVE ActivationInv'
  <2> USE DEF ActivationInv, NoOverlap, Stopped, Idle, NotBound
  <2>1. CASE UNCHANGED activationVars
    BY <1>2, <2>1 DEF activationVars
  <2>2. CASE Observe
    BY <1>2, <2>2, Order DEF Observe, Resolves, Rejects
  <2>3. CASE StopAccepting
    BY <1>2, <2>3, Order DEF StopAccepting, Resolves, Rejects
  <2>4. CASE Drain
    BY <1>2, <2>4, Order DEF Drain, Resolves, Rejects
  <2>5. CASE Bind
    BY <1>2, <2>5, Order DEF Bind, Resolves, Rejects
  <2>6. CASE Publish
    BY <1>2, <2>6, Order DEF Publish, Resolves, Rejects
  <2>7. CASE Retire
    BY <1>2, <2>7, Order DEF Retire, Rejects
  <2>8. CASE StopCandidate
    BY <1>2, <2>8, Order DEF StopCandidate, Succeeds, Unbound
  <2>9. CASE Restore
    BY <1>2, <2>9, Order DEF Restore, Succeeds
  <2>10. CASE Record
    BY <1>2, <2>10, Order DEF Record, Succeeds
  <2>11. CASE RollbackBreaks
    BY <1>2, <2>11 DEF RollbackBreaks
  <2>12. CASE Serve
    <3>1. PICK serving \in 0 .. MaxActive :
            /\ serving > prior.active => prior.accepting
            /\ serving # prior.active
            /\ prior' = [prior EXCEPT !.active = serving]
      BY <2>12 DEF Serve
    <3>2. serving \in Nat /\ UNCHANGED <<at, candidate>>
      BY <2>12, <3>1, ActivationAssumption DEF Serve
    <3>3. prior'.accepting = prior.accepting /\ prior'.active = serving /\ prior' \in [accepting : BOOLEAN, active : Nat]
      BY <1>2, <3>1, <3>2
    <3>4. prior.active = 0 /\ ~ prior.accepting => FALSE
      BY <1>2, <3>1, <3>2
    <3>5. QED
      BY <1>2, <3>2, <3>3, <3>4
  <2>13. QED
    BY <1>2, <2>1, <2>2, <2>3, <2>4, <2>5, <2>6, <2>7, <2>8, <2>9, <2>10, <2>11, <2>12 DEF ActivationNext
<1>3. ActivationInv => NoOverlap
  BY DEF ActivationInv
<1>4. QED
  BY <1>1, <1>2, <1>3, PTL DEF ActivationSpec

-----------------------------------------------------------------------------
(* What the outputs of the events have written *)

\* What waits for the socket comes after all that went to one, what is collected after
\* the batch under way, and nothing waits while a connection is up.
FramesInv ==
  /\ hooked \in Nat
  /\ InTurn(handed, pending, hooked)
  /\ InTurn(batch, collected, hooked)
  /\ link = "up" => pending = <<>>

\* The lines that the archive of a second holds.
Kept(s) == IF archives[s] = Missing THEN <<>> ELSE archives[s]

\* Archive after archive, the active file, the buffer: no two of them overlap, and no
\* archive is named after a second to come.  What the tasks are about is of no matter.
TrailInv ==
  /\ written \in Nat
  /\ second \in Seconds
  /\ archives \in [Seconds -> Seq(Nat)]
  /\ InTurn(active, buffer, written)
  /\ \A s \in Seconds : InTurn(Kept(s), active, written) /\ InTurn(Kept(s), buffer, written)
  /\ \A s, t \in Seconds : s < t => InTurn(Kept(s), Kept(t), written)
  /\ \A s \in Seconds : s > second => archives[s] = Missing

LEMMA NothingInTurn == \A n \in Nat : InTurn(<<>>, <<>>, n)
BY DEF InTurn, Rises, Before, UpTo

LEMMA InTurnIncreases ==
  ASSUME NEW n \in Nat, NEW p, NEW q, InTurn(p, q, n)
  PROVE  Increasing(p \o q)
<1>1. p \o q \in Seq(Nat) /\ Rises(p \o q)
  BY TwoAreOne
<1>2. Len(p \o q) \in Nat
  BY <1>1, LenProperties
<1>3. \A i \in 1 .. Len(p \o q) - 1 : /\ i \in 1 .. Len(p \o q) /\ i + 1 \in 1 .. Len(p \o q)
                                     /\ i < i + 1
  BY <1>2
<1>4. QED
  BY <1>1, <1>3 DEF Rises, Increasing

LEMMA FramesStart == SiemInit => FramesInv
BY NothingInTurn DEF SiemInit, FramesInv

\* A line that is full lets its oldest go.
LEMMA OldestMakesRoom ==
  ASSUME NEW n \in Nat, NEW p, NEW q, InTurn(p, q, n)
  PROVE  InTurn(p, IF Len(q) >= MaxPending THEN Tail(q) ELSE q, n)
<1>1. Len(q) >= MaxPending => q # <<>>
  BY SiemAssumption
<1>2. QED
  BY <1>1, OldestGoes

\* An event that siemHook() gives to the syslog output.
LEMMA SyslogStep ==
  ASSUME FramesInv, SyslogWrite(hooked + 1), hooked' = hooked + 1
  PROVE  InTurn(handed, pending, hooked)' /\ (link = "up" => pending = <<>>)'
<1>1. InTurn(handed, pending, hooked + 1)
  BY InTurnOrNothing DEF FramesInv
<1>2. CASE ended # "no"
  BY <1>1, <1>2 DEF SyslogWrite, syslogVars, FramesInv
<1>3. CASE ended = "no" /\ link = "up"
  <2>1. handed' = Append(handed, hooked + 1) /\ pending' = pending /\ link' = link /\ pending = <<>>
    BY <1>3 DEF SyslogWrite, FramesInv
  <2>2. InTurn(<<>>, handed, hooked) /\ hooked \in Nat
    BY InTurnOrNothing DEF FramesInv
  <2>3. InTurn(<<>>, Append(handed, hooked + 1), hooked + 1)
    BY <2>2, NewestJoins
  <2>4. InTurn(Append(handed, hooked + 1), <<>>, hooked + 1)
    BY <2>2, <2>3, InTurnOrNothing
  <2>5. QED
    BY <2>1, <2>4
<1>4. CASE ended = "no" /\ link # "up"
  <2>1. link' = "dialling" /\ handed' = handed /\ pending' = Enqueued(hooked + 1)
    BY <1>4 DEF SyslogWrite
  <2>2. InTurn(handed, IF Len(pending) >= MaxPending THEN Tail(pending) ELSE pending, hooked)
    BY OldestMakesRoom DEF FramesInv
  <2>3. InTurn(handed, Enqueued(hooked + 1), hooked + 1)
    BY <2>2, NewestJoins DEF FramesInv, Enqueued
  <2>4. QED
    BY <2>1, <2>3
<1>5. QED
  BY <1>2, <1>3, <1>4

\* An event that siemHook() gives to the Elasticsearch output.
LEMMA BulkStep ==
  ASSUME FramesInv, BulkWrite(hooked + 1), hooked' = hooked + 1
  PROVE  InTurn(batch, collected, hooked)'
<1>1. CASE stopped # "no"
  <2>1. InTurn(batch, collected, hooked + 1)
    BY InTurnOrNothing DEF FramesInv
  <2>2. QED
    BY <1>1, <2>1 DEF BulkWrite, bulkVars
<1>2. CASE stopped = "no"
  <2>1. InTurn(batch, IF Len(collected) >= MaxPending THEN Tail(collected) ELSE collected, hooked)
    BY OldestMakesRoom DEF FramesInv
  <2>2. InTurn(batch, Append(IF Len(collected) >= MaxPending THEN Tail(collected) ELSE collected, hooked + 1),
               hooked + 1)
    BY <2>1, NewestJoins DEF FramesInv
  <2>3. QED
    BY <1>2, <2>2 DEF BulkWrite
<1>3. QED
  BY <1>1, <1>2

LEMMA FramesStep ==
  ASSUME FramesInv, SiemNext
  PROVE  FramesInv'
<1>0. hooked \in Nat /\ InTurn(handed, pending, hooked) /\ InTurn(batch, collected, hooked)
  BY DEF FramesInv
<1>1. CASE SiemHook
  <2>1. hooked' = hooked + 1 /\ SyslogWrite(hooked + 1) /\ BulkWrite(hooked + 1)
    BY <1>1 DEF SiemHook
  <2>2. QED
    BY <1>0, <2>1, SyslogStep, BulkStep DEF FramesInv
<1>2. CASE Connects
  <2>1. pending' = <<>> /\ handed' = handed \o pending /\ UNCHANGED <<hooked, batch, collected>>
    BY <1>2 DEF Connects, PendingGoes, bulkVars
  <2>2. InTurn(handed, <<>>, hooked) /\ InTurn(pending, <<>>, hooked)
    BY <1>0, InTurnOrNothing
  <2>3. InTurn(handed \o pending, <<>>, hooked)
    BY <1>0, <2>2, TwoAreOne
  <2>4. QED
    BY <1>0, <2>1, <2>3 DEF FramesInv
<1>3. CASE LinkLost
  BY <1>0, <1>3 DEF FramesInv, LinkLost, bulkVars
<1>4. CASE SyslogFlush
  BY <1>0, <1>4 DEF FramesInv, SyslogFlush, bulkVars
<1>5. CASE SyslogClose
  BY <1>5 DEF FramesInv, SyslogClose, bulkVars
<1>6. CASE SyslogEnded
  BY <1>0, <1>6 DEF FramesInv, SyslogEnded, bulkVars
<1>7. CASE FlushDue
  BY <1>7 DEF FramesInv, FlushDue, syslogVars
<1>8. CASE ShipStarts
  <2> DEFINE k == IF Len(collected) < BatchSize THEN Len(collected) ELSE BatchSize
  <2>1. /\ batch = <<>> /\ batch' = SubSeq(collected, 1, k)
        /\ collected' = SubSeq(collected, Len(batch') + 1, Len(collected))
        /\ UNCHANGED <<hooked, link, pending, handed>>
    BY <1>8 DEF ShipStarts, syslogVars
  <2>2. Len(collected) \in Nat /\ BatchSize \in Nat
    BY <1>0, LenProperties, SiemAssumption DEF InTurn
  <2>3. k \in 0 .. Len(collected)
    BY <2>2
  <2> HIDE DEF k
  <2>4. InTurn(<<>>, collected, hooked)
    BY <1>0, <2>1
  <2>5. /\ Len(SubSeq(collected, 1, k)) = k
        /\ InTurn(SubSeq(collected, 1, k), SubSeq(collected, k + 1, Len(collected)), hooked)
    BY <1>0, <2>3, <2>4, OneIsTwo
  <2>6. InTurn(batch', collected', hooked')
    BY <2>1, <2>5
  <2>7. QED
    BY <1>0, <2>1, <2>6 DEF FramesInv
<1>9. CASE ShipEnds
  <2>1. InTurn(<<>>, collected, hooked)
    BY <1>0, InTurnOrNothing
  <2>2. QED
    BY <1>9, <2>1 DEF FramesInv, ShipEnds, syslogVars
<1>10. CASE BulkClose
  BY <1>10 DEF FramesInv, BulkClose, syslogVars
<1>11. CASE CloseGoesOn
  BY <1>11 DEF FramesInv, CloseGoesOn, syslogVars
<1>12. QED
  BY <1>1, <1>2, <1>3, <1>4, <1>5, <1>6, <1>7, <1>8, <1>9, <1>10, <1>11 DEF SiemNext

LEMMA TrailStart == FileInit => TrailInv
<1> SUFFICES ASSUME FileInit PROVE TrailInv
  OBVIOUS
<1>1. /\ written = 0 /\ second = 1 /\ active = <<>> /\ buffer = <<>>
      /\ archives = [s \in Seconds |-> Missing]
  BY DEF FileInit
<1>2. 1 \in Seconds /\ Missing \in Seq(Nat)
  BY FileAssumption DEF Seconds, Missing
<1>3. archives \in [Seconds -> Seq(Nat)] /\ \A s \in Seconds : archives[s] = Missing /\ Kept(s) = <<>>
  BY <1>1, <1>2 DEF Kept
<1>4. QED
  BY <1>1, <1>2, <1>3, NothingInTurn DEF TrailInv

\* The rotation: the active file becomes the archive of the second, and some archives go.
LEMMA RenameStep ==
  ASSUME TrailInv, Rename
  PROVE  TrailInv'
<1>1. PICK files \in {archives, [archives EXCEPT ![second] = active]}, deleted \in SUBSET Seconds :
        /\ archives' = [s \in Seconds |-> IF s \in deleted THEN Missing ELSE files[s]]
        /\ active' = IF files = archives THEN active ELSE <<>>
  <2>1. \A files : Excess(files) \in SUBSET Seconds
    BY DEF Excess
  <2>2. QED
    BY <2>1 DEF Rename
<1>2. /\ UNCHANGED <<written, buffer, second>> /\ written \in Nat /\ second \in Seconds
      /\ archives \in [Seconds -> Seq(Nat)] /\ Missing \in Seq(Nat) /\ InTurn(active, buffer, written)
      /\ \A s \in Seconds : InTurn(Kept(s), active, written) /\ InTurn(Kept(s), buffer, written)
      /\ \A s, t \in Seconds : s < t => InTurn(Kept(s), Kept(t), written)
      /\ \A s \in Seconds : s > second => archives[s] = Missing
  BY DEF Rename, TrailInv, Missing
<1>3. active \in Seq(Nat)
  BY <1>2 DEF InTurn
<1>4. CASE files = archives
  <2>1. active' = active /\ archives' = [s \in Seconds |-> IF s \in deleted THEN Missing ELSE archives[s]]
    BY <1>1, <1>4
  <2>2. archives' \in [Seconds -> Seq(Nat)]
    BY <1>2, <2>1
  <2>3. \A s \in Seconds : Kept(s)' = Kept(s) \/ Kept(s)' = <<>>
    BY <2>1 DEF Kept
  <2>4. \A s \in Seconds : InTurn(Kept(s)', active, written) /\ InTurn(Kept(s)', buffer, written)
    BY <1>2, <2>3, InTurnOrNothing
  <2>5. \A s, t \in Seconds : s < t => InTurn(Kept(s)', Kept(t)', written)
    BY <1>2, <2>3, InTurnOrNothing, NothingInTurn
  <2>6. \A s \in Seconds : s > second => archives'[s] = Missing
    BY <1>2, <2>1
  <2>7. QED
    BY <1>2, <2>1, <2>2, <2>4, <2>5, <2>6 DEF TrailInv
<1>5. CASE files # archives
  <2>1. /\ active' = <<>>
        /\ archives' = [s \in Seconds |->
             IF s \in deleted THEN Missing ELSE IF s = second THEN active ELSE archives[s]]
    <3>1. files = [archives EXCEPT ![second] = active]
      BY <1>1, <1>5
    <3>2. \A s \in Seconds : files[s] = IF s = second THEN active ELSE archives[s]
      BY <1>2, <3>1
    <3>3. QED
      BY <1>1, <1>5, <3>2
  <2>2. archives' \in [Seconds -> Seq(Nat)]
    BY <1>2, <1>3, <2>1
  <2>3. \A s \in Seconds : \/ Kept(s)' = <<>>
                           \/ s = second /\ Kept(s)' = active
                           \/ s # second /\ Kept(s)' = Kept(s)
    BY <2>1 DEF Kept
  <2>4. \A s \in Seconds : InTurn(Kept(s)', <<>>, written) /\ InTurn(Kept(s)', buffer, written)
    BY <1>2, <2>3, InTurnOrNothing, NothingInTurn
  <2>5. ASSUME NEW s \in Seconds, NEW t \in Seconds, s < t
        PROVE  InTurn(Kept(s)', Kept(t)', written)
    <3>1. InTurn(<<>>, Kept(t)', written) /\ InTurn(Kept(s)', <<>>, written)
      BY <1>2, <2>3, <2>4, InTurnOrNothing
    <3>2. CASE t = second
      <4>1. s # second
        BY <2>5, <3>2 DEF Seconds
      <4>2. QED
        BY <1>2, <2>3, <3>1, <3>2, <4>1
    <3>3. CASE s = second
      <4>1. t # second /\ t > second
        BY <2>5, <3>3 DEF Seconds
      <4>2. Kept(t) = <<>>
        BY <1>2, <4>1 DEF Kept
      <4>3. QED
        BY <2>3, <3>1, <4>1, <4>2
    <3>4. CASE s # second /\ t # second
      BY <1>2, <2>3, <2>5, <3>1, <3>4
    <3>5. QED
      BY <3>2, <3>3, <3>4
  <2>6. \A s \in Seconds : s > second => archives'[s] = Missing
    <3>1. \A s \in Seconds : s > second => s # second
      BY <1>2 DEF Seconds
    <3>2. QED
      BY <1>2, <2>1, <3>1
  <2>7. InTurn(<<>>, buffer, written)
    BY <1>2, InTurnOrNothing
  <2>8. QED
    BY <1>2, <2>1, <2>2, <2>4, <2>5, <2>6, <2>7 DEF TrailInv
<1>6. QED
  BY <1>4, <1>5

LEMMA TrailStep ==
  ASSUME TrailInv, FileNext
  PROVE  TrailInv'
<1> DEFINE lines == <<written, buffer, active, archives, second>>
<1>0. /\ written \in Nat /\ second \in Seconds /\ archives \in [Seconds -> Seq(Nat)]
      /\ InTurn(active, buffer, written)
      /\ \A s \in Seconds : InTurn(Kept(s), active, written) /\ InTurn(Kept(s), buffer, written)
      /\ \A s, t \in Seconds : s < t => InTurn(Kept(s), Kept(t), written)
      /\ \A s \in Seconds : s > second => archives[s] = Missing
  BY DEF TrailInv
<1>1. ASSUME UNCHANGED lines
      PROVE  TrailInv'
  BY <1>0, <1>1 DEF TrailInv, Kept
<1>2. CASE WriteLine
  <2>1. /\ written' = written + 1 /\ buffer' = Append(buffer, written + 1)
        /\ UNCHANGED <<active, archives, second>>
    BY <1>2 DEF WriteLine
  <2>2. InTurn(active, buffer', written')
    BY <1>0, <2>1, NewestJoins
  <2>3. \A s \in Seconds : InTurn(Kept(s), active, written') /\ InTurn(Kept(s), buffer', written')
    BY <1>0, <2>1, NewestJoins, InTurnOrNothing
  <2>4. \A s, t \in Seconds : s < t => InTurn(Kept(s), Kept(t), written')
    BY <1>0, <2>1, InTurnOrNothing
  <2>5. \A s \in Seconds : Kept(s)' = Kept(s)
    BY <2>1 DEF Kept
  <2>6. written' \in Nat
    BY <1>0, <2>1
  <2>7. QED
    BY <1>0, <2>1, <2>2, <2>3, <2>4, <2>5, <2>6 DEF TrailInv
<1>3. CASE WriteChunk
  <2>1. /\ buffer' = <<>> /\ active' \in {active, active \o buffer}
        /\ UNCHANGED <<written, archives, second>>
    BY <1>3 DEF WriteChunk, LeftInBuffer
  <2>2. InTurn(active', <<>>, written)
    BY <1>0, <2>1, TwoAreOne, InTurnOrNothing
  <2>3. \A s \in Seconds : InTurn(Kept(s), active', written) /\ InTurn(Kept(s), <<>>, written)
    BY <1>0, <2>1, TwoAreOne, InTurnOrNothing
  <2>4. \A s \in Seconds : Kept(s)' = Kept(s)
    BY <2>1 DEF Kept
  <2>5. QED
    BY <1>0, <2>1, <2>2, <2>3, <2>4 DEF TrailInv
<1>4. CASE SecondPasses
  <2>1. second < MaxSeconds /\ second' = second + 1 /\ UNCHANGED <<written, buffer, active, archives>>
    BY <1>4 DEF SecondPasses
  <2>2. second' \in Seconds /\ \A s \in Seconds : s > second' => s > second
    BY <1>0, <2>1, FileAssumption DEF Seconds
  <2>3. \A s \in Seconds : Kept(s)' = Kept(s)
    BY <2>1 DEF Kept
  <2>4. QED
    BY <1>0, <2>1, <2>2, <2>3 DEF TrailInv
<1>5. CASE FlushBuffer \/ CloseOutput \/ TaskStarts \/ OpenFile
  BY <1>1, <1>5 DEF FlushBuffer, CloseOutput, TaskStarts, OpenFile
<1>6. CASE ChunkWritten \/ CloseFile \/ Reopen
  BY <1>1, <1>6 DEF ChunkWritten, CloseFile, Reopen
<1>7. CASE Rename
  BY <1>7, RenameStep
<1>8. QED
  BY <1>2, <1>3, <1>4, <1>5, <1>6, <1>7 DEF FileNext

\* Lines that do not overlap read in order, one file after the other.
LEMMA TrailReads == TrailInv => TrailInOrder
<1> SUFFICES ASSUME TrailInv PROVE TrailInOrder
  OBVIOUS
<1> DEFINE seqs == [s \in Seconds |-> IF archives[s] = Missing THEN <<>> ELSE archives[s]]
<1>1. /\ written \in Nat /\ InTurn(active, buffer, written)
      /\ \A s \in Seconds : InTurn(Kept(s), active, written) /\ InTurn(Kept(s), buffer, written)
      /\ \A s, t \in Seconds : s < t => InTurn(Kept(s), Kept(t), written)
  BY DEF TrailInv
<1>2. \A s \in Seconds : seqs[s] = Kept(s) /\ seqs[s] \in Seq(Nat)
  BY <1>1 DEF Kept, InTurn
<1>3. MaxSeconds \in Nat \ {0} /\ Seconds = 1 .. MaxSeconds
  BY FileAssumption DEF Seconds
<1>4. seqs \in Seq(Seq(Nat)) /\ Len(seqs) = MaxSeconds
  <2>1. seqs \in [1 .. MaxSeconds -> Seq(Nat)]
    BY <1>2, <1>3
  <2> HIDE DEF seqs
  <2>2. QED
    BY <1>3, <2>1, SeqDef, LenProperties
<1>5. OnDisk = FlattenSeq(seqs) \o active
  BY DEF OnDisk
<1> HIDE DEF seqs
<1>6. \A i, j \in 1 .. Len(seqs) : i < j => InTurn(seqs[i], seqs[j], written)
  BY <1>1, <1>2, <1>3, <1>4
<1>7. /\ \A i \in 1 .. Len(seqs) : InTurn(seqs[i], active, written)
      /\ \A i \in 1 .. Len(seqs) : InTurn(seqs[i], buffer, written)
  BY <1>1, <1>2, <1>3, <1>4
<1>8. InTurn(FlattenSeq(seqs), active, written) /\ InTurn(FlattenSeq(seqs), buffer, written)
  BY <1>1, <1>3, <1>4, <1>6, <1>7, FlattenInTurn
<1>9. InTurn(OnDisk, buffer, written)
  BY <1>1, <1>5, <1>8, TwoAreOne
<1>10. QED
  BY <1>1, <1>9, InTurnIncreases DEF TrailInOrder

\* For any sizes of the buffers, the batches and the files, however often connections are
\* lost, batches are given up and rotations begin within rotations: what is in the files,
\* at the collector and in the bulk requests is in the order of the events, none twice.
THEOREM TrailsAreInOrder == SiemSpec /\ FileSpec => []EventsInOrder
<1>1. FramesInv /\ UNCHANGED siemVars => FramesInv'
  BY DEF FramesInv, siemVars
<1>2. TrailInv /\ UNCHANGED fileVars => TrailInv'
  BY DEF TrailInv, Kept, fileVars
<1>3. FramesInv => FramesInOrder
  BY InTurnIncreases DEF FramesInv, FramesInOrder
<1>4. FramesInv /\ TrailInv => EventsInOrder
  BY <1>3, TrailReads DEF EventsInOrder
<1>5. FramesInv /\ [SiemNext]_siemVars => FramesInv'
  BY <1>1, FramesStep
<1>6. TrailInv /\ [FileNext]_fileVars => TrailInv'
  BY <1>2, TrailStep
<1>7. QED
  BY FramesStart, TrailStart, <1>4, <1>5, <1>6, PTL DEF SiemSpec, FileSpec

=============================================================================
