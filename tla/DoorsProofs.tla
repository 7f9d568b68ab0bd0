----------------------------- MODULE DoorsProofs -----------------------------
(***************************************************************************)
(* Proofs about what takes a door or a model out of rotation and lets it   *)
(* back in:                                                                *)
(*   BackendHealth, for every set of overlapping requests, every length of *)
(*     the window, every pair of rates and every threshold;                *)
(*   ModelClaim, for every number of backends, every choice of the gated   *)
(*     ones, every set of requests and every threshold;                    *)
(*   CapacityProbe, for every set of models, every list of exact targets,  *)
(*     and every set of ticks and requests.                                *)
(***************************************************************************)
EXTENDS BackendHealth, ModelClaim, CapacityProbe, LineLemmas, FiniteSetTheorems

-----------------------------------------------------------------------------
(* BackendHealth *)

\* The run of failures that _consecutiveFailures counts is the newest samples of the
\* ring, as far as the ring reaches back.
RunExact ==
  HealthThreshold <= HealthWindow =>
    /\ failures <= Len(ring.samples)
    /\ \A n \in 0 .. failures - 1 : ring.samples[Back(ring, n)] # "ok"
    /\ failures < HealthThreshold /\ failures < Len(ring.samples) =>
         ring.samples[Back(ring, failures)] = "ok"

\* The quarantine is the run that reached the threshold.
QuarantineIsRun == quarantined <=> HealthThreshold > 0 /\ failures = HealthThreshold

HealthInv == HealthTypeOK /\ ErrorsExact /\ StatusEarned /\ RunExact /\ QuarantineIsRun

\* A ring of the code: its counter is right, and its head moves only while it is full.
Rings ==
  {r \in [samples : Seq(Samples), head : 0 .. HealthWindow - 1, errors : 0 .. HealthWindow] :
     /\ Len(r.samples) <= HealthWindow
     /\ r.head # 0 => Len(r.samples) = HealthWindow
     /\ r.errors = Cardinality(Failed(r.samples))}

-----------------------------------------------------------------------------
(* The ring and its counter *)

LEMMA FailuresFinite ==
  ASSUME NEW s \in Seq(Samples)
  PROVE  /\ IsFiniteSet(Failed(s))
         /\ Cardinality(Failed(s)) \in 0 .. Len(s)
<1>1. Len(s) \in Nat /\ DOMAIN s = 1 .. Len(s)
  BY LenProperties
<1>2. IsFiniteSet(1 .. Len(s)) /\ Cardinality(1 .. Len(s)) = Len(s)
  <2>1. /\ IsFiniteSet(1 .. Len(s))
        /\ Cardinality(1 .. Len(s)) = IF 1 > Len(s) THEN 0 ELSE Len(s) - 1 + 1
    BY <1>1, FS_Interval
  <2>2. QED
    BY <1>1, <2>1
<1>3. Failed(s) \in SUBSET (1 .. Len(s))
  BY <1>1 DEF Failed
<1>4. IsFiniteSet(Failed(s)) /\ Cardinality(Failed(s)) <= Len(s)
  BY <1>2, <1>3, FS_Subset
<1>5. QED
  BY <1>1, <1>4, FS_CardinalityType

\* A sample that is added is counted when it is a failure.
LEMMA AppendCounted ==
  ASSUME NEW s \in Seq(Samples), NEW x \in Samples
  PROVE  Cardinality(Failed(Append(s, x))) = Cardinality(Failed(s)) + Cost(x)
<1>1. /\ Len(s) \in Nat /\ DOMAIN s = 1 .. Len(s)
      /\ Append(s, x) \in Seq(Samples)
      /\ Len(Append(s, x)) = Len(s) + 1
      /\ \A i \in 1 .. Len(s) : Append(s, x)[i] = s[i]
      /\ Append(s, x)[Len(s) + 1] = x
  BY LenProperties, AppendProperties
<1>2. DOMAIN Append(s, x) = 1 .. Len(s) + 1
  BY <1>1, LenProperties
<1>3. IsFiniteSet(Failed(s)) /\ Cardinality(Failed(s)) \in Nat
  BY <1>1, FailuresFinite
<1>4. Len(s) + 1 \notin Failed(s)
  BY <1>1 DEF Failed
<1>5. CASE x = "ok"
  <2>1. Failed(Append(s, x)) = Failed(s) /\ Cost(x) = 0
    BY <1>1, <1>2, <1>5 DEF Failed, Cost
  <2>2. QED
    BY <2>1, <1>3
<1>6. CASE x # "ok"
  <2>1. Failed(Append(s, x)) = Failed(s) \cup {Len(s) + 1} /\ Cost(x) = 1
    BY <1>1, <1>2, <1>6 DEF Failed, Cost
  <2>2. QED
    BY <2>1, <1>3, <1>4, FS_AddElement
<1>7. QED
  BY <1>5, <1>6

\* A sample that is overwritten is no longer counted, the one in its place is.
LEMMA OverwriteCounted ==
  ASSUME NEW s \in Seq(Samples), NEW i \in 1 .. Len(s), NEW x \in Samples
  PROVE  /\ [s EXCEPT ![i] = x] \in Seq(Samples)
         /\ Len([s EXCEPT ![i] = x]) = Len(s)
         /\ Cardinality(Failed([s EXCEPT ![i] = x]))
              = Cardinality(Failed(s)) - Cost(s[i]) + Cost(x)
<1> DEFINE t == [s EXCEPT ![i] = x]
           F == Failed(s) \ {i}
<1>1. /\ t \in Seq(Samples) /\ Len(t) = Len(s)
      /\ t[i] = x /\ \A j \in 1 .. Len(s) : j # i => t[j] = s[j]
  BY ExceptSeq
<1> HIDE DEF t
<1>2. DOMAIN s = 1 .. Len(s) /\ DOMAIN t = 1 .. Len(s)
  BY <1>1, LenProperties
<1>3. IsFiniteSet(Failed(s)) /\ Cardinality(Failed(s)) \in Nat
  BY FailuresFinite
<1>4. /\ IsFiniteSet(F)
      /\ Cardinality(F) = IF i \in Failed(s) THEN Cardinality(Failed(s)) - 1
                                             ELSE Cardinality(Failed(s))
  BY <1>3, FS_RemoveElement
<1>5. i \in Failed(s) <=> s[i] # "ok"
  BY <1>2 DEF Failed
<1>6. Cardinality(F) = Cardinality(Failed(s)) - Cost(s[i]) /\ Cardinality(F) \in Nat
  BY <1>3, <1>4, <1>5, FS_CardinalityType DEF Cost
<1> SUFFICES Cardinality(Failed(t)) = Cardinality(Failed(s)) - Cost(s[i]) + Cost(x)
  BY <1>1 DEF t
<1>7. CASE x = "ok"
  <2>1. Failed(t) = F /\ Cost(x) = 0
    BY <1>1, <1>2, <1>7 DEF Failed, Cost
  <2>2. QED
    BY <2>1, <1>6
<1>8. CASE x # "ok"
  <2>1. Failed(t) = F \cup {i} /\ Cost(x) = 1
    BY <1>1, <1>2, <1>8 DEF Failed, Cost
  <2>2. i \notin F
    OBVIOUS
  <2>3. Cardinality(Failed(t)) = Cardinality(F) + 1
    BY <1>4, <2>1, <2>2, FS_AddElement
  <2>4. QED
    BY <2>1, <2>3, <1>6
<1>9. QED
  BY <1>7, <1>8

\* What a purge leaves are samples, and no more than there were.
LEMMA KeptFacts ==
  ASSUME NEW s \in Seq(Samples)
  PROVE  Kept(s) \in Seq(Samples) /\ Len(Kept(s)) <= Len(s)
<1> DEFINE I == {i \in DOMAIN s : s[i] # "budget"}
           m == Len(Kept(s))
<1>1. Kept(s) = Picked(s, I)
  <2>1. [i \in DOMAIN s |-> IF s[i] = "budget" THEN <<>> ELSE <<s[i]>>]
          = [i \in DOMAIN s |-> IF i \in I THEN <<s[i]>> ELSE <<>>]
    OBVIOUS
  <2>2. QED
    BY <2>1 DEF Kept, Picked
<1>2. /\ Kept(s) \in Seq(Samples)
      /\ \E h : PicksBy(Kept(s), h, s, I, Len(s))
  BY <1>1, PickedFacts
<1>3. m \in Nat /\ Len(s) \in Nat
  BY <1>2, LenProperties
<1>4. PICK h : PicksBy(Kept(s), h, s, I, Len(s))
  BY <1>2
<1>5. h \in [1 .. m -> 1 .. Len(s)] /\ \A i, j \in 1 .. m : i < j => h[i] < h[j]
  BY <1>4 DEF PicksBy
<1> HIDE DEF m
<1>6. h \in Injection(1 .. m, 1 .. Len(s))
  <2>1. \A i, j \in 1 .. m : h[i] = h[j] => i = j
    <3>1. SUFFICES ASSUME NEW i \in 1 .. m, NEW j \in 1 .. m, h[i] = h[j]
                   PROVE  i = j
      OBVIOUS
    <3>2. h[i] \in Int /\ h[j] \in Int /\ ~ (h[i] < h[j]) /\ ~ (h[j] < h[i])
      BY <1>5, <3>1
    <3>3. QED
      BY <1>5, <3>2
  <2>2. QED
    BY <2>1, <1>5 DEF Injection, IsInjective
<1>7. /\ IsFiniteSet(1 .. Len(s)) /\ Cardinality(1 .. Len(s)) = Len(s)
      /\ IsFiniteSet(1 .. m) /\ Cardinality(1 .. m) = m
  <2>1. \A n \in Nat : IsFiniteSet(1 .. n) /\ Cardinality(1 .. n) = n
    <3>1. TAKE n \in Nat
    <3>2. IsFiniteSet(1 .. n) /\ Cardinality(1 .. n) = IF 1 > n THEN 0 ELSE n - 1 + 1
      BY FS_Interval
    <3>3. QED
      BY <3>2
  <2>2. QED
    BY <1>3, <2>1
<1>8. Cardinality(1 .. m) <= Cardinality(1 .. Len(s))
  BY <1>6, <1>7, FS_Injection DEF ExistsInjection
<1>9. QED
  BY <1>2, <1>7, <1>8 DEF m

LEMMA PurgedFacts ==
  ASSUME NEW r \in Rings
  PROVE  Purged(r) \in Rings
<1>1. /\ r.samples \in Seq(Samples) /\ Len(r.samples) <= HealthWindow
      /\ Len(r.samples) \in Nat /\ HealthWindow \in Nat \ {0}
  BY HealthAssumption, LenProperties DEF Rings
<1> DEFINE k == Kept(r.samples)
<1>2. k \in Seq(Samples) /\ Len(k) <= Len(r.samples)
  BY <1>1, KeptFacts
<1>3. Cardinality(Failed(k)) \in 0 .. Len(k) /\ Len(k) \in Nat
  BY <1>2, FailuresFinite, LenProperties
<1> HIDE DEF k
<1>4. [samples |-> k, head |-> 0, errors |-> Cardinality(Failed(k))] \in Rings
  BY <1>1, <1>2, <1>3 DEF Rings
<1>5. QED
  BY <1>4 DEF Purged, k

LEMMA WrapFacts ==
  ASSUME NEW n \in Nat \ {0}
  PROVE  n % n = 0 /\ \A k \in 0 .. n - 1 : k % n = k
OBVIOUS

\* The ring after a sample: the sample is the newest, and what was before is one place
\* further back.
LEMMA PushedFacts ==
  ASSUME NEW r \in Rings, NEW x \in Samples
  PROVE  /\ Pushed(r, x) \in Rings
         /\ Len(Pushed(r, x).samples) \in 1 .. HealthWindow
         /\ Len(Pushed(r, x).samples) <= Len(r.samples) + 1
         /\ Len(Pushed(r, x).samples) \in {Len(r.samples) + 1, HealthWindow}
         /\ Pushed(r, x).samples[Back(Pushed(r, x), 0)] = x
         /\ \A n \in 1 .. Len(Pushed(r, x).samples) - 1 :
              Pushed(r, x).samples[Back(Pushed(r, x), n)] = r.samples[Back(r, n - 1)]
<1> DEFINE p == Pushed(r, x)
           L == Len(r.samples)
<1>1. /\ r \in [samples : Seq(Samples), head : 0 .. HealthWindow - 1, errors : 0 .. HealthWindow]
      /\ r.samples \in Seq(Samples) /\ L \in Nat /\ L <= HealthWindow
      /\ HealthWindow \in Nat \ {0}
      /\ r.head \in 0 .. HealthWindow - 1 /\ (r.head # 0 => L = HealthWindow)
      /\ r.errors \in Nat /\ r.errors = Cardinality(Failed(r.samples))
  BY HealthAssumption, LenProperties DEF Rings
<1>2. CASE L < HealthWindow
  <2>1. /\ p.samples = Append(r.samples, x) /\ p.head = 0 /\ p.errors = r.errors + Cost(x)
        /\ p = [samples |-> Append(r.samples, x), head |-> 0, errors |-> r.errors + Cost(x)]
    <3>1. r = [samples |-> r.samples, head |-> r.head, errors |-> r.errors] /\ r.head = 0
      BY <1>1, <1>2
    <3>2. p = [r EXCEPT !.samples = Append(@, x), !.errors = @ + Cost(x)]
      BY <1>2 DEF Pushed
    <3> HIDE DEF p
    <3>3. QED
      BY <3>1, <3>2
  <2>2. /\ Append(r.samples, x) \in Seq(Samples)
        /\ Len(Append(r.samples, x)) = L + 1
        /\ \A i \in 1 .. L : Append(r.samples, x)[i] = r.samples[i]
        /\ Append(r.samples, x)[L + 1] = x
        /\ Cardinality(Failed(Append(r.samples, x))) = r.errors + Cost(x)
    BY <1>1, AppendProperties, AppendCounted
  <2>3. Cardinality(Failed(Append(r.samples, x))) \in 0 .. L + 1
    BY <2>2, FailuresFinite
  <2>4. p \in Rings
    <3> DEFINE a == Append(r.samples, x)
    <3>1. /\ a \in Seq(Samples) /\ Len(a) <= HealthWindow
          /\ r.errors + Cost(x) = Cardinality(Failed(a))
          /\ r.errors + Cost(x) \in 0 .. HealthWindow
          /\ 0 \in 0 .. HealthWindow - 1
      BY <1>1, <1>2, <2>2, <2>3
    <3> HIDE DEF a
    <3>2. [samples |-> a, head |-> 0, errors |-> r.errors + Cost(x)] \in Rings
      BY <3>1 DEF Rings
    <3>3. QED
      BY <2>1, <3>2 DEF a
  <2>5. /\ Back(p, 0) = L + 1
        /\ \A n \in 1 .. L : /\ Back(p, n) \in 1 .. L
                             /\ Back(p, n) = Back(r, n - 1)
    BY <1>1, <1>2, <2>1, <2>2 DEF Back
  <2> HIDE DEF p, L
  <2>6. p.samples[Back(p, 0)] = x
    BY <2>1, <2>2, <2>5
  <2>7. \A n \in 1 .. L : p.samples[Back(p, n)] = r.samples[Back(r, n - 1)]
    BY <2>1, <2>2, <2>5
  <2>8. Len(p.samples) = L + 1 /\ L + 1 \in 1 .. HealthWindow /\ Len(p.samples) - 1 = L
    BY <1>1, <1>2, <2>1, <2>2
  <2>9. QED
    BY <2>4, <2>6, <2>7, <2>8, <1>1 DEF p, L
<1>3. CASE L = HealthWindow
  <2> DEFINE spot == r.head + 1
             t == [r.samples EXCEPT ![spot] = x]
             next == IF spot = HealthWindow THEN 0 ELSE spot
  <2>1. spot \in 1 .. L
    BY <1>1, <1>3
  <2>2. /\ t \in Seq(Samples) /\ Len(t) = L
        /\ Cardinality(Failed(t)) = r.errors - Cost(r.samples[spot]) + Cost(x)
    BY <1>1, <2>1, OverwriteCounted
  <2>3. t[spot] = x /\ \A j \in 1 .. L : j # spot => t[j] = r.samples[j]
    BY <1>1, <2>1, ExceptSeq
  <2>4. spot % HealthWindow = next /\ next \in 0 .. HealthWindow - 1
    <3>1. CASE spot = HealthWindow
      BY <1>1, <3>1, WrapFacts
    <3>2. CASE spot # HealthWindow
      <4>1. spot \in 0 .. HealthWindow - 1
        BY <1>1, <3>2
      <4>2. QED
        BY <1>1, <3>2, <4>1, WrapFacts
    <3>3. QED
      BY <3>1, <3>2
  <2>5. /\ p = [samples |-> t, head |-> next, errors |-> r.errors - Cost(r.samples[spot]) + Cost(x)]
        /\ p.samples = t /\ p.head = next
    <3>1. ~ (L < HealthWindow)
      BY <1>1, <1>3
    <3>2. p = [samples |-> t, head |-> spot % HealthWindow,
               errors |-> r.errors - Cost(r.samples[spot]) + Cost(x)]
      BY <3>1, Zenon DEF Pushed
    <3> HIDE DEF p, t, next
    <3>3. QED
      BY <2>4, <3>2
  <2> HIDE DEF t, p
  <2>6. Cardinality(Failed(t)) \in 0 .. HealthWindow
    BY <1>3, <2>2, FailuresFinite
  <2>7. p \in Rings
    BY <1>1, <1>3, <2>2, <2>4, <2>5, <2>6 DEF Rings
  <2>8. /\ Back(p, 0) = spot
        /\ \A n \in 1 .. L - 1 : /\ Back(p, n) \in 1 .. L /\ Back(p, n) # spot
                                 /\ Back(p, n) = Back(r, n - 1)
    <3>1. \A n \in 0 .. L - 1 : Back(p, n) = IF n < next THEN next - n ELSE L + next - n
      BY <2>2, <2>5 DEF Back
    <3>2. \A n \in 0 .. L - 1 : Back(r, n) = IF n < r.head THEN r.head - n ELSE L + r.head - n
      BY DEF Back
    <3> HIDE DEF L
    <3>3. Back(p, 0) = spot
      BY <1>1, <1>3, <3>1
    <3>4. ASSUME NEW n \in 1 .. L - 1
          PROVE  /\ Back(p, n) \in 1 .. L /\ Back(p, n) # spot
                 /\ Back(p, n) = Back(r, n - 1)
      <4>1. n \in 0 .. L - 1 /\ n - 1 \in 0 .. L - 1
        BY <1>1
      <4>2. /\ Back(p, n) = IF n < next THEN next - n ELSE L + next - n
            /\ Back(r, n - 1) = IF n - 1 < r.head THEN r.head - (n - 1) ELSE L + r.head - (n - 1)
        BY <3>1, <3>2, <4>1
      <4>3. QED
        BY <1>1, <1>3, <4>1, <4>2
    <3>5. QED
      BY <3>3, <3>4
  <2> HIDE DEF L, spot, next
  <2>9. p.samples[Back(p, 0)] = x
    BY <2>3, <2>5, <2>8
  <2>10. \A n \in 1 .. L - 1 : p.samples[Back(p, n)] = r.samples[Back(r, n - 1)]
    BY <2>3, <2>5, <2>8
  <2>11. Len(p.samples) = L /\ L \in 1 .. HealthWindow /\ L <= L + 1
    BY <1>1, <1>3, <2>2, <2>5
  <2>12. QED
    BY <2>7, <2>9, <2>10, <2>11, <1>3 DEF p, L
<1>4. QED
  BY <1>1, <1>2, <1>3

-----------------------------------------------------------------------------
(* The outcome of a request *)

\* A rating is a status.
LEMMA RatedType == \A n, len : Rated(n, len) \in {"up", "degraded", "down"}
BY DEF Rated

\* The ring of a backend is one of the code's.
LEMMA RingOfInv == HealthTypeOK /\ ErrorsExact => ring \in Rings
BY DEF HealthTypeOK, ErrorsExact, Rings

\* What a ring that a sample went into leaves of the type, the counter and the status.
LEMMA CountedRing ==
  ASSUME ring' \in Rings, Len(ring.samples)' \in 1 .. HealthWindow,
         status' = Rated(ring'.errors, Len(ring'.samples))
  PROVE  /\ ring' \in [samples : Seq(Samples), head : 0 .. HealthWindow - 1, errors : 0 .. HealthWindow]
         /\ Len(ring'.samples) <= HealthWindow
         /\ ring'.head # 0 => Len(ring'.samples) = HealthWindow
         /\ status' \in {"up", "degraded", "down"}
         /\ ErrorsExact' /\ StatusEarned'
<1>1. /\ ring' \in [samples : Seq(Samples), head : 0 .. HealthWindow - 1, errors : 0 .. HealthWindow]
      /\ Len(ring'.samples) <= HealthWindow
      /\ ring'.head # 0 => Len(ring'.samples) = HealthWindow
      /\ ring'.errors = Cardinality(Failed(ring'.samples))
  BY DEF Rings
<1>2. ring'.samples # <<>>
  <2>1. ring'.samples \in Seq(Samples) /\ Len(ring'.samples) # 0
    BY <1>1
  <2>2. QED
    BY <2>1, EmptySeq
<1>3. ErrorsExact'
  BY <1>1 DEF ErrorsExact
<1>4. status' = Rated(Cardinality(Failed(ring'.samples)), Len(ring'.samples))
  BY <1>1
<1>5. StatusEarned'
  BY <1>2, <1>4 DEF StatusEarned
<1>6. QED
  BY <1>1, <1>3, <1>5, RatedType

LEMMA BelowFacts ==
  ASSUME NEW n \in Nat, NEW k \in 0 .. n - 1
  PROVE  k \in Nat /\ k < n
OBVIOUS

LEMMA FailKeeps ==
  ASSUME HealthInv, NEW sample \in {"failed", "budget"}, Fail(sample), cooled' \in BOOLEAN,
         observed' \in BOOLEAN, attempt' \in [HealthRequests -> {"idle", "sent", "probe", "reprobe"}]
  PROVE  HealthInv'
<1>1. /\ ring' = Pushed(ring, sample)
      /\ status' = Rated(ring'.errors, Len(ring'.samples))
      /\ failures' = RunAfter
      /\ quarantined' = (HealthThreshold > 0 /\ (quarantined \/ RunAfter >= HealthThreshold))
      /\ released' = FALSE
  BY DEF Fail, RatedBy
<1>2. /\ HealthThreshold \in Nat /\ HealthWindow \in Nat \ {0}
      /\ failures \in 0 .. HealthThreshold
      /\ quarantined \in BOOLEAN
      /\ ring \in Rings /\ sample \in Samples /\ sample # "ok"
  BY HealthAssumption, RingOfInv DEF HealthInv, HealthTypeOK, Samples
<1>3. /\ ring' \in Rings
      /\ Len(ring'.samples) \in 1 .. HealthWindow
      /\ Len(ring'.samples) <= Len(ring.samples) + 1
      /\ Len(ring'.samples) \in {Len(ring.samples) + 1, HealthWindow}
      /\ ring'.samples[Back(ring', 0)] = sample
      /\ \A n \in 1 .. Len(ring'.samples) - 1 :
           ring'.samples[Back(ring', n)] = ring.samples[Back(ring, n - 1)]
  BY <1>1, <1>2, PushedFacts
<1>4. /\ failures' \in 0 .. HealthThreshold
      /\ failures' <= failures + 1
      /\ failures' < HealthThreshold => failures' = failures + 1
      /\ failures' = HealthThreshold <=> RunAfter >= HealthThreshold
  BY <1>1, <1>2 DEF RunAfter
<1>5. quarantined' \in BOOLEAN
  BY <1>1
<1>6. HealthTypeOK' /\ ErrorsExact' /\ StatusEarned'
  BY <1>1, <1>3, <1>4, <1>5, CountedRing DEF HealthTypeOK
<1>7. quarantined => failures = HealthThreshold /\ failures' = HealthThreshold
  BY <1>1, <1>2 DEF HealthInv, QuarantineIsRun, RunAfter
<1>8. QuarantineIsRun'
  BY <1>1, <1>4, <1>7 DEF QuarantineIsRun
<1>9. RunExact'
  <2> SUFFICES ASSUME HealthThreshold <= HealthWindow
               PROVE  /\ failures' <= Len(ring'.samples)
                      /\ \A n \in 0 .. failures' - 1 : ring'.samples[Back(ring', n)] # "ok"
                      /\ failures' < HealthThreshold /\ failures' < Len(ring'.samples) =>
                           ring'.samples[Back(ring', failures')] = "ok"
    BY DEF RunExact, Back
  <2>1. /\ failures <= Len(ring.samples)
        /\ \A n \in 0 .. failures - 1 : ring.samples[Back(ring, n)] # "ok"
        /\ failures < HealthThreshold /\ failures < Len(ring.samples) =>
             ring.samples[Back(ring, failures)] = "ok"
    BY DEF HealthInv, RunExact
  <2>2. Len(ring.samples) \in Nat
    BY <1>2, LenProperties DEF Rings
  <2>3. failures' <= Len(ring'.samples)
    BY <1>2, <1>3, <1>4, <2>1, <2>2
  <2>4. ASSUME NEW n \in 0 .. failures' - 1
        PROVE  ring'.samples[Back(ring', n)] # "ok"
    <3>1. CASE n = 0
      BY <3>1, <1>2, <1>3
    <3>2. CASE n # 0
      <4>1. failures' \in Nat /\ failures \in Nat /\ failures' <= failures + 1
        BY <1>2, <1>4
      <4>2. n \in Nat /\ n # 0 /\ n < failures'
        BY <3>2, <4>1, BelowFacts
      <4>3. n \in 1 .. Len(ring'.samples) - 1 /\ n - 1 \in 0 .. failures - 1
        BY <4>1, <4>2, <1>3, <2>3
      <4>4. QED
        BY <4>3, <1>3, <2>1
    <3>3. QED
      BY <3>1, <3>2
  <2>5. ASSUME failures' < HealthThreshold, failures' < Len(ring'.samples)
        PROVE  ring'.samples[Back(ring', failures')] = "ok"
    <3>1. /\ failures' = failures + 1
          /\ failures' \in 1 .. Len(ring'.samples) - 1
          /\ failures' - 1 = failures
          /\ failures < HealthThreshold /\ failures < Len(ring.samples)
      BY <2>5, <1>2, <1>3, <1>4, <2>2
    <3>2. ring'.samples[Back(ring', failures')] = ring.samples[Back(ring, failures' - 1)]
      BY <3>1, <1>3
    <3>3. QED
      BY <3>1, <3>2, <2>1
  <2>6. QED
    BY <2>3, <2>4, <2>5
<1>10. QED
  BY <1>6, <1>8, <1>9 DEF HealthInv

\* An empty ring is one of the code's and has nothing to count.
LEMMA EmptyRingFacts ==
  /\ EmptyRing.samples = <<>> /\ Len(EmptyRing.samples) = 0
  /\ EmptyRing \in [samples : Seq(Samples), head : 0 .. HealthWindow - 1, errors : 0 .. HealthWindow]
  /\ EmptyRing.head = 0 /\ EmptyRing.errors = Cardinality(Failed(EmptyRing.samples))
<1>1. <<>> \in Seq(Samples) /\ Len(<<>>) = 0 /\ DOMAIN <<>> = {}
  BY EmptySeq
<1>2. Failed(<<>>) = {}
  BY <1>1 DEF Failed
<1>3. Cardinality(Failed(<<>>)) = 0
  BY <1>2, FS_EmptySet
<1>4. HealthWindow \in Nat \ {0}
  BY HealthAssumption
<1>5. QED
  BY <1>1, <1>3, <1>4 DEF EmptyRing

LEMMA SucceedKeeps ==
  ASSUME HealthInv, NEW authoritative \in BOOLEAN, Succeed(authoritative), cooled' \in BOOLEAN,
         observed' \in BOOLEAN, attempt' \in [HealthRequests -> {"idle", "sent", "probe", "reprobe"}]
  PROVE  HealthInv'
<1> DEFINE fresh == quarantined /\ ~ authoritative
           before == IF authoritative THEN Purged(ring) ELSE ring
           pushed == Pushed(before, "ok")
<1>1. /\ ring' = IF fresh THEN EmptyRing ELSE pushed
      /\ status' = IF fresh THEN "up" ELSE Rated(pushed.errors, Len(pushed.samples))
      /\ failures' = 0
      /\ quarantined' = FALSE
      /\ released' = FALSE
  BY DEF Succeed, RunEnded, ReadmittedAs, RatedBy
<1>2. /\ HealthThreshold \in Nat /\ HealthWindow \in Nat \ {0}
      /\ ring \in Rings /\ "ok" \in Samples
  BY HealthAssumption, RingOfInv DEF HealthInv, Samples
<1>3. before \in Rings
  BY <1>2, PurgedFacts
<1> HIDE DEF before
<1>4. /\ pushed \in Rings
      /\ Len(pushed.samples) \in 1 .. HealthWindow
      /\ pushed.samples[Back(pushed, 0)] = "ok"
  BY <1>2, <1>3, PushedFacts
<1> HIDE DEF pushed, fresh
<1>5. /\ failures' = 0 /\ failures' \in 0 .. HealthThreshold
      /\ quarantined' \in BOOLEAN /\ released' \in BOOLEAN
      /\ QuarantineIsRun'
  <2>1. failures' = 0 /\ quarantined' = FALSE /\ released' = FALSE
    BY <1>1
  <2>2. 0 \in 0 .. HealthThreshold /\ ~ (HealthThreshold > 0 /\ 0 = HealthThreshold)
    BY <1>2
  <2>3. QuarantineIsRun'
    BY <2>1, <2>2 DEF QuarantineIsRun
  <2>4. QED
    BY <2>1, <2>2, <2>3
<1>6. CASE fresh
  <2>1. ring' = EmptyRing /\ status' = "up"
    BY <1>1, <1>6
  <2>2. HealthTypeOK'
    BY <1>2, <1>5, <2>1, EmptyRingFacts DEF HealthTypeOK
  <2>3. ErrorsExact' /\ StatusEarned'
    BY <2>1, EmptyRingFacts DEF ErrorsExact, StatusEarned
  <2>4. RunExact'
    BY <1>5, <2>1, EmptyRingFacts DEF RunExact
  <2>5. QED
    BY <1>5, <2>2, <2>3, <2>4 DEF HealthInv
<1>7. CASE ~ fresh
  <2>1. ring' = pushed /\ status' = Rated(ring'.errors, Len(ring'.samples))
    BY <1>1, <1>7
  <2>2. HealthTypeOK' /\ ErrorsExact' /\ StatusEarned'
    BY <1>4, <1>5, <2>1, CountedRing DEF HealthTypeOK
  <2>3. ring'.samples[Back(ring', 0)] = "ok" /\ Len(ring'.samples) \in 1 .. HealthWindow
    BY <1>4, <2>1
  <2>4. RunExact'
    BY <1>5, <2>3 DEF RunExact, Back
  <2>5. QED
    BY <1>5, <2>2, <2>4 DEF HealthInv
<1>8. QED
  BY <1>6, <1>7

-----------------------------------------------------------------------------
(* The invariant *)

\* The steps that record no outcome leave the ring and the run alone, and may show
\* a down backend as degraded.
LEMMA NoOutcomeKeeps ==
  ASSUME HealthInv, UNCHANGED <<ring, failures, quarantined>>,
         status' \in {status, IF status = "down" THEN "degraded" ELSE status},
         cooled' \in BOOLEAN, released' \in BOOLEAN, observed' \in BOOLEAN,
         attempt' \in [HealthRequests -> {"idle", "sent", "probe", "reprobe"}]
  PROVE  HealthInv'
<1>1. HealthTypeOK'
  BY DEF HealthInv, HealthTypeOK
<1>2. ErrorsExact' /\ RunExact' /\ QuarantineIsRun'
  BY DEF HealthInv, ErrorsExact, RunExact, QuarantineIsRun, Back
<1>3. StatusEarned'
  <2>1. CASE status' = status
    BY <2>1 DEF HealthInv, StatusEarned
  <2>2. CASE status = "down" /\ status' = "degraded"
    BY <2>2 DEF HealthInv, StatusEarned
  <2>3. QED
    BY <2>1, <2>2
<1>4. QED
  BY <1>1, <1>2, <1>3 DEF HealthInv

LEMMA HealthStart == HealthInit => HealthInv
<1> SUFFICES ASSUME HealthInit PROVE HealthInv
  OBVIOUS
<1>1. HealthThreshold \in Nat /\ HealthWindow \in Nat \ {0}
  BY HealthAssumption
<1>2. ring = EmptyRing /\ status = "up" /\ failures = 0 /\ quarantined = FALSE
  BY DEF HealthInit
<1>3. HealthTypeOK
  <2>1. /\ failures \in 0 .. HealthThreshold
        /\ status \in {"up", "degraded", "down"}
        /\ {cooled, quarantined, released, observed} \subseteq BOOLEAN
        /\ attempt \in [HealthRequests -> {"idle", "sent", "probe", "reprobe"}]
    <3>1. 0 \in 0 .. HealthThreshold
      BY <1>1
    <3>2. attempt = [r \in HealthRequests |-> "idle"]
      BY DEF HealthInit
    <3>3. QED
      BY <1>2, <3>1, <3>2 DEF HealthInit
  <2>2. QED
    BY <1>1, <1>2, <2>1, EmptyRingFacts DEF HealthTypeOK
<1>4. ErrorsExact /\ StatusEarned
  BY <1>2, EmptyRingFacts DEF ErrorsExact, StatusEarned
<1>5. RunExact /\ QuarantineIsRun
  BY <1>1, <1>2, EmptyRingFacts DEF RunExact, QuarantineIsRun
<1>6. QED
  BY <1>3, <1>4, <1>5 DEF HealthInv

LEMMA HealthStep == HealthInv /\ [HealthNext]_healthVars => HealthInv'
<1> SUFFICES ASSUME HealthInv, [HealthNext]_healthVars
             PROVE  HealthInv'
  OBVIOUS
<1>1. /\ attempt \in [HealthRequests -> {"idle", "sent", "probe", "reprobe"}]
      /\ cooled \in BOOLEAN /\ released \in BOOLEAN /\ observed \in BOOLEAN
  BY DEF HealthInv, HealthTypeOK
<1>2. CASE Consult
  BY <1>1, <1>2, NoOutcomeKeeps DEF Consult, MayReturn
<1>3. ASSUME NEW r \in HealthRequests, Send(r)
      PROVE  HealthInv'
  <2>1. /\ UNCHANGED <<ring, failures, quarantined>>
        /\ status' \in {status, IF status = "down" THEN "degraded" ELSE status}
        /\ attempt' = [attempt EXCEPT ![r] = Admission]
        /\ UNCHANGED <<released, observed>>
    BY <1>3 DEF Send
  <2>2. attempt' \in [HealthRequests -> {"idle", "sent", "probe", "reprobe"}]
    BY <1>1, <2>1 DEF Admission
  <2>3. cooled' \in BOOLEAN
    BY <1>3 DEF Send
  <2>4. QED
    BY <1>1, <2>1, <2>2, <2>3, NoOutcomeKeeps
<1>4. ASSUME NEW r \in HealthRequests, SendAnyway(r)
      PROVE  HealthInv'
  BY <1>1, <1>4, NoOutcomeKeeps DEF SendAnyway
<1>5. ASSUME NEW r \in HealthRequests, Outcome(r)
      PROVE  HealthInv'
  <2>1. /\ attempt' \in [HealthRequests -> {"idle", "sent", "probe", "reprobe"}]
        /\ observed' \in BOOLEAN
    BY <1>1, <1>5 DEF Outcome
  <2>2. ASSUME NEW sample \in {"failed", "budget"}, Fail(sample)
        PROVE  HealthInv'
    <3>1. cooled' \in BOOLEAN
      BY <2>2 DEF Fail
    <3>2. QED
      BY <2>1, <2>2, <3>1, FailKeeps
  <2>3. ASSUME NEW authoritative \in BOOLEAN, Succeed(authoritative)
        PROVE  HealthInv'
    <3>1. cooled' \in BOOLEAN
      BY <2>3 DEF Succeed
    <3>2. QED
      BY <2>1, <2>3, <3>1, SucceedKeeps
  <2>4. QED
    BY <1>5, <2>2, <2>3 DEF Outcome
<1>6. ASSUME NEW r \in HealthRequests, Cancel(r)
      PROVE  HealthInv'
  BY <1>1, <1>6, NoOutcomeKeeps DEF Cancel
<1>7. CASE DownCooldownPasses
  BY <1>1, <1>7, NoOutcomeKeeps DEF DownCooldownPasses
<1>8. CASE QuarantineCooldownPasses
  BY <1>1, <1>8, NoOutcomeKeeps DEF QuarantineCooldownPasses
<1>9. CASE UNCHANGED healthVars
  BY <1>1, <1>9, NoOutcomeKeeps DEF healthVars
<1>10. QED
  BY <1>2, <1>3, <1>4, <1>5, <1>6, <1>7, <1>8, <1>9 DEF HealthNext

\* The conjunction is an invariant of every behaviour of the backend.
THEOREM HealthCorrect == HealthSpec => []HealthInv
BY HealthStart, HealthStep, PTL DEF HealthSpec

\* Every variable has its type; the ring never outgrows its length.
THEOREM HealthTypeCorrect == HealthSpec => []HealthTypeOK
<1>1. HealthInv => HealthTypeOK
  BY DEF HealthInv
<1>2. QED
  BY HealthCorrect, <1>1, PTL

\* The error counter is the number of failures in the ring, also after a
\* purge.
THEOREM CounterIsExact == HealthSpec => []ErrorsExact
<1>1. HealthInv => ErrorsExact
  BY DEF HealthInv
<1>2. QED
  BY HealthCorrect, <1>1, PTL

\* The status is the one that the samples in the ring call for.
THEOREM StatusIsEarned == HealthSpec => []StatusEarned
<1>1. HealthInv => StatusEarned
  BY DEF HealthInv
<1>2. QED
  BY HealthCorrect, <1>1, PTL

\* The run that the quarantine counts is in the ring that the status is rated by.
LEMMA RunInRing == HealthInv => QuarantineEarned
<1> SUFFICES ASSUME HealthInv, 0 < HealthThreshold, HealthThreshold <= HealthWindow
             PROVE  quarantined <=>
                      /\ Len(ring.samples) >= HealthThreshold
                      /\ \A n \in 0 .. HealthThreshold - 1 : ring.samples[Back(ring, n)] # "ok"
  BY DEF QuarantineEarned
<1>1. /\ HealthThreshold \in Nat /\ failures \in 0 .. HealthThreshold
      /\ ring.samples \in Seq(Samples)
      /\ quarantined <=> failures = HealthThreshold
      /\ failures <= Len(ring.samples)
      /\ \A n \in 0 .. failures - 1 : ring.samples[Back(ring, n)] # "ok"
      /\ failures < HealthThreshold /\ failures < Len(ring.samples) =>
           ring.samples[Back(ring, failures)] = "ok"
  BY HealthAssumption DEF HealthInv, HealthTypeOK, QuarantineIsRun, RunExact
<1>2. Len(ring.samples) \in Nat
  BY <1>1, LenProperties
<1>3. CASE failures = HealthThreshold
  BY <1>1, <1>2, <1>3
<1>4. CASE failures < HealthThreshold /\ Len(ring.samples) >= HealthThreshold
  <2>1. /\ ring.samples[Back(ring, failures)] = "ok"
        /\ failures \in 0 .. HealthThreshold - 1
    BY <1>1, <1>2, <1>4
  <2>2. ~ quarantined
    BY <1>1, <1>4
  <2>3. QED
    BY <2>1, <2>2
<1>5. CASE failures < HealthThreshold /\ ~ (Len(ring.samples) >= HealthThreshold)
  BY <1>1, <1>5
<1>6. QED
  BY <1>1, <1>3, <1>4, <1>5

\* A backend is in quarantine exactly when the last HealthThreshold outcomes are failures
\* and in its ring, for every threshold that fits into the ring.
THEOREM QuarantineIsEarned == HealthSpec => []QuarantineEarned
BY HealthCorrect, RunInRing, PTL

-----------------------------------------------------------------------------
(* ModelClaim *)

\* A request that is routed is at one of the backends.
HasCandidate == \A r \in ClaimRequests : stage[r] # "idle" => at[r] \in Claimers

\* The variables of the requests keep their types and their candidates.
RequestsOK ==
  /\ stage \in [ClaimRequests -> {"idle", "resolving", "waiting", "sent"}]
  /\ at \in [ClaimRequests -> 0 .. N]
  /\ left \in [ClaimRequests -> SUBSET Claimers]
  /\ flagged \in [ClaimRequests -> SUBSET Claimers]
  /\ HasCandidate

\* The variables of the claims keep their types and their meaning.
ClaimsOK ==
  /\ claimFailures \in [Claimers -> 0 .. ClaimThreshold]
  /\ claimQuarantined \in [Claimers -> BOOLEAN]
  /\ claimCooled \in [Claimers -> BOOLEAN]
  /\ probing \in [Claimers -> BOOLEAN]
  /\ expired \in [Claimers -> BOOLEAN]
  /\ ClaimEarned

\* The inductive invariant.
ClaimInv == RequestsOK /\ ClaimsOK

-----------------------------------------------------------------------------
(* The claims *)

\* A lease is only taken on a quarantined claim whose cooldown is over and whose
\* lease is not out.
LEMMA LeasedFacts ==
  /\ Leased \subseteq Acquirable
  /\ GatedLeased \subseteq Acquirable
  /\ Acquirable \subseteq Claimers
  /\ \A b \in Acquirable : claimQuarantined[b] /\ claimCooled[b] /\ ~ OnLease(b)
BY DEF Leased, GatedLeased, First, Acquirable

\* Routing takes leases on quarantined claims, and changes nothing else of a claim.
LEMMA TakeLeasesKeeps ==
  ASSUME ClaimsOK, TakeLeases
  PROVE  ClaimsOK'
<1>1. /\ probing' = [b \in Claimers |-> probing[b] \/ b \in Leased \cup GatedLeased]
      /\ expired' = [b \in Claimers |-> expired[b] /\ b \notin Leased \cup GatedLeased]
      /\ UNCHANGED <<claimFailures, claimQuarantined, claimCooled>>
  BY DEF TakeLeases
<1>2. probing' \in [Claimers -> BOOLEAN] /\ expired' \in [Claimers -> BOOLEAN]
  BY <1>1 DEF ClaimsOK
<1>3. ASSUME NEW b \in Claimers
      PROVE  /\ claimQuarantined'[b] <=> claimFailures'[b] = ClaimThreshold
             /\ claimCooled'[b] \/ probing'[b] => claimQuarantined'[b]
             /\ expired'[b] => probing'[b]
  BY <1>1, LeasedFacts DEF ClaimsOK, ClaimEarned
<1>4. QED
  BY <1>1, <1>2, <1>3 DEF ClaimsOK, ClaimEarned

\* Giving a lease back leaves none of it behind.
LEMMA ReleaseKeeps ==
  ASSUME ClaimsOK, NEW r \in ClaimRequests, Release(r)
  PROVE  ClaimsOK'
<1>1. CASE at[r] \in flagged[r]
  BY <1>1 DEF Release, ClaimsOK, ClaimEarned
<1>2. CASE at[r] \notin flagged[r]
  BY <1>2 DEF Release, ClaimsOK, ClaimEarned
<1>3. QED
  BY <1>1, <1>2

\* Nothing that is true of the claims depends on anything else.
LEMMA LeaseVarsKeep ==
  ASSUME ClaimsOK, UNCHANGED leaseVars
  PROVE  ClaimsOK'
BY DEF ClaimsOK, ClaimEarned, leaseVars

\* A success clears the claim.
LEMMA SucceededKeeps ==
  ASSUME ClaimsOK, NEW r \in ClaimRequests, Succeeded(r)
  PROVE  ClaimsOK'
<1>1. /\ claimFailures' = [claimFailures EXCEPT ![at[r]] = 0]
      /\ claimQuarantined' = [claimQuarantined EXCEPT ![at[r]] = FALSE]
      /\ claimCooled' = [claimCooled EXCEPT ![at[r]] = FALSE]
      /\ probing' = [probing EXCEPT ![at[r]] = FALSE]
      /\ expired' = [expired EXCEPT ![at[r]] = FALSE]
  BY DEF Succeeded
<1>2. 0 # ClaimThreshold /\ 0 \in 0 .. ClaimThreshold
  BY ClaimAssumption
<1>3. /\ claimFailures' \in [Claimers -> 0 .. ClaimThreshold]
      /\ claimQuarantined' \in [Claimers -> BOOLEAN]
      /\ claimCooled' \in [Claimers -> BOOLEAN]
      /\ probing' \in [Claimers -> BOOLEAN]
      /\ expired' \in [Claimers -> BOOLEAN]
  BY <1>1, <1>2 DEF ClaimsOK
<1>4. ClaimEarned'
  BY <1>1, <1>2 DEF ClaimsOK, ClaimEarned
<1>5. QED
  BY <1>3, <1>4 DEF ClaimsOK

\* A failure is counted up to the threshold, and there the claim goes out.
LEMMA FailedFastKeeps ==
  ASSUME ClaimsOK, NEW r \in ClaimRequests, at[r] \in Claimers, FailedFast(r)
  PROVE  ClaimsOK'
<1> DEFINE b == at[r]
           n == Counted(b)
<1>1. /\ claimFailures' = [claimFailures EXCEPT ![b] = n]
      /\ claimQuarantined' = [claimQuarantined EXCEPT ![b] = @ \/ Trips(n)]
      /\ claimCooled' = [claimCooled EXCEPT ![b] = @ /\ ~ Trips(n)]
      /\ probing' = [probing EXCEPT ![b] = FALSE]
      /\ expired' = [expired EXCEPT ![b] = FALSE]
  BY DEF FailedFast
<1>2. /\ n \in 0 .. ClaimThreshold
      /\ Trips(n) <=> n = ClaimThreshold
      /\ claimFailures[b] = ClaimThreshold => n = ClaimThreshold
  BY ClaimAssumption DEF ClaimsOK, Counted, Trips
<1> HIDE DEF n
<1>3. /\ claimFailures' \in [Claimers -> 0 .. ClaimThreshold]
      /\ claimQuarantined' \in [Claimers -> BOOLEAN]
      /\ claimCooled' \in [Claimers -> BOOLEAN]
      /\ probing' \in [Claimers -> BOOLEAN]
      /\ expired' \in [Claimers -> BOOLEAN]
  BY <1>1, <1>2 DEF ClaimsOK
<1>4. ASSUME NEW e \in Claimers
      PROVE  /\ claimQuarantined'[e] <=> claimFailures'[e] = ClaimThreshold
             /\ claimCooled'[e] \/ probing'[e] => claimQuarantined'[e]
             /\ expired'[e] => probing'[e]
  BY <1>1, <1>2 DEF ClaimsOK, ClaimEarned
<1>5. QED
  BY <1>3, <1>4 DEF ClaimsOK, ClaimEarned

\* Another status ends a probe, and leaves the quarantine as it is.
LEMMA FailedOtherwiseKeeps ==
  ASSUME ClaimsOK, NEW r \in ClaimRequests, FailedOtherwise(r)
  PROVE  ClaimsOK'
<1>1. /\ claimCooled' = [claimCooled EXCEPT ![at[r]] = @ /\ ~ probing[at[r]]]
      /\ probing' = [probing EXCEPT ![at[r]] = FALSE]
      /\ expired' = [expired EXCEPT ![at[r]] = FALSE]
      /\ UNCHANGED <<claimFailures, claimQuarantined>>
  BY DEF FailedOtherwise
<1>2. /\ claimCooled' \in [Claimers -> BOOLEAN]
      /\ probing' \in [Claimers -> BOOLEAN]
      /\ expired' \in [Claimers -> BOOLEAN]
  BY <1>1 DEF ClaimsOK
<1>3. QED
  BY <1>1, <1>2 DEF ClaimsOK, ClaimEarned

-----------------------------------------------------------------------------
(* The requests *)

\* Ending a request, and going on to another candidate.
LEMMA LeaveKeeps ==
  ASSUME RequestsOK, NEW r \in ClaimRequests, Leave(r)
  PROVE  RequestsOK'
BY ClaimAssumption DEF RequestsOK, HasCandidate, Leave

LEMMA GoOnKeeps ==
  ASSUME RequestsOK, NEW r \in ClaimRequests, GoOn(r)
  PROVE  RequestsOK'
<1>1. CASE Leave(r)
  BY <1>1, LeaveKeeps
<1>2. CASE ~ Leave(r)
  <2>1. PICK b \in left[r] :
          /\ at' = [at EXCEPT ![r] = b]
          /\ left' = [left EXCEPT ![r] = left[r] \ {b}]
          /\ stage' = [stage EXCEPT ![r] = "waiting"]
          /\ UNCHANGED flagged
    BY <1>2 DEF GoOn
  <2>2. b \in Claimers /\ b \in 0 .. N /\ left[r] \ {b} \in SUBSET Claimers
    BY ClaimAssumption DEF RequestsOK, Claimers
  <2>3. QED
    BY <2>1, <2>2 DEF RequestsOK, HasCandidate
<1>3. QED
  BY <1>1, <1>2

\* What a request is matched with are backends.
LEMMA MatchedFacts == ClaimMatched \subseteq Claimers
BY ClaimAssumption, LeasedFacts DEF ClaimMatched, Selectable

LEMMA RouteKeeps ==
  ASSUME RequestsOK, NEW r \in ClaimRequests, RouteClaims(r)
  PROVE  RequestsOK'
<1>1. PICK b \in ClaimMatched :
        /\ at' = [at EXCEPT ![r] = b]
        /\ left' = [left EXCEPT ![r] = ClaimMatched \ {b}]
  BY DEF RouteClaims
<1>2. b \in Claimers /\ b \in 0 .. N /\ ClaimMatched \ {b} \in SUBSET Claimers
  BY MatchedFacts, ClaimAssumption DEF Claimers
<1>3. /\ stage' = [stage EXCEPT ![r] = "resolving"]
      /\ flagged' = flagged
  BY DEF RouteClaims
<1>4. QED
  BY <1>1, <1>2, <1>3 DEF RequestsOK, HasCandidate

LEMMA ResolveKeeps ==
  ASSUME RequestsOK, NEW r \in ClaimRequests, Resolve(r)
  PROVE  RequestsOK'
<1> DEFINE F == {b \in left[r] \cup {at[r]} : claimQuarantined[b] /\ probing[b]}
<1>1. /\ stage' = [stage EXCEPT ![r] = "waiting"]
      /\ flagged' = [flagged EXCEPT ![r] = F]
      /\ UNCHANGED <<at, left>>
      /\ stage[r] = "resolving"
  BY DEF Resolve
<1>2. F \in SUBSET Claimers
  BY <1>1 DEF RequestsOK, HasCandidate
<1> HIDE DEF F
<1>3. QED
  BY <1>1, <1>2 DEF RequestsOK, HasCandidate

-----------------------------------------------------------------------------
(* The theorems *)

\* ClaimInv holds at the start and every step keeps it.
LEMMA ClaimStart == ClaimInit => ClaimInv
<1>1. 0 # ClaimThreshold /\ 0 \in 0 .. ClaimThreshold /\ 0 \in 0 .. N
  BY ClaimAssumption
<1>2. QED
  BY <1>1 DEF ClaimInit, ClaimInv, RequestsOK, ClaimsOK, HasCandidate, ClaimEarned

LEMMA ClaimStep == ClaimInv /\ [ClaimNext]_claimVars => ClaimInv'
<1> SUFFICES ASSUME RequestsOK, ClaimsOK, [ClaimNext]_claimVars
             PROVE  RequestsOK' /\ ClaimsOK'
  BY DEF ClaimInv
<1>1. ASSUME NEW r \in ClaimRequests, RouteClaims(r)
      PROVE  RequestsOK' /\ ClaimsOK'
  BY <1>1, RouteKeeps, TakeLeasesKeeps DEF RouteClaims
<1>2. ASSUME NEW r \in ClaimRequests, RouteDiscarded(r)
      PROVE  RequestsOK' /\ ClaimsOK'
  BY <1>2, TakeLeasesKeeps DEF RouteDiscarded, RequestsOK, HasCandidate
<1>3. ASSUME NEW r \in ClaimRequests, Resolve(r)
      PROVE  RequestsOK' /\ ClaimsOK'
  BY <1>3, ResolveKeeps, LeaseVarsKeep DEF Resolve
<1>4. ASSUME NEW r \in ClaimRequests, Dispatch(r)
      PROVE  RequestsOK' /\ ClaimsOK'
  BY <1>4, LeaseVarsKeep DEF Dispatch, RequestsOK, HasCandidate
<1>5. ASSUME NEW r \in ClaimRequests, RefusedLocally(r)
      PROVE  RequestsOK' /\ ClaimsOK'
  BY <1>5, GoOnKeeps, ReleaseKeeps DEF RefusedLocally
<1>6. ASSUME NEW r \in ClaimRequests, RefusedByLimit(r)
      PROVE  RequestsOK' /\ ClaimsOK'
  BY <1>6, GoOnKeeps, LeaseVarsKeep DEF RefusedByLimit
<1>7. ASSUME NEW r \in ClaimRequests, Cancelled(r)
      PROVE  RequestsOK' /\ ClaimsOK'
  BY <1>7, LeaveKeeps, ReleaseKeeps DEF Cancelled
<1>8. ASSUME NEW r \in ClaimRequests, ClaimOutcome(r)
      PROVE  RequestsOK' /\ ClaimsOK'
  <2>1. CASE Succeeded(r)
    BY <2>1, LeaveKeeps, SucceededKeeps DEF Succeeded
  <2>2. CASE FailedFast(r)
    <3>1. at[r] \in Claimers
      BY <2>2 DEF FailedFast, RequestsOK, HasCandidate
    <3>2. Leave(r) \/ GoOn(r)
      BY <2>2 DEF FailedFast
    <3>3. QED
      BY <2>2, <3>1, <3>2, LeaveKeeps, GoOnKeeps, FailedFastKeeps
  <2>3. CASE FailedOtherwise(r)
    <3>1. Leave(r) \/ GoOn(r)
      BY <2>3 DEF FailedOtherwise
    <3>2. QED
      BY <2>3, <3>1, LeaveKeeps, GoOnKeeps, FailedOtherwiseKeeps
  <2>4. QED
    BY <1>8, <2>1, <2>2, <2>3 DEF ClaimOutcome
<1>9. ASSUME NEW b \in Claimers, CooldownPasses(b)
      PROVE  RequestsOK' /\ ClaimsOK'
  <2>1. RequestsOK'
    BY <1>9 DEF CooldownPasses, RequestsOK, HasCandidate
  <2>2. ClaimsOK'
    BY <1>9 DEF CooldownPasses, ClaimsOK, ClaimEarned
  <2>3. QED
    BY <2>1, <2>2
<1>10. ASSUME NEW b \in Claimers, LeaseExpires(b)
       PROVE  RequestsOK' /\ ClaimsOK'
  <2>1. RequestsOK'
    BY <1>10 DEF LeaseExpires, RequestsOK, HasCandidate
  <2>2. ClaimsOK'
    BY <1>10 DEF LeaseExpires, ClaimsOK, ClaimEarned
  <2>3. QED
    BY <2>1, <2>2
<1>11. CASE UNCHANGED claimVars
  <2>1. RequestsOK'
    BY <1>11 DEF claimVars, RequestsOK, HasCandidate
  <2>2. ClaimsOK'
    BY <1>11 DEF claimVars, ClaimsOK, ClaimEarned
  <2>3. QED
    BY <2>1, <2>2
<1>12. QED
  <2>1. \A r \in ClaimRequests :
          RouteClaims(r) \/ RouteDiscarded(r) \/ Resolve(r) \/ Dispatch(r)
          \/ RefusedLocally(r) \/ RefusedByLimit(r) \/ Cancelled(r) \/ ClaimOutcome(r)
          => RequestsOK' /\ ClaimsOK'
    BY <1>1, <1>2, <1>3, <1>4, <1>5, <1>6, <1>7, <1>8
  <2>2. \A b \in Claimers : CooldownPasses(b) \/ LeaseExpires(b) => RequestsOK' /\ ClaimsOK'
    BY <1>9, <1>10
  <2>3. QED
    BY <2>1, <2>2, <1>11 DEF ClaimNext

\* The conjunction is an invariant of every behaviour of the claims.
THEOREM ClaimCorrect == ClaimSpec => []ClaimInv
BY ClaimStart, ClaimStep, PTL DEF ClaimSpec

\* Every variable has its type.
THEOREM ClaimTypeCorrect == ClaimSpec => []ClaimTypeOK
<1>1. ClaimInv => ClaimTypeOK
  BY DEF ClaimInv, RequestsOK, ClaimsOK, ClaimTypeOK
<1>2. QED
  BY ClaimCorrect, <1>1, PTL

\* A claim is quarantined exactly when its failures reached the threshold, and only
\* a quarantined claim has a lease or a cooldown, whatever the overlap of requests.
THEOREM ClaimQuarantineIsEarned == ClaimSpec => []ClaimEarned
<1>1. ClaimInv => ClaimEarned
  BY DEF ClaimInv, ClaimsOK
<1>2. QED
  BY ClaimCorrect, <1>1, PTL

-----------------------------------------------------------------------------
(* No traffic to a quarantined claim *)

\* What one step may do with a request that was idle.
RoutedSoundly ==
  \A r \in ClaimRequests :
    stage[r] = "idle" /\ stage'[r] = "resolving" =>
      \A b \in left'[r] \cup {at'[r]} :
        claimQuarantined[b] => claimCooled[b] /\ ~ (probing[b] /\ ~ expired[b]) /\ probing'[b]

\* A quarantined backend is matched only with the lease taken in the same step.
LEMMA MatchedQuarantined ==
  ASSUME NEW b \in ClaimMatched, claimQuarantined[b]
  PROVE  b \in Claimers /\ b \in Leased \cup GatedLeased /\ claimCooled[b] /\ ~ OnLease(b)
<1>1. b \in Leased \cup GatedLeased
  BY DEF ClaimMatched, Selectable
<1>2. QED
  BY <1>1, LeasedFacts

\* A request takes up candidates in no other way than by RouteClaims.
LEMMA OnlyRouteResolves ==
  ASSUME RequestsOK, [ClaimNext]_claimVars,
         NEW r \in ClaimRequests, stage[r] = "idle", stage'[r] = "resolving"
  PROVE  RouteClaims(r)
<1>1. ASSUME NEW q \in ClaimRequests, NEW s \in {"idle", "waiting", "sent"},
             stage' = [stage EXCEPT ![q] = s]
      PROVE  FALSE
  BY <1>1 DEF RequestsOK
<1>2. stage' # stage
  BY DEF RequestsOK
<1>3. ASSUME NEW q \in ClaimRequests, Leave(q) \/ GoOn(q)
      PROVE  FALSE
  BY <1>3, <1>1 DEF Leave, GoOn
<1>4. ASSUME NEW q \in ClaimRequests, RouteClaims(q)
      PROVE  q = r
  BY <1>4 DEF RouteClaims, RequestsOK
<1>5. ASSUME NEW q \in ClaimRequests,
             \/ RouteDiscarded(q) \/ Resolve(q) \/ Dispatch(q)
             \/ RefusedLocally(q) \/ RefusedByLimit(q) \/ Cancelled(q) \/ ClaimOutcome(q)
      PROVE  FALSE
  <2>1. ~ RouteDiscarded(q)
    BY <1>2 DEF RouteDiscarded
  <2>2. ~ Resolve(q) /\ ~ Dispatch(q)
    BY <1>1 DEF Resolve, Dispatch
  <2>3. ~ RefusedLocally(q) /\ ~ RefusedByLimit(q) /\ ~ Cancelled(q)
    BY <1>3 DEF RefusedLocally, RefusedByLimit, Cancelled
  <2>4. ~ Succeeded(q) /\ ~ FailedFast(q) /\ ~ FailedOtherwise(q)
    BY <1>3 DEF Succeeded, FailedFast, FailedOtherwise
  <2>5. QED
    BY <1>5, <2>1, <2>2, <2>3, <2>4 DEF ClaimOutcome
<1>6. ASSUME NEW b \in Claimers, CooldownPasses(b) \/ LeaseExpires(b)
      PROVE  FALSE
  BY <1>6, <1>2 DEF CooldownPasses, LeaseExpires
<1>7. ~ UNCHANGED claimVars
  BY <1>2 DEF claimVars
<1>8. QED
  BY <1>4, <1>5, <1>6, <1>7 DEF ClaimNext

LEMMA RoutingStep == ClaimInv /\ [ClaimNext]_claimVars => RoutedSoundly
<1> SUFFICES ASSUME RequestsOK, ClaimsOK, [ClaimNext]_claimVars,
                    NEW r \in ClaimRequests, stage[r] = "idle", stage'[r] = "resolving",
                    NEW b \in left'[r] \cup {at'[r]}, claimQuarantined[b]
             PROVE  claimCooled[b] /\ ~ (probing[b] /\ ~ expired[b]) /\ probing'[b]
  BY DEF ClaimInv, RoutedSoundly
<1>1. RouteClaims(r)
  BY OnlyRouteResolves
<1>2. b \in ClaimMatched
  BY <1>1 DEF RouteClaims, RequestsOK
<1>3. b \in Claimers /\ b \in Leased \cup GatedLeased /\ claimCooled[b] /\ ~ OnLease(b)
  BY <1>2, MatchedQuarantined
<1>4. probing' = [e \in Claimers |-> probing[e] \/ e \in Leased \cup GatedLeased]
  BY <1>1 DEF RouteClaims, TakeLeases
<1>5. probing'[b]
  BY <1>3, <1>4
<1>6. QED
  BY <1>3, <1>5 DEF OnLease

\* A request is routed to a quarantined claim only as the one that takes the lease,
\* after the cooldown and while nobody holds it.
THEOREM NoTrafficReachesQuarantine == ClaimSpec => NoTrafficWhileQuarantined
<1>1. ClaimInv /\ [ClaimNext]_claimVars => [RoutedSoundly]_claimVars
  BY RoutingStep
<1>2. ClaimSpec => [][RoutedSoundly]_claimVars
  BY <1>1, ClaimCorrect, PTL DEF ClaimSpec
<1>3. QED
  BY <1>2 DEF NoTrafficWhileQuarantined, RoutedSoundly

-----------------------------------------------------------------------------
(* CapacityProbe *)

\* A request in flight asks for a model.
InFlight == \A r \in Requests : flight[r] # "idle" => model[r] \in Models

\* The inductive invariant.
ProbeInv == TypeOK /\ InFlight /\ SingleFlight

\* The names of the parties are apart.
LEMMA Parties ==
  /\ Ticks \subseteq Owners /\ Synthetics \subseteq Owners
  /\ Ticks \cap Requests = {}
  /\ NoOwner \notin Ticks /\ NoOwner \notin Synthetics
  /\ \A r \in Requests : r \notin Synthetics => r \notin Owners
BY CapacityAssumption DEF Owners, Requests

\* The exact targets are models.
LEMMA Targets ==
  /\ Len(Recovery) \in Nat
  /\ DOMAIN Recovery = 1 .. Len(Recovery)
  /\ \A i \in 1 .. Len(Recovery) : Recovery[i] \in Models
BY CapacityAssumption, LenProperties, ElementOfSeq

\* A record that is written is a record.
LEMMA RecordFacts ==
  /\ Absent \in Records /\ Available \in Records
  /\ \A state \in States : Fresh(state) \in Records
BY DEF Absent, Available, Fresh, Records, States, Phases

-----------------------------------------------------------------------------
(* What an answer does to the store *)

LEMMA StoreSet ==
  ASSUME NEW s \in [Keys -> Records], NEW k, NEW rec \in Records
  PROVE  [s EXCEPT ![k] = rec] \in [Keys -> Records]
OBVIOUS

\* However a write ends, the store is a store.
LEMMA SavedType ==
  ASSUME NEW old \in [Keys -> Records], NEW new \in [Keys -> Records], NEW s \in Saved(old, new)
  PROVE  s \in [Keys -> Records]
<1>1. Empty \in [Keys -> Records]
  BY RecordFacts DEF Empty
<1>2. QED
  BY <1>1 DEF Saved

LEMMA ProbeFinishedType ==
  ASSUME store \in [Keys -> Records], NEW m \in Models, NEW answer,
         NEW s \in ProbeFinished(m, answer)
  PROVE  s \in [Keys -> Records]
<1>1. /\ Fresh("exhausted") \in Records
      /\ Fresh("unavailable") \in Records
      /\ Absent \in Records /\ Available \in Records
  BY RecordFacts DEF States
<1>2. Cleared(m) \in [Keys -> Records]
  BY <1>1 DEF Cleared
<1>3. \A state \in {"exhausted", "unavailable"} : BlameStatus(m, state) \in [Keys -> Records]
  BY <1>1 DEF BlameStatus
<1>4. CASE answer = "success"
  BY <1>4, <1>2, SavedType DEF ProbeFinished
<1>5. CASE answer = "exhausted"
  BY <1>5, <1>1, StoreSet, SavedType DEF ProbeFinished
<1>6. CASE answer = "malformed"
  <2>1. PICK cleared \in Saved(store, Cleared(m)) :
          s \in Saved(cleared, [cleared EXCEPT ![m] = Fresh("unavailable")])
    BY <1>6 DEF ProbeFinished
  <2>2. cleared \in [Keys -> Records]
    BY <1>2, SavedType
  <2>3. [cleared EXCEPT ![m] = Fresh("unavailable")] \in [Keys -> Records]
    BY <1>1, <2>2, StoreSet
  <2>4. QED
    BY <2>1, <2>2, <2>3, SavedType
<1>7. CASE answer = "failed"
  BY <1>7, <1>3, SavedType DEF ProbeFinished
<1>8. CASE answer \notin {"success", "exhausted", "malformed", "failed"}
  BY <1>8, <1>3, SavedType DEF ProbeFinished
<1>9. QED
  BY <1>4, <1>5, <1>6, <1>7, <1>8

LEMMA PlainFinishedType ==
  ASSUME store \in [Keys -> Records], NEW m \in Models, NEW answer,
         NEW s \in PlainFinished(m, answer)
  PROVE  s \in [Keys -> Records]
<1>1. Fresh("exhausted") \in Records /\ Fresh("unavailable") \in Records
  BY RecordFacts DEF States
<1>2. Cleared(m) \in [Keys -> Records]
  BY RecordFacts DEF Cleared
<1>3. \A k : \A state \in {"exhausted", "unavailable"} :
        [store EXCEPT ![k] = Fresh(state)] \in [Keys -> Records]
  BY <1>1, StoreSet
<1>4. CASE answer = "success"
  BY <1>4, <1>2, SavedType DEF PlainFinished
<1>5. CASE answer = "exhausted"
  BY <1>5, <1>3, SavedType DEF PlainFinished
<1>6. CASE answer \in {"malformed", "limited"}
  BY <1>6, <1>3, SavedType DEF PlainFinished
<1>7. CASE answer = "failed"
  <2>1. PICK k \in {m, Provider} : s \in Saved(store, [store EXCEPT ![k] = Fresh("unavailable")])
    BY <1>7 DEF PlainFinished
  <2>2. QED
    BY <1>3, <2>1, SavedType
<1>8. CASE answer \notin {"success", "exhausted", "malformed", "limited", "failed"}
  BY <1>8 DEF PlainFinished
<1>9. QED
  BY <1>4, <1>5, <1>6, <1>7, <1>8

-----------------------------------------------------------------------------
(* One lemma per action *)

\* Nothing that SingleFlight is about depends on the store.
LEMMA StoreKeeps ==
  ASSUME ProbeInv, store' \in [Keys -> Records],
         UNCHANGED <<token, scheduled, cursor, flight, model, stops>>
  PROVE  ProbeInv'
BY DEF ProbeInv, TypeOK, InFlight, SingleFlight

LEMMA SendPlainKeeps ==
  ASSUME ProbeInv, NEW r \in Requests, SendPlain(r)
  PROVE  ProbeInv'
<1>1. PICK m \in Models : model' = [model EXCEPT ![r] = m]
  BY DEF SendPlain
<1>2. /\ flight[r] = "idle"
      /\ flight' = [flight EXCEPT ![r] = "plain"]
      /\ UNCHANGED <<store, token, scheduled, cursor, stops>>
  BY DEF SendPlain
<1>3. TypeOK'
  BY <1>1, <1>2 DEF ProbeInv, TypeOK
<1>4. SingleFlight'
  BY <1>2 DEF ProbeInv, TypeOK, SingleFlight, Requests
<1>5. InFlight'
  BY <1>1, <1>2 DEF ProbeInv, TypeOK, InFlight
<1>6. QED
  BY <1>3, <1>4, <1>5 DEF ProbeInv

LEMMA SendProbeKeeps ==
  ASSUME ProbeInv, NEW r \in Requests, SendProbe(r)
  PROVE  ProbeInv'
<1>1. PICK m \in Models : MayProbe(m) /\ model' = [model EXCEPT ![r] = m]
  BY DEF SendProbe
<1>2. /\ r \in Synthetics
      /\ token = NoOwner
      /\ token' = r
      /\ flight' = [flight EXCEPT ![r] = "probe"]
      /\ UNCHANGED <<store, scheduled, cursor, stops>>
  BY <1>1 DEF SendProbe, MayProbe
<1>3. TypeOK'
  BY <1>1, <1>2, Parties DEF ProbeInv, TypeOK
<1>4. /\ \A t \in Ticks : ~ (cursor[t] > 0) /\ scheduled # t /\ t # r
      /\ \A q \in Synthetics : flight[q] # "probe"
      /\ \A q \in Callers : q # r
  BY <1>2, Parties, CapacityAssumption DEF ProbeInv, SingleFlight, Owners, Requests
<1>5. SingleFlight'
  BY <1>2, <1>4 DEF ProbeInv, TypeOK, SingleFlight, Requests
<1>6. InFlight'
  BY <1>1, <1>2 DEF ProbeInv, TypeOK, InFlight
<1>7. QED
  BY <1>3, <1>5, <1>6 DEF ProbeInv

LEMMA AnswerPlainKeeps ==
  ASSUME ProbeInv, NEW r \in Requests, AnswerPlain(r)
  PROVE  ProbeInv'
<1>1. /\ flight[r] = "plain"
      /\ flight' = [flight EXCEPT ![r] = "idle"]
      /\ model' = [model EXCEPT ![r] = NoModel]
      /\ UNCHANGED <<token, scheduled, cursor, stops>>
  BY DEF AnswerPlain
<1>2. PICK answer \in Answers : store' \in PlainFinished(model[r], answer)
  BY DEF AnswerPlain
<1>3. model[r] \in Models
  BY <1>1 DEF ProbeInv, InFlight
<1>4. store' \in [Keys -> Records]
  BY <1>2, <1>3, PlainFinishedType DEF ProbeInv, TypeOK
<1>5. TypeOK'
  BY <1>1, <1>4 DEF ProbeInv, TypeOK
<1>6. InFlight'
  BY <1>1 DEF ProbeInv, TypeOK, InFlight
<1>7. SingleFlight'
  BY <1>1 DEF ProbeInv, TypeOK, SingleFlight, Requests
<1>8. QED
  BY <1>5, <1>6, <1>7 DEF ProbeInv

\* A probe that ends holds the token and gives it back.
LEMMA AnswerProbeKeeps ==
  ASSUME ProbeInv, NEW r \in Requests, AnswerProbe(r)
  PROVE  ProbeInv'
<1>1. PICK answer \in Answers :
        /\ store' \in IF token = r THEN ProbeFinished(model[r], answer) ELSE {store}
        /\ token' = TokenAfter(r, answer)
  BY DEF AnswerProbe
<1>2. /\ flight[r] = "probe"
      /\ flight' = [flight EXCEPT ![r] = "idle"]
      /\ model' = [model EXCEPT ![r] = NoModel]
      /\ UNCHANGED <<scheduled, cursor, stops>>
  BY DEF AnswerProbe
<1>3. r \in Synthetics /\ token = r /\ token' = NoOwner
  BY <1>1, <1>2 DEF ProbeInv, SingleFlight, Requests, TokenAfter
<1>4. store' \in [Keys -> Records]
  BY <1>1, <1>2, <1>3, ProbeFinishedType DEF ProbeInv, TypeOK, InFlight
<1>5. TypeOK'
  BY <1>2, <1>3, <1>4 DEF ProbeInv, TypeOK
<1>6. InFlight'
  BY <1>2 DEF ProbeInv, TypeOK, InFlight
<1>7. /\ \A t \in Ticks : t # r /\ t # NoOwner
      /\ \A q \in Synthetics : q # NoOwner
  BY <1>3, Parties, CapacityAssumption
<1>8. SingleFlight'
  <2>1. \A t \in Ticks : cursor'[t] = cursor[t] /\ ~ (cursor[t] > 0) /\ scheduled' # t
    BY <1>2, <1>3, <1>7 DEF ProbeInv, SingleFlight
  <2>2. \A q \in Synthetics : flight'[q] # "probe"
    BY <1>2, <1>3 DEF ProbeInv, TypeOK, SingleFlight, Requests
  <2>3. \A q \in Callers : flight'[q] # "probe"
    BY <1>2 DEF ProbeInv, TypeOK, SingleFlight, Requests
  <2>4. QED
    BY <1>3, <1>7, <2>1, <2>2, <2>3 DEF SingleFlight
<1>9. QED
  BY <1>5, <1>6, <1>8 DEF ProbeInv

LEMMA TickMarksKeeps ==
  ASSUME ProbeInv, NEW t \in Ticks, TickMarks(t)
  PROVE  ProbeInv'
<1>1. /\ store' \in Saved(store, [store EXCEPT ![Provider] = Fresh("unavailable")])
      /\ UNCHANGED <<token, scheduled, cursor, flight, model, stops>>
  BY DEF TickMarks
<1>2. Fresh("unavailable") \in Records
  BY RecordFacts DEF States
<1>3. store' \in [Keys -> Records]
  BY <1>1, <1>2, StoreSet, SavedType DEF ProbeInv, TypeOK
<1>4. QED
  BY <1>1, <1>3, StoreKeeps

\* A tick starts only where nobody probes.
LEMMA TickStartsKeeps ==
  ASSUME ProbeInv, NEW t \in Ticks, TickStarts(t)
  PROVE  ProbeInv'
<1>1. /\ token' = t
      /\ scheduled' = t
      /\ cursor' = [cursor EXCEPT ![t] = 1]
      /\ UNCHANGED <<store, flight, model, stops>>
  BY DEF TickStarts
<1>2. /\ token = NoOwner
      /\ scheduled = NoOwner
      /\ 1 \in 0 .. Len(Recovery)
  BY Targets DEF TickStarts, Startable, MayProbe
<1>3. TypeOK'
  BY <1>1, <1>2, Parties DEF ProbeInv, TypeOK
<1>4. InFlight'
  BY <1>1 DEF ProbeInv, InFlight
<1>5. SingleFlight'
  <2>1. ASSUME NEW u \in Ticks
        PROVE  /\ cursor'[u] > 0 <=> token' = u
               /\ cursor'[u] > 0 <=> scheduled' = u
    <3>1. CASE u = t
      BY <3>1, <1>1 DEF ProbeInv, TypeOK
    <3>2. CASE u # t
      BY <3>2, <1>1, <1>2, Parties DEF ProbeInv, TypeOK, SingleFlight
    <3>3. QED
      BY <3>1, <3>2
  <2>2. \A q \in Synthetics : q # t /\ flight'[q] # "probe"
    BY <1>1, <1>2, Parties, CapacityAssumption DEF ProbeInv, SingleFlight
  <2>3. \A q \in Callers : flight'[q] # "probe"
    BY <1>1 DEF ProbeInv, SingleFlight
  <2>4. QED
    BY <1>1, <2>1, <2>2, <2>3 DEF SingleFlight
<1>6. QED
  BY <1>3, <1>4, <1>5 DEF ProbeInv

\* The transaction goes on to the next target, or ends with token and entry.
LEMMA ProbeEndsKeeps ==
  ASSUME ProbeInv, NEW t \in Ticks, NEW answer \in Answers, ProbeEnds(t, answer)
  PROVE  ProbeInv'
<1> DEFINE i == cursor[t]
<1>1. /\ i > 0
      /\ store' \in IF token = t THEN ProbeFinished(Recovery[i], answer) ELSE {store}
      /\ UNCHANGED <<flight, model, stops>>
  BY DEF ProbeEnds
<1>2. /\ token = t /\ scheduled = t
      /\ i \in 1 .. Len(Recovery)
      /\ Recovery[i] \in Models
  BY <1>1, Targets DEF ProbeInv, TypeOK, SingleFlight
<1>3. store' \in [Keys -> Records]
  BY <1>1, <1>2, ProbeFinishedType DEF ProbeInv, TypeOK
<1>4. InFlight'
  BY <1>1 DEF ProbeInv, InFlight
<1>5. /\ \A u \in Ticks : u # t => ~ (cursor[u] > 0)
      /\ \A q \in Synthetics : q # t /\ q # NoOwner /\ flight'[q] # "probe"
      /\ \A q \in Callers : flight'[q] # "probe"
  BY <1>1, <1>2, Parties, CapacityAssumption DEF ProbeInv, SingleFlight
<1>6. CASE /\ MoreTargets(i)
           /\ token' = t
           /\ cursor' = [cursor EXCEPT ![t] = i + 1]
           /\ UNCHANGED scheduled
  <2>1. i + 1 \in 1 .. Len(Recovery)
    BY <1>2, <1>6, Targets DEF MoreTargets
  <2>2. TypeOK'
    BY <1>1, <1>2, <1>3, <1>6, <2>1, Parties DEF ProbeInv, TypeOK
  <2>3. ASSUME NEW u \in Ticks
        PROVE  /\ cursor'[u] > 0 <=> token' = u
               /\ cursor'[u] > 0 <=> scheduled' = u
    <3>1. CASE u = t
      BY <3>1, <1>2, <1>6, <2>1 DEF ProbeInv, TypeOK
    <3>2. CASE u # t
      BY <3>2, <1>2, <1>5, <1>6 DEF ProbeInv, TypeOK
    <3>3. QED
      BY <3>1, <3>2
  <2>4. SingleFlight'
    BY <1>5, <1>6, <2>3 DEF SingleFlight
  <2>5. QED
    BY <1>4, <2>2, <2>4 DEF ProbeInv
<1>7. CASE /\ token' = NoOwner
           /\ scheduled' = NoOwner
           /\ cursor' = [cursor EXCEPT ![t] = 0]
  <2>1. TypeOK'
    BY <1>1, <1>3, <1>7, Targets DEF ProbeInv, TypeOK
  <2>2. ASSUME NEW u \in Ticks
        PROVE  ~ (cursor'[u] > 0) /\ u # NoOwner
    <3>1. CASE u = t
      BY <3>1, <1>7, Parties DEF ProbeInv, TypeOK
    <3>2. CASE u # t
      BY <3>2, <1>5, <1>7, Parties DEF ProbeInv, TypeOK
    <3>3. QED
      BY <3>1, <3>2
  <2>3. SingleFlight'
    BY <1>5, <1>7, <2>2 DEF SingleFlight
  <2>4. QED
    BY <1>4, <2>1, <2>3 DEF ProbeInv
<1>8. QED
  BY <1>2, <1>6, <1>7 DEF ProbeEnds

LEMMA TickAnsweredKeeps ==
  ASSUME ProbeInv, NEW t \in Ticks, TickAnswered(t)
  PROVE  ProbeInv'
BY ProbeEndsKeeps DEF TickAnswered

LEMMA TimeKeeps ==
  ASSUME ProbeInv, NEW k \in Keys, NEW phase \in Phases,
         store' = [store EXCEPT ![k].phase = phase],
         UNCHANGED <<token, scheduled, cursor, flight, model, stops>>
  PROVE  ProbeInv'
<1>1. store' \in [Keys -> Records]
  BY DEF ProbeInv, TypeOK, Records
<1>2. QED
  BY <1>1, StoreKeeps

\* Nobody probes after a restart.
LEMMA StopKeeps ==
  ASSUME ProbeInv, Stop
  PROVE  ProbeInv'
<1>1. /\ token' = NoOwner
      /\ scheduled' = NoOwner
      /\ cursor' = [t \in Ticks |-> 0]
      /\ flight' = [r \in Requests |-> "idle"]
      /\ model' = [r \in Requests |-> NoModel]
      /\ stops' = stops + 1 /\ stops < MaxStops
  BY DEF Stop
<1>2. \A rec \in Records : Aged(rec) \in Records
  BY DEF Aged, Records, Phases
<1>3. store' = store \/ store' = [k \in Keys |-> Aged(store[k])]
  BY DEF Stop
<1>4. store' \in [Keys -> Records]
  BY <1>2, <1>3 DEF ProbeInv, TypeOK
<1>5. stops' \in 0 .. MaxStops
  BY <1>1, CapacityAssumption DEF ProbeInv, TypeOK
<1>6. TypeOK'
  BY <1>1, <1>4, <1>5, Targets DEF TypeOK
<1>7. InFlight'
  BY <1>1 DEF InFlight
<1>8. SingleFlight'
  BY <1>1, Parties DEF SingleFlight, Requests
<1>9. QED
  BY <1>6, <1>7, <1>8 DEF ProbeInv

-----------------------------------------------------------------------------
(* The theorems *)

LEMMA ProbeInit == Init => ProbeInv
<1> SUFFICES ASSUME Init PROVE ProbeInv
  OBVIOUS
<1>1. TypeOK
  BY RecordFacts, Targets, CapacityAssumption DEF Init, Empty, TypeOK
<1>2. InFlight /\ SingleFlight
  BY Parties DEF Init, InFlight, SingleFlight, Requests
<1>3. QED
  BY <1>1, <1>2 DEF ProbeInv

LEMMA ProbeStep == ProbeInv /\ [Next]_capVars => ProbeInv'
<1> SUFFICES ASSUME ProbeInv, [Next]_capVars
             PROVE  ProbeInv'
  OBVIOUS
<1>1. ASSUME NEW r \in Requests,
             SendPlain(r) \/ SendProbe(r) \/ AnswerPlain(r) \/ AnswerProbe(r)
      PROVE  ProbeInv'
  BY <1>1, SendPlainKeeps, SendProbeKeeps, AnswerPlainKeeps, AnswerProbeKeeps
<1>2. ASSUME NEW t \in Ticks, TickMarks(t) \/ TickStarts(t) \/ TickAnswered(t)
      PROVE  ProbeInv'
  BY <1>2, TickMarksKeeps, TickStartsKeeps, TickAnsweredKeeps
<1>3. ASSUME NEW k \in Keys, RecordDue(k)
      PROVE  ProbeInv'
  BY <1>3, TimeKeeps DEF RecordDue, Phases
<1>4. ASSUME NEW m \in Models, RecordStale(m)
      PROVE  ProbeInv'
  <2>1. m \in Keys /\ "stale" \in Phases
    BY DEF Keys, Phases
  <2>2. QED
    BY <1>4, <2>1, TimeKeeps DEF RecordStale
<1>5. CASE UNCHANGED capVars
  BY <1>5 DEF capVars, ProbeInv, TypeOK, InFlight, SingleFlight
<1>6. QED
  BY <1>1, <1>2, <1>3, <1>4, <1>5, StopKeeps DEF Next

\* The conjunction is an invariant of every behaviour of the store and its probes.
THEOREM ProbeCorrect == Spec => []ProbeInv
BY ProbeInit, ProbeStep, PTL DEF Spec

\* Every variable has its type.
THEOREM TypeCorrect == Spec => []TypeOK
<1>1. ProbeInv => TypeOK
  BY DEF ProbeInv
<1>2. QED
  BY ProbeCorrect, <1>1, PTL

\* Whatever the number of ticks and public probes, one probes the provider at a time,
\* and the token is exactly with it.
THEOREM OneProbe == Spec => []SingleFlight
<1>1. ProbeInv => SingleFlight
  BY DEF ProbeInv
<1>2. QED
  BY ProbeCorrect, <1>1, PTL
=============================================================================
