----------------------------- MODULE LineLemmas -----------------------------
(***************************************************************************)
(* Facts about lines: sequences that grow at one end and lose elements at  *)
(* the other end and in the middle, as the queues of ConnectionPool and    *)
(* the lines of SlotDoor do, and sequences that are filtered and joined,   *)
(* as the candidates of ModelRouting, the sessions of Sessions and the     *)
(* files of SiemOutputs are.                                               *)
(***************************************************************************)
EXTENDS Integers, SequencesExt, SequenceTheorems, WellFoundedInduction, TLAPS

\* What splice(i, 1) leaves: one element less, the others in their order.
LEMMA RemoveAtFacts ==
  ASSUME NEW S, NEW q \in Seq(S), NEW i \in 1..Len(q)
  PROVE  /\ RemoveAt(q, i) \in Seq(S)
         /\ Len(RemoveAt(q, i)) = Len(q) - 1
         /\ \A j \in 1..(Len(q) - 1) :
              RemoveAt(q, i)[j] = IF j < i THEN q[j] ELSE q[j + 1]
<1> DEFINE a == SubSeq(q, 1, i - 1)
           b == SubSeq(q, i + 1, Len(q))
<1>0. /\ Len(q) \in Nat
      /\ \A j \in 1..Len(q) : q[j] \in S
  BY LenProperties, ElementOfSeq
<1>1. /\ a \in Seq(S)
      /\ Len(a) = i - 1
      /\ \A j \in 1..(i - 1) : a[j] = q[j]
  <2>1. \A j \in 1..(i - 1) : q[j] \in S
    BY <1>0
  <2>2. /\ a \in Seq(S)
        /\ Len(a) = IF 1 <= i - 1 THEN i - 1 - 1 + 1 ELSE 0
        /\ \A j \in 1..(i - 1 - 1 + 1) : a[j] = q[1 + j - 1]
    BY <2>1, <1>0, SubSeqProperties
  <2>3. QED
    BY <2>2, <1>0
<1>2. /\ b \in Seq(S)
      /\ Len(b) = Len(q) - i
      /\ \A j \in 1..(Len(q) - i) : b[j] = q[i + j]
  <2>1. \A j \in (i + 1)..Len(q) : q[j] \in S
    BY <1>0
  <2>2. /\ b \in Seq(S)
        /\ Len(b) = IF i + 1 <= Len(q) THEN Len(q) - (i + 1) + 1 ELSE 0
        /\ \A j \in 1..(Len(q) - (i + 1) + 1) : b[j] = q[i + 1 + j - 1]
    BY <2>1, <1>0, SubSeqProperties
  <2>3. QED
    BY <2>2, <1>0
<1>3. /\ a \o b \in Seq(S)
      /\ Len(a \o b) = Len(a) + Len(b)
      /\ \A j \in 1..(Len(a) + Len(b)) :
           (a \o b)[j] = IF j <= Len(a) THEN a[j] ELSE b[j - Len(a)]
  BY <1>1, <1>2, ConcatProperties
<1>4. RemoveAt(q, i) = a \o b
  BY DEF RemoveAt
<1> HIDE DEF a, b
<1>5. Len(a) + Len(b) = Len(q) - 1
  BY <1>0, <1>1, <1>2
<1>6. ASSUME NEW j \in 1..(Len(q) - 1)
      PROVE  (a \o b)[j] = IF j < i THEN q[j] ELSE q[j + 1]
  <2>1. CASE j < i
    BY <2>1, <1>0, <1>1, <1>3, <1>5
  <2>2. CASE ~ (j < i)
    <3>1. (a \o b)[j] = b[j - (i - 1)]
      BY <2>2, <1>0, <1>1, <1>3, <1>5
    <3>2. j - (i - 1) \in 1..(Len(q) - i) /\ i + (j - (i - 1)) = j + 1
      BY <2>2, <1>0
    <3>3. QED
      BY <3>1, <3>2, <1>2, <2>2
  <2>3. QED
    BY <2>1, <2>2
<1>7. QED
  BY <1>3, <1>4, <1>5, <1>6

\* What a run of shift() leaves after the first i elements.
LEMMA SuffixFacts ==
  ASSUME NEW S, NEW q \in Seq(S), NEW i \in 1..Len(q)
  PROVE  /\ SubSeq(q, i + 1, Len(q)) \in Seq(S)
         /\ Len(SubSeq(q, i + 1, Len(q))) = Len(q) - i
         /\ \A j \in 1..(Len(q) - i) : SubSeq(q, i + 1, Len(q))[j] = q[i + j]
<1> DEFINE b == SubSeq(q, i + 1, Len(q))
<1>0. /\ Len(q) \in Nat
      /\ \A j \in (i + 1)..Len(q) : q[j] \in S
  BY LenProperties, ElementOfSeq
<1>1. /\ b \in Seq(S)
      /\ Len(b) = IF i + 1 <= Len(q) THEN Len(q) - (i + 1) + 1 ELSE 0
      /\ \A j \in 1..(Len(q) - (i + 1) + 1) : b[j] = q[i + 1 + j - 1]
  BY <1>0, SubSeqProperties
<1>2. QED
  BY <1>0, <1>1

\* A nonempty set of positions has a least one.
LEMMA LeastPosition ==
  ASSUME NEW n \in Nat, NEW P \in SUBSET (1..n), P # {}
  PROVE  Min(P) \in P /\ \A j \in P : Min(P) <= j
<1>1. PICK p \in P : \A j \in P : p <= j
  <2>1. P \subseteq Nat
    OBVIOUS
  <2>2. PICK p \in P : \A j \in P : ~ (<<j, p>> \in OpToRel(<, Nat))
    BY <2>1, NatLessThanWellFounded, WFMin
  <2>3. \A j \in P : ~ (j < p)
    BY <2>1, <2>2 DEF OpToRel
  <2>4. QED
    BY <2>1, <2>3
<1>2. QED
  BY <1>1 DEF Min

\* And a greatest one.
LEMMA GreatestPosition ==
  ASSUME NEW n \in Nat, NEW P \in SUBSET (1..n), P # {}
  PROVE  Max(P) \in P /\ \A j \in P : j <= Max(P)
<1> DEFINE Q == {n + 1 - j : j \in P}
<1>1. /\ Q \in SUBSET (1..n) /\ Q # {}
      /\ \A k \in Q : n + 1 - k \in P
  <2>1. \A j \in P : j \in 1..n /\ n + 1 - j \in 1..n /\ n + 1 - (n + 1 - j) = j
    OBVIOUS
  <2>2. Q \subseteq 1..n
    BY <2>1
  <2>3. ASSUME NEW k \in Q PROVE n + 1 - k \in P
    <3>1. PICK j \in P : k = n + 1 - j
      OBVIOUS
    <3>2. QED
      BY <2>1, <3>1
  <2>4. QED
    BY <2>2, <2>3
<1>2. Min(Q) \in Q /\ \A k \in Q : Min(Q) <= k
  <2> HIDE DEF Q
  <2>1. QED
    BY <1>1, LeastPosition
<1>3. PICK p \in P : \A j \in P : j <= p
  <2>1. n + 1 - Min(Q) \in P
    BY <1>1, <1>2
  <2>2. ASSUME NEW j \in P
        PROVE  j <= n + 1 - Min(Q)
    <3>1. n + 1 - j \in Q
      OBVIOUS
    <3>2. Min(Q) <= n + 1 - j /\ Min(Q) \in Int
      BY <1>1, <1>2, <3>1
    <3> HIDE DEF Q
    <3>3. QED
      BY <3>2
  <2>3. QED
    BY <2>1, <2>2
<1>4. QED
  BY <1>3 DEF Max

-----------------------------------------------------------------------------
(* Lines in which nobody stands twice *)

OnceEach(s) == \A i, j \in 1 .. Len(s) : s[i] = s[j] => i = j

\* Who joins at the tail stands there once, and nobody else is moved.
LEMMA JoinedFacts ==
  ASSUME NEW S, NEW s \in Seq(S), NEW g \in S, ~ Contains(s, g), OnceEach(s)
  PROVE  /\ Append(s, g) \in Seq(S)
         /\ OnceEach(Append(s, g))
         /\ \A h : Contains(Append(s, g), h) <=> Contains(s, h) \/ h = g
<1>1. /\ Append(s, g) \in Seq(S)
      /\ Len(s) \in Nat
      /\ Len(Append(s, g)) = Len(s) + 1
      /\ Append(s, g)[Len(s) + 1] = g
      /\ \A i \in 1 .. Len(s) : Append(s, g)[i] = s[i]
  BY AppendProperties, LenProperties
<1>2. \A i \in 1 .. Len(s) : s[i] # g
  BY DEF Contains
<1>3. OnceEach(Append(s, g))
  BY <1>1, <1>2 DEF OnceEach
<1>4. ASSUME NEW h
      PROVE  Contains(Append(s, g), h) <=> Contains(s, h) \/ h = g
  BY <1>1 DEF Contains
<1>5. QED
  BY <1>1, <1>3, <1>4

\* Who leaves the line is gone from it, and everybody else is still there.
LEMMA LeftFacts ==
  ASSUME NEW S, NEW s \in Seq(S), NEW i \in 1 .. Len(s), OnceEach(s)
  PROVE  /\ RemoveAt(s, i) \in Seq(S)
         /\ OnceEach(RemoveAt(s, i))
         /\ \A h : Contains(RemoveAt(s, i), h) <=> Contains(s, h) /\ h # s[i]
<1> DEFINE t == RemoveAt(s, i)
<1>1. /\ t \in Seq(S)
      /\ Len(s) \in Nat
      /\ Len(t) = Len(s) - 1
      /\ \A j \in 1 .. Len(s) - 1 : t[j] = IF j < i THEN s[j] ELSE s[j + 1]
  BY RemoveAtFacts, LenProperties
<1> HIDE DEF t
<1>2. OnceEach(t)
  <2>1. SUFFICES ASSUME NEW j \in 1 .. Len(t), NEW k \in 1 .. Len(t), t[j] = t[k]
                 PROVE  j = k
    BY DEF OnceEach
  <2>2. \A a, b \in 1 .. Len(s) : s[a] = s[b] => a = b
    BY DEF OnceEach
  <2> DEFINE from(x) == IF x < i THEN x ELSE x + 1
  <2>3. from(j) \in 1 .. Len(s) /\ t[j] = s[from(j)]
    BY <1>1, <2>1
  <2>4. from(k) \in 1 .. Len(s) /\ t[k] = s[from(k)]
    BY <1>1, <2>1
  <2>5. from(j) = from(k) => j = k
    BY <1>1, <2>1
  <2> HIDE DEF from
  <2>6. from(j) = from(k)
    BY <2>1, <2>2, <2>3, <2>4
  <2>7. QED
    BY <2>5, <2>6
<1>3. ASSUME NEW h, Contains(t, h)
      PROVE  Contains(s, h) /\ h # s[i]
  <2>1. PICK j \in 1 .. Len(t) : t[j] = h
    BY <1>3 DEF Contains
  <2>2. PICK k \in 1 .. Len(s) : s[k] = h /\ k # i
    BY <1>1, <2>1
  <2>3. QED
    BY <2>2 DEF Contains, OnceEach
<1>4. ASSUME NEW h, Contains(s, h), h # s[i]
      PROVE  Contains(t, h)
  <2>1. PICK k \in 1 .. Len(s) : s[k] = h /\ k # i
    BY <1>4 DEF Contains
  <2>2. CASE k < i
    <3>1. k \in 1 .. Len(t) /\ t[k] = h
      BY <1>1, <2>1, <2>2
    <3>2. QED
      BY <3>1 DEF Contains
  <2>3. CASE k > i
    <3>1. k - 1 \in 1 .. Len(t) /\ t[k - 1] = s[(k - 1) + 1] /\ (k - 1) + 1 = k
      BY <1>1, <2>1, <2>3
    <3>2. QED
      BY <2>1, <3>1 DEF Contains
  <2>4. QED
    BY <2>1, <2>2, <2>3, <1>1
<1>5. QED
  BY <1>1, <1>2, <1>3, <1>4 DEF t

\* The head is admitted: it is gone, and the others still wait.
LEMMA AdmittedFacts ==
  ASSUME NEW S, NEW s \in Seq(S), s # <<>>, OnceEach(s)
  PROVE  /\ Head(s) \in S /\ Contains(s, Head(s))
         /\ Tail(s) \in Seq(S)
         /\ OnceEach(Tail(s))
         /\ \A h : Contains(Tail(s), h) <=> Contains(s, h) /\ h # Head(s)
<1>1. /\ Len(s) \in Nat \ {0}
      /\ Head(s) = s[1] /\ Head(s) \in S
      /\ Tail(s) \in Seq(S)
      /\ Len(Tail(s)) = Len(s) - 1
      /\ \A j \in 1 .. Len(s) - 1 : Tail(s)[j] = s[j + 1]
  BY HeadTailProperties, LenProperties, EmptySeq
<1>2. Contains(s, Head(s))
  BY <1>1 DEF Contains
<1>3. OnceEach(Tail(s))
  <2>1. SUFFICES ASSUME NEW j \in 1 .. Len(Tail(s)), NEW k \in 1 .. Len(Tail(s)),
                        Tail(s)[j] = Tail(s)[k]
                 PROVE  j = k
    BY DEF OnceEach
  <2>2. \A a, b \in 1 .. Len(s) : s[a] = s[b] => a = b
    BY DEF OnceEach
  <2>3. QED
    BY <1>1, <2>1, <2>2
<1>4. ASSUME NEW h, Contains(Tail(s), h)
      PROVE  Contains(s, h) /\ h # Head(s)
  <2>1. PICK j \in 1 .. Len(Tail(s)) : Tail(s)[j] = h
    BY <1>4 DEF Contains
  <2>2. j + 1 \in 1 .. Len(s) /\ s[j + 1] = h /\ j + 1 # 1
    BY <1>1, <2>1
  <2>3. QED
    BY <1>1, <2>2 DEF Contains, OnceEach
<1>5. ASSUME NEW h, Contains(s, h), h # Head(s)
      PROVE  Contains(Tail(s), h)
  <2>1. PICK k \in 1 .. Len(s) : s[k] = h /\ k # 1
    BY <1>1, <1>5 DEF Contains
  <2>2. k - 1 \in 1 .. Len(Tail(s)) /\ Tail(s)[k - 1] = s[(k - 1) + 1] /\ (k - 1) + 1 = k
    BY <1>1, <2>1
  <2>3. QED
    BY <2>1, <2>2 DEF Contains
<1>6. QED
  BY <1>1, <1>2, <1>3, <1>4, <1>5

-----------------------------------------------------------------------------
(* Lines that are joined and filtered *)

\* Induction over the natural numbers, with the set of those that are fine for
\* the property.
LEMMA NatSetInduction ==
  ASSUME NEW S, 0 \in S, \A n \in Nat : n \in S => n + 1 \in S
  PROVE  Nat \subseteq S
<1> DEFINE Bad == Nat \ S
<1>1. SUFFICES ASSUME Bad # {} PROVE FALSE
  OBVIOUS
<1>2. PICK x \in Bad : \A y \in Bad : x <= y
  <2>1. Bad \subseteq Nat
    OBVIOUS
  <2> HIDE DEF Bad
  <2>2. PICK x \in Bad : \A y \in Bad : ~ (<<y, x>> \in OpToRel(<, Nat))
    BY <1>1, <2>1, NatLessThanWellFounded, WFMin
  <2>3. \A y \in Bad : ~ (y < x)
    BY <2>1, <2>2 DEF OpToRel
  <2>4. QED
    BY <2>1, <2>3
<1>3. x # 0 /\ x \in Nat /\ x - 1 \in Nat
  OBVIOUS
<1>4. x - 1 \notin Bad
  BY <1>2, <1>3
<1>5. QED
  BY <1>3, <1>4

\* The recursion of FlattenSeq() has a solution on every prefix.
Solves(seqs, f, n) == f = [i \in 1 .. n |-> IF i = 1 THEN seqs[i] ELSE f[i - 1] \o seqs[i]]

LEMMA FlattenSolves ==
  ASSUME NEW seqs, NEW n \in Nat
  PROVE  \E f : Solves(seqs, f, n)
<1> DEFINE Fine == {k \in Nat : \E f : Solves(seqs, f, k)}
<1>1. 0 \in Fine
  <2>1. Solves(seqs, [i \in 1 .. 0 |-> seqs], 0)
    BY DEF Solves
  <2>2. QED
    BY <2>1
<1>2. ASSUME NEW k \in Nat, k \in Fine
      PROVE  k + 1 \in Fine
  <2>1. PICK f : Solves(seqs, f, k)
    BY <1>2
  <2> DEFINE next == IF k + 1 = 1 THEN seqs[k + 1] ELSE f[k] \o seqs[k + 1]
             g == [i \in 1 .. k + 1 |-> IF i = k + 1 THEN next ELSE f[i]]
  <2>2. ASSUME NEW i \in 1 .. k + 1
        PROVE  g[i] = IF i = 1 THEN seqs[i] ELSE g[i - 1] \o seqs[i]
    <3>1. CASE i = k + 1
      <4>1. g[i] = next
        BY <3>1
      <4>2. CASE i = 1
        BY <4>1, <4>2, <3>1
      <4>3. CASE i # 1
        <5>1. i - 1 = k /\ k \in 1 .. k + 1 /\ k # k + 1
          BY <3>1, <4>3
        <5>2. g[i - 1] = f[k]
          BY <5>1
        <5>3. QED
          BY <4>1, <4>3, <5>2, <3>1
      <4>4. QED
        BY <4>2, <4>3
    <3>2. CASE i # k + 1
      <4>1. i \in 1 .. k /\ (i # 1 => i - 1 \in 1 .. k + 1 /\ i - 1 # k + 1)
        BY <3>2
      <4>2. f[i] = IF i = 1 THEN seqs[i] ELSE f[i - 1] \o seqs[i]
        BY <2>1, <4>1 DEF Solves
      <4>3. g[i] = f[i] /\ (i # 1 => g[i - 1] = f[i - 1])
        BY <4>1, <3>2
      <4> HIDE DEF g
      <4>4. QED
        BY <4>2, <4>3
    <3>3. QED
      BY <3>1, <3>2
  <2>3. Solves(seqs, g, k + 1)
    <3>1. g = [i \in 1 .. k + 1 |-> g[i]]
      OBVIOUS
    <3> HIDE DEF g
    <3>2. QED
      BY <3>1, <2>2 DEF Solves
  <2>4. QED
    BY <2>3
<1> HIDE DEF Fine
<1>3. Nat \subseteq Fine
  BY <1>1, <1>2, NatSetInduction
<1>4. QED
  BY <1>3 DEF Fine

\* What FlattenSeq() computes, piece by piece.
LEMMA FlattenSteps ==
  ASSUME NEW T, NEW seqs \in Seq(T), Len(seqs) # 0
  PROVE  \E f : /\ FlattenSeq(seqs) = f[Len(seqs)]
                /\ \A i \in 1 .. Len(seqs) : f[i] = IF i = 1 THEN seqs[i] ELSE f[i - 1] \o seqs[i]
<1> DEFINE n == Len(seqs)
           F == CHOOSE f : f = [i \in 1 .. n |-> IF i = 1 THEN seqs[i] ELSE f[i - 1] \o seqs[i]]
<1>1. \E f : f = [i \in 1 .. n |-> IF i = 1 THEN seqs[i] ELSE f[i - 1] \o seqs[i]]
  <2>1. n \in Nat
    BY LenProperties
  <2> HIDE DEF n
  <2>2. \E f : Solves(seqs, f, n)
    BY <2>1, FlattenSolves
  <2>3. QED
    BY <2>2 DEF Solves
<1>2. F = [i \in 1 .. n |-> IF i = 1 THEN seqs[i] ELSE F[i - 1] \o seqs[i]]
  BY <1>1
<1>3. FlattenSeq(seqs) = F[n]
  BY DEF FlattenSeq
<1> HIDE DEF F
<1>4. QED
  BY <1>2, <1>3

\* What a filter keeps, as a piece for every position.
Picked(s, I) == FlattenSeq([i \in DOMAIN s |-> IF i \in I THEN <<s[i]>> ELSE <<>>])
\* The line p has the places I of the first n of s, in their order; h says which is
\* where.
PicksBy(p, h, s, I, n) ==
  /\ h \in [1 .. Len(p) -> 1 .. n]
  /\ \A j \in 1 .. Len(p) : h[j] \in I /\ p[j] = s[h[j]]
  /\ \A i, j \in 1 .. Len(p) : i < j => h[i] < h[j]
  /\ \A i \in 1 .. n : i \in I => \E j \in 1 .. Len(p) : h[j] = i

\* One more place is looked at.
LEMMA PickOneMore ==
  ASSUME NEW T, NEW s \in Seq(T), NEW I, NEW k \in Nat, k + 1 \in 1 .. Len(s),
         NEW p \in Seq(T), NEW h, PicksBy(p, h, s, I, k)
  PROVE  \E g : PicksBy(p \o (IF k + 1 \in I THEN <<s[k + 1]>> ELSE <<>>), g, s, I, k + 1)
<1>0. Len(p) \in Nat /\ s[k + 1] \in T /\ <<s[k + 1]>> \in Seq(T)
  BY LenProperties, ElementOfSeq
<1>1. CASE k + 1 \in I
  <2> DEFINE q == p \o <<s[k + 1]>>
             g == [j \in 1 .. Len(p) + 1 |-> IF j = Len(p) + 1 THEN k + 1 ELSE h[j]]
  <2>1. /\ Len(q) = Len(p) + 1
        /\ \A j \in 1 .. Len(p) + 1 : q[j] = IF j = Len(p) + 1 THEN s[k + 1] ELSE p[j]
    <3>1. Len(<<s[k + 1]>>) = 1 /\ <<s[k + 1]>>[1] = s[k + 1]
      OBVIOUS
    <3>2. /\ Len(q) = Len(p) + Len(<<s[k + 1]>>)
          /\ \A j \in 1 .. Len(p) + Len(<<s[k + 1]>>) :
               q[j] = IF j <= Len(p) THEN p[j] ELSE <<s[k + 1]>>[j - Len(p)]
      BY <1>0, ConcatProperties
    <3> HIDE DEF q
    <3>3. QED
      BY <1>0, <3>1, <3>2
  <2> HIDE DEF q
  <2>2. \A j \in 1 .. Len(p) : j \in 1 .. Len(p) + 1 /\ j # Len(p) + 1 /\ g[j] = h[j] /\ h[j] \in 1 .. k /\ h[j] \in 1 .. k + 1
    BY <1>0 DEF PicksBy
  <2>3. g[Len(p) + 1] = k + 1 /\ Len(p) + 1 \in 1 .. Len(p) + 1 /\ k + 1 \in 1 .. k + 1
    BY <1>0
  <2>4. \A j \in 1 .. Len(p) + 1 : j = Len(p) + 1 \/ j \in 1 .. Len(p)
    BY <1>0
  <2>5. g \in [1 .. Len(p) + 1 -> 1 .. k + 1]
    <3>1. \A j \in 1 .. Len(p) + 1 : g[j] \in 1 .. k + 1
      BY <2>2, <2>3, <2>4
    <3>2. QED
      BY <3>1
  <2> HIDE DEF g
  <2>6. \A j \in 1 .. Len(p) + 1 : g[j] \in I /\ q[j] = s[g[j]]
    BY <1>1, <2>1, <2>2, <2>3, <2>4 DEF PicksBy
  <2>7. ASSUME NEW i \in 1 .. Len(p) + 1, NEW j \in 1 .. Len(p) + 1, i < j
        PROVE  g[i] < g[j]
    <3>1. i \in 1 .. Len(p)
      BY <2>7, <1>0
    <3>2. CASE j = Len(p) + 1
      BY <2>2, <2>3, <3>1, <3>2
    <3>3. CASE j \in 1 .. Len(p)
      BY <2>2, <2>7, <3>1, <3>3 DEF PicksBy
    <3>4. QED
      BY <2>4, <3>2, <3>3
  <2>8. ASSUME NEW i \in 1 .. k + 1, i \in I
        PROVE  \E j \in 1 .. Len(p) + 1 : g[j] = i
    <3>1. CASE i = k + 1
      BY <2>3, <3>1
    <3>2. CASE i # k + 1
      <4>1. i \in 1 .. k
        BY <3>2
      <4>2. PICK j \in 1 .. Len(p) : h[j] = i
        BY <2>8, <4>1 DEF PicksBy
      <4>3. QED
        BY <2>2, <4>2
    <3>3. QED
      BY <3>1, <3>2
  <2>9. PicksBy(q, g, s, I, k + 1)
    BY <2>1, <2>5, <2>6, <2>7, <2>8 DEF PicksBy
  <2>10. QED
    BY <1>1, <2>9 DEF q
<1>2. CASE k + 1 \notin I
  <2>1. p \o <<>> = p
    BY ConcatEmptySeq
  <2>2. \A i \in 1 .. k + 1 : i \in I => i \in 1 .. k
    BY <1>2
  <2>3. h \in [1 .. Len(p) -> 1 .. k + 1]
    <3>1. 1 .. k \subseteq 1 .. k + 1
      OBVIOUS
    <3>2. QED
      BY <3>1 DEF PicksBy
  <2>4. PicksBy(p, h, s, I, k + 1)
    BY <2>2, <2>3 DEF PicksBy
  <2>5. QED
    BY <1>2, <2>1, <2>4
<1>3. QED
  BY <1>1, <1>2

\* Picked() leaves the places I of a line, in their order.
LEMMA PickedFacts ==
  ASSUME NEW T, NEW s \in Seq(T), NEW I
  PROVE  /\ Picked(s, I) \in Seq(T)
         /\ \E h : PicksBy(Picked(s, I), h, s, I, Len(s))
<1> DEFINE n == Len(s)
           seqs == [i \in 1 .. n |-> IF i \in I THEN <<s[i]>> ELSE <<>>]
<1>0. n \in Nat /\ DOMAIN s = 1 .. n
  BY LenProperties
<1>1. Picked(s, I) = FlattenSeq(seqs)
  BY <1>0 DEF Picked
<1>2. seqs \in Seq(Seq(T)) /\ Len(seqs) = n
  <2>1. \A i \in 1 .. n : (IF i \in I THEN <<s[i]>> ELSE <<>>) \in Seq(T)
    BY <1>0, ElementOfSeq
  <2>2. seqs \in [1 .. n -> Seq(T)]
    BY <2>1
  <2>3. QED
    BY <2>2, <1>0
<1>3. \A i \in 1 .. n : seqs[i] = IF i \in I THEN <<s[i]>> ELSE <<>>
  OBVIOUS
<1>4. CASE n = 0
  <2>1. FlattenSeq(seqs) = seqs
    BY <1>2, <1>4 DEF FlattenSeq
  <2> HIDE DEF seqs, n
  <2>2. seqs = <<>>
    BY <1>2, <1>4, EmptySeq
  <2>3. PicksBy(<<>>, <<>>, s, I, 0)
    BY DEF PicksBy
  <2>4. QED
    BY <1>1, <1>4, <2>1, <2>2, <2>3 DEF n
<1>5. CASE n # 0
  <2> HIDE DEF seqs
  <2>1. PICK f : /\ FlattenSeq(seqs) = f[n]
                 /\ \A i \in 1 .. n : f[i] = IF i = 1 THEN seqs[i] ELSE f[i - 1] \o seqs[i]
    BY <1>2, <1>5, FlattenSteps
  <2> DEFINE Fine == {k \in Nat : k + 1 \in 1 .. n =>
                        f[k + 1] \in Seq(T) /\ \E h : PicksBy(f[k + 1], h, s, I, k + 1)}
  <2> HIDE DEF n
  <2>2. 0 \in Fine
    <3>1. f[1] = <<>> \o (IF 0 + 1 \in I THEN <<s[0 + 1]>> ELSE <<>>)
      <4>1. 1 \in 1 .. n
        BY <1>0, <1>5
      <4>2. f[1] = IF 1 \in I THEN <<s[1]>> ELSE <<>>
        BY <1>3, <2>1, <4>1
      <4>3. s[1] \in T
        BY <4>1, ElementOfSeq DEF n
      <4>4. f[1] \in Seq(T)
        BY <4>2, <4>3
      <4>5. <<>> \o f[1] = f[1]
        BY <4>4, ConcatEmptySeq
      <4>6. QED
        BY <4>2, <4>5
    <3>2. PicksBy(<<>>, <<>>, s, I, 0)
      BY DEF PicksBy
    <3>3. ASSUME 0 + 1 \in 1 .. n
          PROVE  f[0 + 1] \in Seq(T) /\ \E h : PicksBy(f[0 + 1], h, s, I, 0 + 1)
      <4>1. <<>> \in Seq(T) /\ 0 \in Nat /\ 0 + 1 \in 1 .. Len(s)
        BY <3>3 DEF n
      <4>2. \E g : PicksBy(<<>> \o (IF 0 + 1 \in I THEN <<s[0 + 1]>> ELSE <<>>), g, s, I, 0 + 1)
        BY <3>2, <4>1, PickOneMore
      <4>3. 0 + 1 = 1 /\ s[1] \in T
        BY <4>1, ElementOfSeq
      <4>4. f[1] \in Seq(T)
        <5>1. f[1] = seqs[1]
          BY <3>3, <4>3, <2>1
        <5>2. seqs[1] = IF 1 \in I THEN <<s[1]>> ELSE <<>>
          BY <3>3, <4>3, <1>3
        <5>3. QED
          BY <4>3, <5>1, <5>2
      <4>5. QED
        BY <3>1, <4>2, <4>3, <4>4
    <3>4. QED
      BY <3>3
  <2>3. ASSUME NEW k \in Nat, k \in Fine
        PROVE  k + 1 \in Fine
    <3>1. SUFFICES ASSUME (k + 1) + 1 \in 1 .. n
                   PROVE  f[(k + 1) + 1] \in Seq(T) /\ \E h : PicksBy(f[(k + 1) + 1], h, s, I, (k + 1) + 1)
      OBVIOUS
    <3>2. k + 1 \in 1 .. n /\ k + 1 \in Nat
      BY <3>1, <1>0
    <3>3. f[k + 1] \in Seq(T)
      BY <2>3, <3>2
    <3>4. PICK h : PicksBy(f[k + 1], h, s, I, k + 1)
      BY <2>3, <3>2
    <3> HIDE DEF Fine
    <3>5. f[(k + 1) + 1] = f[k + 1] \o (IF (k + 1) + 1 \in I THEN <<s[(k + 1) + 1]>> ELSE <<>>)
      <4>1. ASSUME NEW i \in 1 .. n, i = (k + 1) + 1
            PROVE  f[i] = f[k + 1] \o seqs[i]
        <5>1. i # 1 /\ i - 1 = k + 1
          BY <3>2, <4>1
        <5>2. f[i] = IF i = 1 THEN seqs[i] ELSE f[i - 1] \o seqs[i]
          BY <2>1
        <5>3. QED
          BY <5>1, <5>2
      <4>2. f[(k + 1) + 1] = f[k + 1] \o seqs[(k + 1) + 1]
        BY <3>1, <4>1
      <4>3. QED
        BY <1>3, <3>1, <4>2
    <3>6. \E g : PicksBy(f[k + 1] \o (IF (k + 1) + 1 \in I THEN <<s[(k + 1) + 1]>> ELSE <<>>), g, s, I, (k + 1) + 1)
      BY <3>1, <3>2, <3>3, <3>4, PickOneMore DEF n
    <3>7. f[(k + 1) + 1] \in Seq(T)
      <4>1. s[(k + 1) + 1] \in T
        BY <3>1, ElementOfSeq DEF n
      <4>2. (IF (k + 1) + 1 \in I THEN <<s[(k + 1) + 1]>> ELSE <<>>) \in Seq(T)
        BY <4>1
      <4>3. QED
        BY <3>3, <3>5, <4>2, ConcatProperties
    <3>8. QED
      BY <3>5, <3>6, <3>7
  <2> HIDE DEF Fine
  <2>4. Nat \subseteq Fine
    BY <2>2, <2>3, NatSetInduction
  <2>5. n - 1 \in Fine /\ (n - 1) + 1 = n /\ n \in 1 .. n
    BY <1>0, <1>5, <2>4
  <2>6. QED
    BY <1>1, <2>1, <2>5 DEF Fine, n
<1>6. QED
  BY <1>4, <1>5

\* What is in a line, and in one that is joined to another.
LEMMA RangeOf ==
  ASSUME NEW T, NEW s \in Seq(T)
  PROVE  ToSet(s) = {s[i] : i \in 1 .. Len(s)} /\ ToSet(s) \subseteq T
BY LenProperties, ElementOfSeq DEF ToSet

LEMMA ConcatRange ==
  ASSUME NEW T, NEW p \in Seq(T), NEW q \in Seq(T)
  PROVE  p \o q \in Seq(T) /\ ToSet(p \o q) = ToSet(p) \cup ToSet(q)
<1>1. /\ p \o q \in Seq(T)
      /\ Len(p \o q) = Len(p) + Len(q)
      /\ \A i \in 1 .. Len(p) + Len(q) : (p \o q)[i] = IF i <= Len(p) THEN p[i] ELSE q[i - Len(p)]
  BY ConcatProperties
<1>2. Len(p) \in Nat /\ Len(q) \in Nat
  BY LenProperties
<1>3. ToSet(p) = {p[i] : i \in 1 .. Len(p)} /\ ToSet(q) = {q[i] : i \in 1 .. Len(q)}
  BY RangeOf
<1>4. ToSet(p \o q) = {(p \o q)[i] : i \in 1 .. Len(p) + Len(q)}
  BY <1>1, RangeOf
<1> DEFINE r == p \o q
<1> HIDE DEF r
<1>5. ASSUME NEW x \in ToSet(r)
      PROVE  x \in ToSet(p) \cup ToSet(q)
  <2>1. PICK i \in 1 .. Len(p) + Len(q) : x = r[i]
    BY <1>4, <1>5 DEF r
  <2>2. CASE i <= Len(p)
    <3>1. i \in 1 .. Len(p) /\ x = p[i]
      BY <1>1, <1>2, <2>1, <2>2 DEF r
    <3>2. QED
      BY <3>1, <1>3
  <2>3. CASE ~ (i <= Len(p))
    <3>1. i - Len(p) \in 1 .. Len(q) /\ x = q[i - Len(p)]
      BY <1>1, <1>2, <2>1, <2>3 DEF r
    <3>2. QED
      BY <3>1, <1>3
  <2>4. QED
    BY <2>2, <2>3
<1>6. ASSUME NEW x \in ToSet(p)
      PROVE  x \in ToSet(r)
  <2>1. PICK i \in 1 .. Len(p) : x = p[i]
    BY <1>3, <1>6
  <2>2. i \in 1 .. Len(p) + Len(q) /\ i <= Len(p)
    BY <1>2
  <2>3. QED
    BY <1>1, <1>4, <2>1, <2>2 DEF r
<1>7. ASSUME NEW x \in ToSet(q)
      PROVE  x \in ToSet(r)
  <2>1. PICK i \in 1 .. Len(q) : x = q[i]
    BY <1>3, <1>7
  <2>2. /\ Len(p) + i \in 1 .. Len(p) + Len(q)
        /\ ~ (Len(p) + i <= Len(p))
        /\ (Len(p) + i) - Len(p) = i
    BY <1>2
  <2>3. r[Len(p) + i] = q[(Len(p) + i) - Len(p)]
    BY <1>1, <2>2 DEF r
  <2>4. QED
    BY <1>4, <2>1, <2>2, <2>3 DEF r
<1>8. QED
  BY <1>1, <1>5, <1>6, <1>7 DEF r

\* What is in a line that is joined from many.
LEMMA FlattenRange ==
  ASSUME NEW T, NEW seqs \in Seq(Seq(T))
  PROVE  /\ FlattenSeq(seqs) \in Seq(T)
         /\ ToSet(FlattenSeq(seqs)) = UNION {ToSet(seqs[i]) : i \in 1 .. Len(seqs)}
<1> DEFINE n == Len(seqs)
           Upto(k) == UNION {ToSet(seqs[i]) : i \in 1 .. k}
<1>0. n \in Nat
  BY LenProperties
<1>1. CASE n = 0
  <2>1. FlattenSeq(seqs) = seqs
    BY <1>1 DEF FlattenSeq
  <2>2. seqs = <<>>
    BY <1>1, EmptySeq
  <2>3. ToSet(<<>>) = {} /\ <<>> \in Seq(T)
    BY DEF ToSet
  <2>4. Upto(0) = {}
    OBVIOUS
  <2>5. QED
    BY <1>1, <2>1, <2>2, <2>3, <2>4
<1>2. CASE n # 0
  <2>1. PICK f : /\ FlattenSeq(seqs) = f[n]
                 /\ \A i \in 1 .. n : f[i] = IF i = 1 THEN seqs[i] ELSE f[i - 1] \o seqs[i]
    BY <1>2, FlattenSteps
  <2>2. \A i \in 1 .. n : seqs[i] \in Seq(T)
    BY ElementOfSeq
  <2> HIDE DEF n
  <2> DEFINE Fine == {k \in Nat : k + 1 \in 1 .. n =>
                        f[k + 1] \in Seq(T) /\ ToSet(f[k + 1]) = Upto(k + 1)}
  <2>3. 0 \in Fine
    <3>1. 1 \in 1 .. n /\ 0 + 1 = 1
      BY <1>0, <1>2
    <3>2. f[1] = seqs[1] /\ seqs[1] \in Seq(T)
      BY <2>1, <2>2, <3>1
    <3>3. Upto(1) = ToSet(seqs[1])
      OBVIOUS
    <3>4. QED
      BY <3>1, <3>2, <3>3
  <2>4. ASSUME NEW k \in Nat, k \in Fine
        PROVE  k + 1 \in Fine
    <3>1. SUFFICES ASSUME NEW i, i = (k + 1) + 1, i \in 1 .. n
                   PROVE  f[i] \in Seq(T) /\ ToSet(f[i]) = Upto(i)
      OBVIOUS
    <3>2. k + 1 \in 1 .. n /\ i # 1 /\ i - 1 = k + 1
      BY <3>1, <1>0
    <3>3. f[k + 1] \in Seq(T) /\ ToSet(f[k + 1]) = Upto(k + 1)
      BY <2>4, <3>2
    <3> HIDE DEF Fine
    <3>4. f[i] = f[k + 1] \o seqs[i]
      <4>1. f[i] = IF i = 1 THEN seqs[i] ELSE f[i - 1] \o seqs[i]
        BY <2>1, <3>1
      <4>2. QED
        BY <3>2, <4>1
    <3>5. f[i] \in Seq(T) /\ ToSet(f[i]) = ToSet(f[k + 1]) \cup ToSet(seqs[i])
      BY <2>2, <3>1, <3>3, <3>4, ConcatRange
    <3>6. Upto(i) = Upto(k + 1) \cup ToSet(seqs[i])
      <4>1. 1 .. i = (1 .. k + 1) \cup {i}
        BY <3>1
      <4>2. QED
        BY <4>1
    <3>7. QED
      BY <3>3, <3>5, <3>6
  <2> HIDE DEF Fine
  <2>5. Nat \subseteq Fine
    BY <2>3, <2>4, NatSetInduction
  <2>6. n - 1 \in Fine /\ (n - 1) + 1 = n /\ n \in 1 .. n
    BY <1>0, <1>2, <2>5
  <2>7. QED
    BY <2>1, <2>6 DEF Fine, n
<1>3. QED
  BY <1>1, <1>2

\* What it has then.
LEMMA PicksRange ==
  ASSUME NEW T, NEW p \in Seq(T), NEW s, NEW I, NEW h, PicksBy(p, h, s, I, Len(s))
  PROVE  ToSet(p) = {s[i] : i \in I \cap (1 .. Len(s))}
<1>1. ToSet(p) = {p[j] : j \in 1 .. Len(p)}
  BY RangeOf
<1>2. ASSUME NEW j \in 1 .. Len(p)
      PROVE  h[j] \in I \cap (1 .. Len(s)) /\ p[j] = s[h[j]]
  BY DEF PicksBy
<1>3. ASSUME NEW i \in I \cap (1 .. Len(s))
      PROVE  \E j \in 1 .. Len(p) : p[j] = s[i]
  <2>1. PICK j \in 1 .. Len(p) : h[j] = i
    BY DEF PicksBy
  <2>2. QED
    BY <1>2, <2>1
<1>4. ASSUME NEW x \in ToSet(p)
      PROVE  x \in {s[i] : i \in I \cap (1 .. Len(s))}
  <2>1. PICK j \in 1 .. Len(p) : x = p[j]
    BY <1>1, <1>4
  <2>2. QED
    BY <1>2, <2>1
<1>5. ASSUME NEW x \in {s[i] : i \in I \cap (1 .. Len(s))}
      PROVE  x \in ToSet(p)
  <2>1. PICK i \in I \cap (1 .. Len(s)) : x = s[i]
    BY <1>5
  <2>2. QED
    BY <1>1, <1>3, <2>1
<1>6. QED
  BY <1>4, <1>5

\* What a filter keeps.
LEMMA PickedRange ==
  ASSUME NEW T, NEW s \in Seq(T), NEW I
  PROVE  /\ Picked(s, I) \in Seq(T)
         /\ ToSet(Picked(s, I)) = {s[i] : i \in I \cap (1 .. Len(s))}
<1>1. Picked(s, I) \in Seq(T)
  BY PickedFacts
<1>2. PICK h : PicksBy(Picked(s, I), h, s, I, Len(s))
  BY PickedFacts
<1>3. QED
  BY <1>1, <1>2, PicksRange

-----------------------------------------------------------------------------
(* Lines of numbers that rise, one after the other *)

Rises(s) == \A i, j \in 1 .. Len(s) : i < j => s[i] < s[j]
Before(p, q) == \A i \in 1 .. Len(p), j \in 1 .. Len(q) : p[i] < q[j]
UpTo(s, n) == \A i \in 1 .. Len(s) : s[i] <= n

\* Two lines that rise, the second after the first, and neither beyond n.
InTurn(p, q, n) ==
  /\ p \in Seq(Nat) /\ Rises(p) /\ UpTo(p, n)
  /\ q \in Seq(Nat) /\ Rises(q) /\ UpTo(q, n)
  /\ Before(p, q)

\* Either of them may be empty, and the bound may be moved up.
LEMMA InTurnOrNothing ==
  ASSUME NEW n \in Nat, NEW p, NEW q, InTurn(p, q, n)
  PROVE  /\ InTurn(<<>>, q, n) /\ InTurn(p, <<>>, n)
         /\ InTurn(<<>>, p, n) /\ InTurn(q, <<>>, n)
         /\ InTurn(p, q, n + 1)
<1>1. <<>> \in Seq(Nat) /\ Len(<<>>) = 0
  OBVIOUS
<1>2. \A s : s \in Seq(Nat) /\ Rises(s) /\ UpTo(s, n) => InTurn(<<>>, s, n) /\ InTurn(s, <<>>, n)
  BY <1>1 DEF InTurn, Rises, Before, UpTo
<1>3. \A s : s \in Seq(Nat) /\ UpTo(s, n) => UpTo(s, n + 1)
  BY LenProperties, ElementOfSeq DEF UpTo
<1>4. QED
  BY <1>2, <1>3 DEF InTurn

\* The oldest of the second line is let go.
LEMMA OldestGoes ==
  ASSUME NEW n \in Nat, NEW p, NEW q, InTurn(p, q, n), q # <<>>
  PROVE  InTurn(p, Tail(q), n)
<1>1. /\ Tail(q) \in Seq(Nat) /\ Len(Tail(q)) = Len(q) - 1 /\ Len(q) \in Nat
      /\ \A i \in 1 .. Len(q) - 1 : Tail(q)[i] = q[i + 1]
  BY HeadTailProperties, LenProperties DEF InTurn
<1>2. \A i \in 1 .. Len(q) - 1 : i + 1 \in 1 .. Len(q)
  BY <1>1
<1>3. \A i, j \in 1 .. Len(q) - 1 : i < j => i + 1 < j + 1
  BY <1>1
<1>4. Rises(Tail(q))
  BY <1>1, <1>2, <1>3 DEF InTurn, Rises
<1>5. UpTo(Tail(q), n)
  BY <1>1, <1>2 DEF InTurn, UpTo
<1>6. Before(p, Tail(q))
  BY <1>1, <1>2 DEF InTurn, Before
<1>7. QED
  BY <1>1, <1>4, <1>5, <1>6 DEF InTurn

\* The next number joins the second line.
LEMMA NewestJoins ==
  ASSUME NEW n \in Nat, NEW p, NEW q, InTurn(p, q, n)
  PROVE  InTurn(p, Append(q, n + 1), n + 1)
<1> DEFINE r == Append(q, n + 1)
<1>1. /\ r \in Seq(Nat) /\ Len(r) = Len(q) + 1 /\ Len(q) \in Nat /\ Len(p) \in Nat
      /\ r[Len(q) + 1] = n + 1
      /\ \A i \in 1 .. Len(q) : r[i] = q[i]
  BY AppendProperties, LenProperties DEF InTurn
<1>2. /\ \A i \in 1 .. Len(q) : q[i] \in Nat /\ q[i] <= n
      /\ \A i \in 1 .. Len(p) : p[i] \in Nat /\ p[i] <= n
  BY ElementOfSeq DEF InTurn, UpTo
<1> HIDE DEF r
<1>3. \A i \in 1 .. Len(r) : i \in 1 .. Len(q) \/ i = Len(q) + 1
  BY <1>1
<1>4. Rises(r)
  <2>1. SUFFICES ASSUME NEW i \in 1 .. Len(r), NEW j \in 1 .. Len(r), i < j
                 PROVE  r[i] < r[j]
    BY DEF Rises
  <2>2. i \in 1 .. Len(q) /\ r[i] = q[i]
    BY <1>1, <2>1
  <2>3. CASE j \in 1 .. Len(q)
    <3>1. r[j] = q[j] /\ q[i] < q[j]
      BY <1>1, <2>1, <2>2, <2>3 DEF InTurn, Rises
    <3>2. QED
      BY <2>2, <3>1
  <2>4. CASE j = Len(q) + 1
    <3>1. r[j] = n + 1 /\ q[i] \in Nat /\ q[i] <= n
      BY <1>1, <1>2, <2>2, <2>4
    <3>2. QED
      BY <2>2, <3>1
  <2>5. QED
    BY <1>3, <2>3, <2>4
<1>5. UpTo(r, n + 1)
  <2>1. SUFFICES ASSUME NEW i \in 1 .. Len(r)
                 PROVE  r[i] <= n + 1
    BY DEF UpTo
  <2>2. CASE i \in 1 .. Len(q)
    <3>1. r[i] \in Nat /\ r[i] <= n
      BY <1>1, <1>2, <2>2
    <3>2. QED
      BY <3>1
  <2>3. CASE i = Len(q) + 1
    BY <1>1, <2>3
  <2>4. QED
    BY <1>3, <2>2, <2>3
<1>6. Before(p, r)
  <2>1. SUFFICES ASSUME NEW i \in 1 .. Len(p), NEW j \in 1 .. Len(r)
                 PROVE  p[i] < r[j]
    BY DEF Before
  <2>2. CASE j \in 1 .. Len(q)
    <3>1. r[j] = q[j] /\ p[i] < q[j]
      BY <1>1, <2>2 DEF InTurn, Before
    <3>2. QED
      BY <3>1
  <2>3. CASE j = Len(q) + 1
    <3>1. r[j] = n + 1 /\ p[i] \in Nat /\ p[i] <= n
      BY <1>1, <1>2, <2>3
    <3>2. QED
      BY <3>1
  <2>4. QED
    BY <1>3, <2>2, <2>3
<1>7. UpTo(p, n + 1)
  BY <1>2 DEF UpTo
<1>8. QED
  BY <1>1, <1>4, <1>5, <1>6, <1>7 DEF InTurn, r

\* Two lines in turn are one line, which stands where both of them stood.
LEMMA TwoAreOne ==
  ASSUME NEW n \in Nat, NEW p, NEW q, InTurn(p, q, n)
  PROVE  /\ p \o q \in Seq(Nat) /\ Rises(p \o q) /\ UpTo(p \o q, n)
         /\ \A r : InTurn(p, r, n) /\ InTurn(q, r, n) => InTurn(p \o q, r, n)
         /\ \A r : InTurn(r, p, n) /\ InTurn(r, q, n) => InTurn(r, p \o q, n)
<1> DEFINE s == p \o q
<1>1. /\ s \in Seq(Nat) /\ Len(p) \in Nat /\ Len(q) \in Nat /\ Len(s) = Len(p) + Len(q)
      /\ \A i \in 1 .. Len(p) + Len(q) : s[i] = IF i <= Len(p) THEN p[i] ELSE q[i - Len(p)]
  BY ConcatProperties, LenProperties DEF InTurn
<1> HIDE DEF s
<1>2. \A i \in 1 .. Len(s) : \/ i \in 1 .. Len(p) /\ s[i] = p[i]
                             \/ i > Len(p) /\ i - Len(p) \in 1 .. Len(q) /\ s[i] = q[i - Len(p)]
  BY <1>1
<1>3. Rises(s)
  <2>1. SUFFICES ASSUME NEW i \in 1 .. Len(s), NEW j \in 1 .. Len(s), i < j
                 PROVE  s[i] < s[j]
    BY DEF Rises
  <2>2. CASE j \in 1 .. Len(p) /\ s[j] = p[j]
    <3>1. i \in 1 .. Len(p) /\ s[i] = p[i]
      BY <1>1, <1>2, <2>1, <2>2
    <3>2. QED
      BY <2>1, <2>2, <3>1 DEF InTurn, Rises
  <2>3. CASE j > Len(p) /\ j - Len(p) \in 1 .. Len(q) /\ s[j] = q[j - Len(p)]
    <3>1. CASE i \in 1 .. Len(p) /\ s[i] = p[i]
      BY <2>3, <3>1 DEF InTurn, Before
    <3>2. CASE i > Len(p) /\ i - Len(p) \in 1 .. Len(q) /\ s[i] = q[i - Len(p)]
      <4>1. i - Len(p) < j - Len(p)
        BY <1>1, <2>1
      <4>2. QED
        BY <2>3, <3>2, <4>1 DEF InTurn, Rises
    <3>3. QED
      BY <1>2, <3>1, <3>2
  <2>4. QED
    BY <1>2, <2>2, <2>3
<1>4. UpTo(s, n)
  BY <1>2 DEF InTurn, UpTo
<1>5. ASSUME NEW r, InTurn(p, r, n), InTurn(q, r, n)
      PROVE  InTurn(s, r, n)
  <2>1. Before(s, r)
    BY <1>2, <1>5 DEF InTurn, Before
  <2>2. QED
    BY <1>1, <1>3, <1>4, <1>5, <2>1 DEF InTurn
<1>6. ASSUME NEW r, InTurn(r, p, n), InTurn(r, q, n)
      PROVE  InTurn(r, s, n)
  <2>1. Before(r, s)
    BY <1>2, <1>6 DEF InTurn, Before
  <2>2. QED
    BY <1>1, <1>3, <1>4, <1>6, <2>1 DEF InTurn
<1>7. QED
  BY <1>1, <1>3, <1>4, <1>5, <1>6 DEF s

\* One line that is cut is two lines in turn.
LEMMA OneIsTwo ==
  ASSUME NEW n \in Nat, NEW q, InTurn(<<>>, q, n), NEW k \in 0 .. Len(q)
  PROVE  /\ Len(SubSeq(q, 1, k)) = k
         /\ InTurn(SubSeq(q, 1, k), SubSeq(q, k + 1, Len(q)), n)
<1> DEFINE a == SubSeq(q, 1, k)
           b == SubSeq(q, k + 1, Len(q))
<1>1. q \in Seq(Nat) /\ Len(q) \in Nat /\ k \in Nat /\ \A i \in 1 .. Len(q) : q[i] \in Nat
  BY LenProperties, ElementOfSeq DEF InTurn
<1>2. \A i \in 1 .. k : i \in 1 .. Len(q) /\ q[i] \in Nat
  BY <1>1
<1>3. \A i \in k + 1 .. Len(q) : i \in 1 .. Len(q) /\ q[i] \in Nat
  BY <1>1
<1>4. /\ a \in Seq(Nat) /\ Len(a) = IF 1 <= k THEN k - 1 + 1 ELSE 0
      /\ \A i \in 1 .. k - 1 + 1 : a[i] = q[1 + i - 1]
  BY <1>1, <1>2, SubSeqProperties
<1>5. /\ b \in Seq(Nat) /\ Len(b) = IF k + 1 <= Len(q) THEN Len(q) - (k + 1) + 1 ELSE 0
      /\ \A i \in 1 .. Len(q) - (k + 1) + 1 : b[i] = q[(k + 1) + i - 1]
  BY <1>1, <1>3, SubSeqProperties
<1> HIDE DEF a, b
<1>6. Len(a) = k /\ Len(b) = Len(q) - k
  BY <1>1, <1>4, <1>5
<1>7. \A i \in 1 .. Len(a) : a[i] = q[i] /\ i \in 1 .. Len(q) /\ i <= k
  <2>1. TAKE i \in 1 .. Len(a)
  <2>2. i \in 1 .. k - 1 + 1 /\ 1 + i - 1 = i /\ i <= k /\ i \in 1 .. Len(q)
    BY <1>1, <1>6
  <2>3. QED
    BY <1>4, <2>2
<1>8. \A i \in 1 .. Len(b) : b[i] = q[i + k] /\ i + k \in 1 .. Len(q) /\ i + k > k
  <2>1. TAKE i \in 1 .. Len(b)
  <2>2. /\ i \in 1 .. Len(q) - (k + 1) + 1 /\ (k + 1) + i - 1 = i + k
        /\ i + k > k /\ i + k \in 1 .. Len(q)
    BY <1>1, <1>6
  <2>3. QED
    BY <1>5, <2>2
<1>9. Rises(a) /\ UpTo(a, n)
  BY <1>7 DEF InTurn, Rises, UpTo
<1>10. Rises(b) /\ UpTo(b, n)
  <2>1. \A i, j \in 1 .. Len(b) : i < j => i + k < j + k
    BY <1>1, <1>6
  <2>2. QED
    BY <1>8, <2>1 DEF InTurn, Rises, UpTo
<1>11. Before(a, b)
  <2>1. \A i \in 1 .. Len(a), j \in 1 .. Len(b) : i < j + k
    BY <1>1, <1>6
  <2>2. QED
    BY <1>7, <1>8, <2>1 DEF InTurn, Rises, Before
<1>12. QED
  BY <1>4, <1>5, <1>6, <1>9, <1>10, <1>11 DEF InTurn, a, b

\* Lines of which each stands before the next ones stand together before whatever
\* stands after all of them.
LEMMA FlattenInTurn ==
  ASSUME NEW n \in Nat, NEW seqs \in Seq(Seq(Nat)), Len(seqs) # 0,
         \A i, j \in 1 .. Len(seqs) : i < j => InTurn(seqs[i], seqs[j], n)
  PROVE  \A r : (\A i \in 1 .. Len(seqs) : InTurn(seqs[i], r, n)) => InTurn(FlattenSeq(seqs), r, n)
<1>1. PICK f : /\ FlattenSeq(seqs) = f[Len(seqs)]
               /\ \A i \in 1 .. Len(seqs) : f[i] = IF i = 1 THEN seqs[i] ELSE f[i - 1] \o seqs[i]
  BY FlattenSteps
<1>2. Len(seqs) \in Nat \ {0}
  BY LenProperties
<1> DEFINE Stands(k) == \A r : (\A i \in 1 .. k : InTurn(seqs[i], r, n)) => InTurn(f[k], r, n)
           Fine == {k \in Nat : k \in 1 .. Len(seqs) => Stands(k)}
<1>3. 0 \in Fine
  OBVIOUS
<1>4. ASSUME NEW k \in Nat, k \in Fine
      PROVE  k + 1 \in Fine
  <2>1. SUFFICES ASSUME k + 1 \in 1 .. Len(seqs), NEW r, \A i \in 1 .. k + 1 : InTurn(seqs[i], r, n)
                 PROVE  InTurn(f[k + 1], r, n)
    OBVIOUS
  <2>2. k + 1 \in 1 .. k + 1 /\ InTurn(seqs[k + 1], r, n)
    BY <2>1
  <2>3. CASE k = 0
    <3>1. f[k + 1] = seqs[k + 1]
      BY <1>1, <2>1, <2>3
    <3>2. QED
      BY <2>2, <3>1
  <2>4. CASE k # 0
    <3>1. k \in 1 .. Len(seqs) /\ k + 1 # 1 /\ k + 1 - 1 = k
      BY <1>2, <2>1, <2>4
    <3>2. f[k + 1] = f[k] \o seqs[k + 1]
      <4>1. f[k + 1] = IF k + 1 = 1 THEN seqs[k + 1] ELSE f[k + 1 - 1] \o seqs[k + 1]
        BY <1>1, <2>1
      <4>2. QED
        BY <3>1, <4>1
    <3>3. Stands(k)
      BY <1>4, <3>1
    <3>4. \A i \in 1 .. k : i \in 1 .. k + 1 /\ i \in 1 .. Len(seqs) /\ i < k + 1
      BY <1>2, <2>1
    <3>5. InTurn(f[k], seqs[k + 1], n)
      BY <2>1, <3>3, <3>4
    <3>6. InTurn(f[k], r, n)
      BY <2>1, <3>3, <3>4
    <3>7. QED
      BY <2>2, <3>2, <3>5, <3>6, TwoAreOne
  <2>5. QED
    BY <2>3, <2>4
<1> HIDE DEF Fine
<1>5. Nat \subseteq Fine
  BY <1>3, <1>4, NatSetInduction
<1>6. Stands(Len(seqs))
  <2>1. Len(seqs) \in Fine /\ Len(seqs) \in 1 .. Len(seqs)
    BY <1>2, <1>5
  <2> HIDE DEF Stands
  <2>2. QED
    BY <2>1 DEF Fine
<1>7. QED
  BY <1>1, <1>6

-----------------------------------------------------------------------------
(* A recursion over a prefix of the natural numbers: f starts at base, and *)
(* step takes it from each position to the next.                           *)

Recurs(f, T, base, step, last) ==
  f \in [0 .. last -> T] /\ f[0] = base /\ \A n \in 1 .. last : f[n] = step[<<n, f[n - 1]>>]

\* There is always one, with values in T when base and the steps have theirs there.
LEMMA Recursion ==
  ASSUME NEW T, NEW base \in T, NEW step \in [Nat \X T -> T], NEW last \in Nat
  PROVE  \E f : Recurs(f, T, base, step, last)
<1> DEFINE Fine == {k \in Nat : \E f \in [0 .. k -> T] :
                      f[0] = base /\ \A n \in 1 .. k : f[n] = step[<<n, f[n - 1]>>]}
<1>1. 0 \in Fine
  <2>1. /\ [n \in 0 .. 0 |-> base] \in [0 .. 0 -> T]
        /\ [n \in 0 .. 0 |-> base][0] = base
        /\ 1 .. 0 = {}
    OBVIOUS
  <2>2. QED
    BY <2>1
<1>2. ASSUME NEW k \in Nat, k \in Fine
      PROVE  k + 1 \in Fine
  <2>1. PICK f \in [0 .. k -> T] : f[0] = base /\ \A n \in 1 .. k : f[n] = step[<<n, f[n - 1]>>]
    BY <1>2
  <2> DEFINE next == step[<<k + 1, f[k]>>]
             g == [n \in 0 .. k + 1 |-> IF n = k + 1 THEN next ELSE f[n]]
  <2>2. next \in T
    BY <2>1
  <2> HIDE DEF next
  <2>3. g \in [0 .. k + 1 -> T] /\ g[0] = base
    BY <2>1, <2>2
  <2>4. ASSUME NEW n \in 1 .. k + 1
        PROVE  g[n] = step[<<n, g[n - 1]>>]
    <3>1. n - 1 \in 0 .. k /\ n - 1 # k + 1 /\ n - 1 \in 0 .. k + 1
      OBVIOUS
    <3>2. g[n - 1] = f[n - 1]
      BY <3>1
    <3>3. CASE n = k + 1
      <4>1. g[n] = next /\ n - 1 = k
        BY <3>3
      <4> HIDE DEF g
      <4>2. QED
        BY <4>1, <3>2, <3>3 DEF next
    <3>4. CASE n # k + 1
      <4>1. n \in 1 .. k /\ g[n] = f[n]
        BY <3>4
      <4> HIDE DEF g
      <4>2. QED
        BY <4>1, <3>2, <2>1
    <3>5. QED
      BY <3>3, <3>4
  <2> HIDE DEF g
  <2>5. QED
    BY <2>3, <2>4
<1> HIDE DEF Fine
<1>3. Nat \subseteq Fine
  BY <1>1, <1>2, NatSetInduction
<1>4. QED
  BY <1>3 DEF Fine, Recurs

-----------------------------------------------------------------------------
(* Lines that grow at their end, and what flattening and filters make of   *)
(* them                                                                    *)

LEMMA AppendBehind ==
  ASSUME NEW T, NEW p \in Seq(T), NEW q \in Seq(T), NEW x \in T
  PROVE  /\ p \o Append(q, x) = Append(p \o q, x)
         /\ p \o q \in Seq(T) /\ Append(q, x) \in Seq(T)
<1>1. p \o q \in Seq(T) /\ <<x>> \in Seq(T) /\ Append(q, x) = q \o <<x>>
  BY ConcatProperties, AppendIsConcat
<1>2. Append(p \o q, x) = (p \o q) \o <<x>>
  BY <1>1, AppendIsConcat
<1>3. (p \o q) \o <<x>> = p \o (q \o <<x>>)
  BY <1>1, ConcatAssociative
<1>4. QED
  BY <1>1, <1>2, <1>3, AppendProperties

LEMMA LineSetInduction ==
  ASSUME NEW T, NEW S, <<>> \in S, \A s \in Seq(T), x \in T : s \in S => Append(s, x) \in S
  PROVE  Seq(T) \subseteq S
<1> DEFINE Fine == {n \in Nat : \A s \in Seq(T) : Len(s) = n => s \in S}
<1>1. 0 \in Fine
  BY EmptySeq
<1>2. ASSUME NEW n \in Nat, n \in Fine
      PROVE  n + 1 \in Fine
  <2>1. SUFFICES ASSUME NEW s \in Seq(T), Len(s) = n + 1
                 PROVE  s \in S
    OBVIOUS
  <2>2. s # <<>>
    BY <2>1, <1>2, EmptySeq
  <2>3. PICK p \in Seq(T), x \in T : s = Append(p, x)
    BY <2>2, SequenceEmptyOrAppend
  <2>4. Len(p) \in Nat /\ Len(s) = Len(p) + 1
    BY <2>3, AppendProperties, LenProperties
  <2>5. Len(p) = n
    BY <2>1, <2>4
  <2>6. p \in S
    BY <1>2, <2>5
  <2>7. QED
    BY <2>3, <2>6
<1> HIDE DEF Fine
<1>3. Nat \subseteq Fine
  BY <1>1, <1>2, NatSetInduction
<1>4. \A s \in Seq(T) : Len(s) \in Nat
  BY LenProperties
<1>5. QED
  BY <1>3, <1>4 DEF Fine

\* One more piece is flattened behind the others.
LEMMA FlattenAppend ==
  ASSUME NEW T, NEW seqs \in Seq(Seq(T)), NEW x \in Seq(T)
  PROVE  /\ FlattenSeq(<<>>) = <<>>
         /\ FlattenSeq(seqs) \in Seq(T)
         /\ FlattenSeq(Append(seqs, x)) = FlattenSeq(seqs) \o x
<1> DEFINE more == Append(seqs, x)
           n == Len(seqs)
<1>1. FlattenSeq(<<>>) = <<>> /\ FlattenSeq(seqs) \in Seq(T)
  BY FlattenRange, EmptySeq DEF FlattenSeq
<1>2. /\ more \in Seq(Seq(T)) /\ Len(more) = n + 1 /\ n \in Nat /\ more[n + 1] = x
      /\ \A i \in 1 .. n : more[i] = seqs[i]
  BY AppendProperties, LenProperties
<1>3. PICK f : /\ FlattenSeq(more) = f[n + 1]
               /\ \A i \in 1 .. n + 1 : f[i] = IF i = 1 THEN more[i] ELSE f[i - 1] \o more[i]
  <2>1. Len(more) # 0 /\ Len(more) = n + 1
    BY <1>2
  <2>2. \E f : /\ FlattenSeq(more) = f[Len(more)]
               /\ \A i \in 1 .. Len(more) : f[i] = IF i = 1 THEN more[i] ELSE f[i - 1] \o more[i]
    <3> HIDE DEF more, n
    <3>1. QED
      BY <1>2, <2>1, FlattenSteps
  <2> HIDE DEF more, n
  <2>3. QED
    BY <2>1, <2>2
<1>4. CASE n = 0
  <2>1. seqs = <<>> /\ FlattenSeq(seqs) = <<>>
    BY <1>1, <1>4, EmptySeq
  <2>2. FlattenSeq(more) = x
    <3> HIDE DEF more
    <3>1. QED
      BY <1>2, <1>3, <1>4
  <2>3. <<>> \o x = x
    BY ConcatEmptySeq
  <2>4. QED
    BY <1>1, <2>1, <2>2, <2>3
<1>5. CASE n # 0
  <2>1. PICK g : /\ FlattenSeq(seqs) = g[n]
                 /\ \A i \in 1 .. n : g[i] = IF i = 1 THEN seqs[i] ELSE g[i - 1] \o seqs[i]
    BY <1>5, FlattenSteps
  <2> DEFINE Fine == {k \in Nat : k + 1 \in 1 .. n => f[k + 1] = g[k + 1]}
  <2> HIDE DEF more, n
  <2>2. 0 \in Fine
    <3>1. 1 \in 1 .. n /\ 1 \in 1 .. n + 1 /\ 0 + 1 = 1
      BY <1>2, <1>5
    <3>2. f[1] = more[1] /\ g[1] = seqs[1]
      BY <1>3, <2>1, <3>1
    <3>3. QED
      BY <1>2, <3>1, <3>2
  <2>3. ASSUME NEW k \in Nat, k \in Fine
        PROVE  k + 1 \in Fine
    <3>1. SUFFICES ASSUME NEW i, i = k + 1 + 1, i \in 1 .. n
                   PROVE  f[i] = g[i]
      OBVIOUS
    <3>2. i \in 1 .. n + 1 /\ i # 1 /\ i - 1 = k + 1 /\ k + 1 \in 1 .. n
      BY <1>2, <3>1
    <3>3. f[k + 1] = g[k + 1]
      BY <2>3, <3>2
    <3> HIDE DEF Fine
    <3>4. f[i] = IF i = 1 THEN more[i] ELSE f[i - 1] \o more[i]
      BY <1>3, <3>2
    <3>5. g[i] = IF i = 1 THEN seqs[i] ELSE g[i - 1] \o seqs[i]
      BY <2>1, <3>1
    <3>6. more[i] = seqs[i]
      BY <1>2, <3>1
    <3>7. QED
      BY <3>2, <3>3, <3>4, <3>5, <3>6
  <2> HIDE DEF Fine
  <2>4. Nat \subseteq Fine
    BY <2>2, <2>3, NatSetInduction
  <2>5. n - 1 \in Nat /\ n - 1 + 1 = n /\ n \in 1 .. n
    BY <1>2, <1>5
  <2>6. f[n] = g[n]
    <3>1. n - 1 \in Fine
      BY <2>4, <2>5
    <3>2. QED
      BY <2>5, <3>1 DEF Fine
  <2>7. f[n + 1] = f[n] \o x
    <3>0. n \in Nat /\ n # 0
      BY <1>2, <1>5
    <3>1. SUFFICES ASSUME NEW m, m = n + 1
                   PROVE  f[m] = f[n] \o x
      OBVIOUS
    <3>2. m \in 1 .. n + 1 /\ m # 1 /\ m - 1 = n
      BY <3>0, <3>1
    <3>3. f[m] = IF m = 1 THEN more[m] ELSE f[m - 1] \o more[m]
      BY <1>3, <3>2
    <3>4. more[m] = x
      BY <1>2, <3>1
    <3>5. QED
      BY <3>2, <3>3, <3>4
  <2>8. QED
    BY <1>1, <1>3, <2>1, <2>6, <2>7 DEF more
<1>6. QED
  BY <1>4, <1>5

\* Two lines of pieces are flattened one behind the other.
LEMMA FlattenConcat ==
  ASSUME NEW T, NEW p \in Seq(Seq(T)), NEW q \in Seq(Seq(T))
  PROVE  FlattenSeq(p \o q) = FlattenSeq(p) \o FlattenSeq(q)
<1> DEFINE Fine == {s \in Seq(Seq(T)) : FlattenSeq(p \o s) = FlattenSeq(p) \o FlattenSeq(s)}
<1>1. <<>> \in Fine
  <2>1. p \o <<>> = p /\ <<>> \in Seq(Seq(T))
    BY ConcatEmptySeq, EmptySeq
  <2>2. FlattenSeq(<<>>) = <<>> /\ FlattenSeq(p) \in Seq(T)
    BY FlattenAppend, EmptySeq
  <2>3. FlattenSeq(p) \o <<>> = FlattenSeq(p)
    BY <2>2, ConcatEmptySeq
  <2>4. QED
    BY <2>1, <2>2, <2>3
<1>2. ASSUME NEW s \in Seq(Seq(T)), NEW x \in Seq(T), s \in Fine
      PROVE  Append(s, x) \in Fine
  <2>1. p \o Append(s, x) = Append(p \o s, x) /\ p \o s \in Seq(Seq(T)) /\ Append(s, x) \in Seq(Seq(T))
    BY AppendBehind
  <2>2. FlattenSeq(Append(p \o s, x)) = FlattenSeq(p \o s) \o x
    BY <2>1, FlattenAppend
  <2>3. /\ FlattenSeq(Append(s, x)) = FlattenSeq(s) \o x
        /\ FlattenSeq(s) \in Seq(T) /\ FlattenSeq(p) \in Seq(T)
    BY FlattenAppend
  <2>4. (FlattenSeq(p) \o FlattenSeq(s)) \o x = FlattenSeq(p) \o (FlattenSeq(s) \o x)
    BY <2>3, ConcatAssociative
  <2>5. FlattenSeq(p \o s) = FlattenSeq(p) \o FlattenSeq(s)
    BY <1>2
  <2>6. QED
    BY <2>1, <2>2, <2>3, <2>4, <2>5
<1> HIDE DEF Fine
<1>3. Seq(Seq(T)) \subseteq Fine
  BY <1>1, <1>2, LineSetInduction
<1>4. QED
  BY <1>3 DEF Fine

\* A line that begins with one piece.
LEMMA FlattenFirst ==
  ASSUME NEW T, NEW x \in Seq(T), NEW q \in Seq(Seq(T))
  PROVE  FlattenSeq(<<x>> \o q) = x \o FlattenSeq(q)
<1>1. <<x>> = Append(<<>>, x) /\ <<x>> \in Seq(Seq(T)) /\ <<>> \in Seq(Seq(T)) /\ <<>> \o x = x
  BY ConcatEmptySeq
<1>2. FlattenSeq(<<x>>) = x
  BY <1>1, FlattenAppend
<1>3. QED
  BY <1>1, <1>2, FlattenConcat

\* What a filter keeps of a line that grew.
LEMMA PickedAppend ==
  ASSUME NEW T, NEW s \in Seq(T), NEW x \in T, NEW I
  PROVE  /\ Picked(<<>>, I) = <<>>
         /\ Picked(s, I) \in Seq(T)
         /\ Picked(Append(s, x), I) = IF Len(s) + 1 \in I THEN Append(Picked(s, I), x) ELSE Picked(s, I)
<1> DEFINE seqs == [i \in 1 .. Len(s) |-> IF i \in I THEN <<s[i]>> ELSE <<>>]
           last == IF Len(s) + 1 \in I THEN <<x>> ELSE <<>>
           t == Append(s, x)
<1>1. /\ Len(s) \in Nat /\ DOMAIN s = 1 .. Len(s)
      /\ t \in Seq(T) /\ Len(t) = Len(s) + 1 /\ t[Len(s) + 1] = x /\ \A i \in 1 .. Len(s) : t[i] = s[i]
  BY LenProperties, AppendProperties
<1>2. DOMAIN t = 1 .. Len(s) + 1
  BY <1>1, LenProperties
<1>3. seqs \in Seq(Seq(T)) /\ Len(seqs) = Len(s) /\ last \in Seq(T)
  <2>1. \A i \in 1 .. Len(s) : s[i] \in T
    BY ElementOfSeq
  <2>2. \A i \in 1 .. Len(s) : (IF i \in I THEN <<s[i]>> ELSE <<>>) \in Seq(T)
    BY <2>1
  <2>3. QED
    BY <1>1, <2>2
<1>4. Picked(s, I) = FlattenSeq(seqs)
  BY <1>1 DEF Picked
<1>5. Append(seqs, last) = [i \in DOMAIN t |-> IF i \in I THEN <<t[i]>> ELSE <<>>]
  <2> DEFINE r == [i \in 1 .. Len(s) + 1 |-> IF i \in I THEN <<t[i]>> ELSE <<>>]
  <2>1. \A i \in 1 .. Len(s) + 1 : t[i] \in T
    BY <1>1, ElementOfSeq
  <2> HIDE DEF t
  <2>2. r \in Seq(Seq(T)) /\ Len(r) = Len(s) + 1
    <3>1. \A i \in 1 .. Len(s) + 1 : (IF i \in I THEN <<t[i]>> ELSE <<>>) \in Seq(T)
      BY <2>1
    <3>2. QED
      BY <1>1, <3>1
  <2>3. Append(seqs, last) \in Seq(Seq(T)) /\ Len(Append(seqs, last)) = Len(s) + 1
    BY <1>3, AppendProperties
  <2>4. ASSUME NEW i \in 1 .. Len(s) + 1
        PROVE  Append(seqs, last)[i] = r[i]
    <3>1. CASE i = Len(s) + 1
      <4>1. Append(seqs, last)[i] = last
        BY <1>3, <3>1, AppendProperties
      <4>2. QED
        BY <1>1, <3>1, <4>1
    <3>2. CASE i \in 1 .. Len(s)
      <4>1. Append(seqs, last)[i] = seqs[i]
        BY <1>3, <3>2, AppendProperties
      <4>2. QED
        BY <1>1, <3>2, <4>1
    <3>3. QED
      BY <1>1, <3>1, <3>2
  <2> HIDE DEF r, seqs, last
  <2>5. Append(seqs, last) = r
    BY <2>2, <2>3, <2>4, SeqEqual
  <2>6. QED
    BY <2>5, <1>2 DEF r
<1>6. Picked(t, I) = FlattenSeq(Append(seqs, last))
  BY <1>5 DEF Picked
<1> HIDE DEF seqs, last, t
<1>7. FlattenSeq(Append(seqs, last)) = FlattenSeq(seqs) \o last /\ FlattenSeq(seqs) \in Seq(T)
  BY <1>3, FlattenAppend
<1>8. Picked(<<>>, I) = <<>>
  <2>1. [i \in DOMAIN <<>> |-> IF i \in I THEN << <<>>[i] >> ELSE <<>>] = <<>>
    OBVIOUS
  <2>2. QED
    BY <2>1, <1>3, FlattenAppend DEF Picked
<1>9. CASE Len(s) + 1 \in I
  <2>1. last = <<x>>
    BY <1>9 DEF last
  <2>2. FlattenSeq(seqs) \o <<x>> = Append(FlattenSeq(seqs), x)
    BY <1>7, AppendIsConcat
  <2>3. QED
    BY <1>4, <1>6, <1>7, <1>8, <1>9, <2>1, <2>2 DEF t
<1>10. CASE Len(s) + 1 \notin I
  <2>1. last = <<>>
    BY <1>10 DEF last
  <2>2. FlattenSeq(seqs) \o <<>> = FlattenSeq(seqs)
    BY <1>7, ConcatEmptySeq
  <2>3. QED
    BY <1>4, <1>6, <1>7, <1>8, <1>10, <2>1, <2>2 DEF t
<1>11. QED
  BY <1>9, <1>10

\* What is kept of a line: all that is in B.
Sifted(s, B) == Picked(s, {k \in DOMAIN s : s[k] \in B})

LEMMA SiftedNone ==
  ASSUME NEW B
  PROVE  Sifted(<<>>, B) = <<>>
<1> DEFINE I == {k \in DOMAIN <<>> : << >>[k] \in B}
<1>1. [i \in DOMAIN <<>> |-> IF i \in I THEN << <<>>[i] >> ELSE <<>>] = <<>>
  OBVIOUS
<1>2. FlattenSeq(<<>>) = <<>>
  BY FlattenAppend, EmptySeq
<1>3. QED
  BY <1>1, <1>2 DEF Sifted, Picked

LEMMA SiftedAppend ==
  ASSUME NEW T, NEW s \in Seq(T), NEW x \in T, NEW B
  PROVE  /\ Sifted(s, B) \in Seq(T)
         /\ Sifted(Append(s, x), B) = IF x \in B THEN Append(Sifted(s, B), x) ELSE Sifted(s, B)
<1> DEFINE t == Append(s, x)
           I == {k \in DOMAIN t : t[k] \in B}
           J == {k \in DOMAIN s : s[k] \in B}
<1>1. /\ Len(s) \in Nat /\ DOMAIN s = 1 .. Len(s) /\ DOMAIN t = 1 .. Len(s) + 1
      /\ t[Len(s) + 1] = x /\ \A i \in 1 .. Len(s) : t[i] = s[i]
  BY LenProperties, AppendProperties
<1> HIDE DEF t
<1>2. \A k \in DOMAIN s : k \in I <=> k \in J
  BY <1>1
<1>3. [k \in DOMAIN s |-> IF k \in I THEN <<s[k]>> ELSE <<>>]
        = [k \in DOMAIN s |-> IF k \in J THEN <<s[k]>> ELSE <<>>]
  <2> HIDE DEF I, J
  <2>1. QED
    BY <1>2
<1>4. Len(s) + 1 \in I <=> x \in B
  BY <1>1
<1> HIDE DEF I, J
<1>5. Picked(s, I) = Picked(s, J)
  BY <1>3 DEF Picked
<1>6. Picked(t, I) = IF Len(s) + 1 \in I THEN Append(Picked(s, I), x) ELSE Picked(s, I)
  BY PickedAppend DEF t
<1>7. Picked(s, J) \in Seq(T)
  BY PickedAppend
<1>9. Sifted(t, B) = Picked(t, I) /\ Sifted(s, B) = Picked(s, J)
  BY DEF Sifted, I, J
<1>10. QED
  BY <1>4, <1>5, <1>6, <1>7, <1>9 DEF t

\* It keeps all, or nothing.
LEMMA SiftedAll ==
  ASSUME NEW T, NEW B
  PROVE  /\ \A s \in Seq(T) : T \subseteq B => Sifted(s, B) = s
         /\ \A s \in Seq(T) : T \cap B = {} => Sifted(s, B) = <<>>
<1> DEFINE Full == {s \in Seq(T) : T \subseteq B => Sifted(s, B) = s}
           None == {s \in Seq(T) : T \cap B = {} => Sifted(s, B) = <<>>}
<1>1. <<>> \in Full /\ <<>> \in None
  <2>1. Sifted(<<>>, B) = <<>>
    BY SiftedNone
  <2>2. QED
    BY <2>1, EmptySeq
<1>2. ASSUME NEW s \in Seq(T), NEW x \in T
      PROVE  /\ s \in Full => Append(s, x) \in Full
             /\ s \in None => Append(s, x) \in None
  <2>1. Append(s, x) \in Seq(T)
    BY AppendProperties
  <2>2. Sifted(Append(s, x), B) = IF x \in B THEN Append(Sifted(s, B), x) ELSE Sifted(s, B)
    BY SiftedAppend
  <2>3. QED
    BY <2>1, <2>2
<1> HIDE DEF Full, None
<1>3. Seq(T) \subseteq Full
  BY <1>1, <1>2, LineSetInduction
<1>4. Seq(T) \subseteq None
  BY <1>1, <1>2, LineSetInduction
<1>5. QED
  BY <1>3, <1>4 DEF Full, None

LEMMA SiftedType ==
  ASSUME NEW T, NEW s \in Seq(T), NEW B
  PROVE  Sifted(s, B) \in Seq(T \cap B)
<1> DEFINE Fine == {p \in Seq(T) : Sifted(p, B) \in Seq(T \cap B)}
<1>1. <<>> \in Fine
  <2>1. Sifted(<<>>, B) = <<>>
    BY SiftedNone
  <2>2. QED
    BY <2>1, EmptySeq
<1>2. ASSUME NEW p \in Seq(T), NEW x \in T, p \in Fine
      PROVE  Append(p, x) \in Fine
  <2>1. Append(p, x) \in Seq(T)
    BY AppendProperties
  <2>2. Sifted(Append(p, x), B) = IF x \in B THEN Append(Sifted(p, B), x) ELSE Sifted(p, B)
    BY SiftedAppend
  <2>3. x \in B => Append(Sifted(p, B), x) \in Seq(T \cap B)
    BY <1>2, AppendProperties
  <2>4. QED
    BY <1>2, <2>1, <2>2, <2>3
<1> HIDE DEF Fine
<1>3. Seq(T) \subseteq Fine
  BY <1>1, <1>2, LineSetInduction
<1>4. QED
  BY <1>3 DEF Fine

LEMMA SiftedConcat ==
  ASSUME NEW T, NEW p \in Seq(T), NEW q \in Seq(T), NEW B
  PROVE  Sifted(p \o q, B) = Sifted(p, B) \o Sifted(q, B)
<1> DEFINE Fine == {s \in Seq(T) : Sifted(p \o s, B) = Sifted(p, B) \o Sifted(s, B)}
<1>0. Sifted(<<>>, B) = <<>> /\ Sifted(p, B) \in Seq(T)
  <2>1. Sifted(p, B) = Picked(p, {k \in DOMAIN p : p[k] \in B})
    BY DEF Sifted
  <2>2. QED
    BY <2>1, SiftedNone, PickedFacts
<1>a. \A s \in Seq(T) : Sifted(s, B) \in Seq(T)
  BY PickedFacts DEF Sifted
<1>b. \A s \in Seq(T), x \in T :
        Sifted(Append(s, x), B) = IF x \in B THEN Append(Sifted(s, B), x) ELSE Sifted(s, B)
  BY SiftedAppend
<1>c. \A s \in Seq(T), x \in T :
        Append(Sifted(p, B) \o Sifted(s, B), x) = Sifted(p, B) \o Append(Sifted(s, B), x)
  <2>1. TAKE s \in Seq(T), x \in T
  <2>2. Sifted(s, B) \in Seq(T)
    BY <1>a
  <2>3. \A a, b \in Seq(T) : Append(a \o b, x) = a \o Append(b, x)
    <3>1. TAKE a, b \in Seq(T)
    <3>2. a \o Append(b, x) = Append(a \o b, x)
      BY AppendBehind
    <3>3. QED
      BY <3>2
  <2>4. QED
    BY <1>0, <2>2, <2>3
<1>1. <<>> \in Fine
  BY <1>0, ConcatEmptySeq, EmptySeq
<1>2. ASSUME NEW s \in Seq(T), NEW x \in T, s \in Fine
      PROVE  Append(s, x) \in Fine
  <2>1. p \o Append(s, x) = Append(p \o s, x) /\ p \o s \in Seq(T) /\ Append(s, x) \in Seq(T)
    BY AppendBehind
  <2>2. Sifted(Append(p \o s, x), B) = IF x \in B THEN Append(Sifted(p \o s, B), x) ELSE Sifted(p \o s, B)
    BY <2>1, <1>b
  <2>3. Sifted(Append(s, x), B) = IF x \in B THEN Append(Sifted(s, B), x) ELSE Sifted(s, B)
    BY <1>b
  <2>4. Sifted(p \o s, B) = Sifted(p, B) \o Sifted(s, B)
    BY <1>2
  <2>5. Append(Sifted(p, B) \o Sifted(s, B), x) = Sifted(p, B) \o Append(Sifted(s, B), x)
    BY <1>c
  <2>6. QED
    BY <2>1, <2>2, <2>3, <2>4, <2>5
<1> HIDE DEF Fine
<1>3. Seq(T) \subseteq Fine
  BY <1>1, <1>2, LineSetInduction
<1>4. QED
  BY <1>3 DEF Fine

\* What is sifted twice is what the finer of the sieves keeps.
LEMMA SiftedTwice ==
  ASSUME NEW T, NEW s \in Seq(T), NEW B, NEW C, B \subseteq C
  PROVE  Sifted(Sifted(s, C), B) = Sifted(s, B)
<1> DEFINE Fine == {p \in Seq(T) : Sifted(Sifted(p, C), B) = Sifted(p, B)}
<1>0. Sifted(<<>>, B) = <<>> /\ Sifted(<<>>, C) = <<>>
  BY SiftedNone
<1>1. <<>> \in Fine
  BY <1>0, EmptySeq
<1>2. ASSUME NEW p \in Seq(T), NEW x \in T, p \in Fine
      PROVE  Append(p, x) \in Fine
  <2>1. Append(p, x) \in Seq(T) /\ Sifted(p, C) \in Seq(T)
    BY AppendProperties, SiftedAppend
  <2>2. Sifted(Append(p, x), C) = IF x \in C THEN Append(Sifted(p, C), x) ELSE Sifted(p, C)
    BY SiftedAppend
  <2>3. Sifted(Append(p, x), B) = IF x \in B THEN Append(Sifted(p, B), x) ELSE Sifted(p, B)
    BY SiftedAppend
  <2>4. Sifted(Append(Sifted(p, C), x), B)
          = IF x \in B THEN Append(Sifted(Sifted(p, C), B), x) ELSE Sifted(Sifted(p, C), B)
    BY <2>1, SiftedAppend
  <2>5. QED
    BY <1>2, <2>1, <2>2, <2>3, <2>4
<1> HIDE DEF Fine
<1>3. Seq(T) \subseteq Fine
  BY <1>1, <1>2, LineSetInduction
<1>4. QED
  BY <1>3 DEF Fine

\* The first of a line, and the others.
LEMMA FirstOfLine ==
  ASSUME NEW T, NEW e \in T, NEW s \in Seq(T)
  PROVE  /\ <<e>> \o s # <<>> /\ Head(<<e>> \o s) = e /\ Tail(<<e>> \o s) = s
         /\ Len(<<e>> \o s) = Len(s) + 1 /\ <<e>> \o s \in Seq(T)
<1> DEFINE t == <<e>> \o s
<1>1. <<e>> \in Seq(T) /\ Len(<<e>>) = 1 /\ <<e>>[1] = e
  OBVIOUS
<1>2. /\ t \in Seq(T) /\ Len(t) = 1 + Len(s) /\ Len(s) \in Nat
      /\ \A i \in 1 .. 1 + Len(s) : t[i] = IF i <= 1 THEN <<e>>[i] ELSE s[i - 1]
  BY <1>1, ConcatProperties, LenProperties
<1> HIDE DEF t
<1>3. t # <<>>
  BY <1>2
<1>4. Head(t) = e
  <2>1. Head(t) = t[1]
    BY <1>2, <1>3
  <2>2. QED
    BY <1>1, <1>2, <2>1
<1>5. Tail(t) = s
  <2>1. Tail(t) \in Seq(T) /\ Len(Tail(t)) = Len(s) /\ \A i \in 1 .. Len(Tail(t)) : Tail(t)[i] = t[i + 1]
    BY <1>2, <1>3, HeadTailProperties
  <2>2. \A i \in 1 .. Len(s) : Tail(t)[i] = s[i]
    <3>1. TAKE i \in 1 .. Len(s)
    <3>2. Tail(t)[i] = t[i + 1] /\ i + 1 \in 1 .. 1 + Len(s) /\ ~ (i + 1 <= 1) /\ i + 1 - 1 = i
      BY <1>2, <2>1
    <3>3. QED
      BY <1>2, <3>2
  <2>3. QED
    BY <2>1, <2>2, SeqEqual
<1>6. Len(t) = Len(s) + 1
  BY <1>2
<1>7. QED
  BY <1>2, <1>3, <1>4, <1>5, <1>6 DEF t

=============================================================================
