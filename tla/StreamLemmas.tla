---------------------------- MODULE StreamLemmas ----------------------------
(***************************************************************************)
(* Prefixes and concatenations of sequences, for the proofs about the      *)
(* streams of tokens that the engines run and the caches hold; least and   *)
(* greatest numbers of a set, for what is searched in them.                *)
(***************************************************************************)
EXTENDS Integers, SequenceTheorems, WellFoundedInduction, TLAPS

LEMMA PrefixType ==
  ASSUME NEW S, NEW s \in Seq(S), NEW k \in 0 .. Len(s)
  PROVE  /\ SubSeq(s, 1, k) \in Seq(S)
         /\ Len(SubSeq(s, 1, k)) = k
         /\ \A i \in 1 .. k : SubSeq(s, 1, k)[i] = s[i]
<1>1. \A i \in 1 .. k : s[i] \in S
  BY ElementOfSeq, LenProperties
<1>. QED
  BY <1>1, SubSeqProperties, LenProperties

LEMMA ConcatLength ==
  ASSUME NEW S, NEW s \in Seq(S), NEW t \in Seq(S), NEW n \in Nat, Len(t) = n
  PROVE  s \o t \in Seq(S) /\ Len(s \o t) = Len(s) + n
BY ConcatProperties

LEMMA PrefixOfPrefix ==
  ASSUME NEW S, NEW s \in Seq(S), NEW k \in 0 .. Len(s), NEW j \in 0 .. k
  PROVE  SubSeq(SubSeq(s, 1, k), 1, j) = SubSeq(s, 1, j)
<1>1. Len(s) \in Nat
  BY LenProperties
<1>2. /\ SubSeq(s, 1, k) \in Seq(S)
      /\ Len(SubSeq(s, 1, k)) = k
      /\ \A i \in 1 .. k : SubSeq(s, 1, k)[i] = s[i]
  BY PrefixType
<1>3. j \in 0 .. Len(s) /\ j \in 0 .. Len(SubSeq(s, 1, k))
  BY <1>1, <1>2
<1>4. /\ SubSeq(s, 1, j) \in Seq(S)
      /\ Len(SubSeq(s, 1, j)) = j
      /\ \A i \in 1 .. j : SubSeq(s, 1, j)[i] = s[i]
  BY <1>3, PrefixType
<1>5. /\ SubSeq(SubSeq(s, 1, k), 1, j) \in Seq(S)
      /\ Len(SubSeq(SubSeq(s, 1, k), 1, j)) = j
      /\ \A i \in 1 .. j : SubSeq(SubSeq(s, 1, k), 1, j)[i] = SubSeq(s, 1, k)[i]
  BY <1>2, <1>3, PrefixType
<1>6. \A i \in 1 .. j : SubSeq(SubSeq(s, 1, k), 1, j)[i] = SubSeq(s, 1, j)[i]
  BY <1>2, <1>4, <1>5
<1>. QED
  BY <1>4, <1>5, <1>6, SeqEqual

LEMMA PrefixOfConcat ==
  ASSUME NEW S, NEW s \in Seq(S), NEW t \in Seq(S), NEW k \in 0 .. Len(s)
  PROVE  SubSeq(s \o t, 1, k) = SubSeq(s, 1, k)
<1>1. Len(s) \in Nat /\ Len(t) \in Nat
  BY LenProperties
<1>2. /\ s \o t \in Seq(S)
      /\ Len(s \o t) = Len(s) + Len(t)
      /\ \A i \in 1 .. Len(s) : (s \o t)[i] = s[i]
  BY <1>1, ConcatProperties
<1>3. k \in 0 .. Len(s \o t)
  BY <1>1, <1>2
<1>4. /\ SubSeq(s, 1, k) \in Seq(S)
      /\ Len(SubSeq(s, 1, k)) = k
      /\ \A i \in 1 .. k : SubSeq(s, 1, k)[i] = s[i]
  BY PrefixType
<1>5. /\ SubSeq(s \o t, 1, k) \in Seq(S)
      /\ Len(SubSeq(s \o t, 1, k)) = k
      /\ \A i \in 1 .. k : SubSeq(s \o t, 1, k)[i] = (s \o t)[i]
  BY <1>2, <1>3, PrefixType
<1>6. \A i \in 1 .. k : SubSeq(s \o t, 1, k)[i] = SubSeq(s, 1, k)[i]
  BY <1>1, <1>2, <1>4, <1>5
<1>. QED
  BY <1>4, <1>5, <1>6, SeqEqual

LEMMA PrefixIntoConcat ==
  ASSUME NEW S, NEW s \in Seq(S), NEW t \in Seq(S), NEW k \in 0 .. Len(t)
  PROVE  SubSeq(s \o t, 1, Len(s) + k) = s \o SubSeq(t, 1, k)
<1>1. Len(s) \in Nat /\ Len(t) \in Nat
  BY LenProperties
<1>2. /\ s \o t \in Seq(S)
      /\ Len(s \o t) = Len(s) + Len(t)
      /\ \A i \in 1 .. Len(s) + Len(t) :
           (s \o t)[i] = IF i <= Len(s) THEN s[i] ELSE t[i - Len(s)]
  BY ConcatProperties
<1>3. /\ SubSeq(t, 1, k) \in Seq(S)
      /\ Len(SubSeq(t, 1, k)) = k
      /\ \A i \in 1 .. k : SubSeq(t, 1, k)[i] = t[i]
  BY PrefixType
<1>4. /\ s \o SubSeq(t, 1, k) \in Seq(S)
      /\ Len(s \o SubSeq(t, 1, k)) = Len(s) + k
      /\ \A i \in 1 .. Len(s) + k :
           (s \o SubSeq(t, 1, k))[i] = IF i <= Len(s) THEN s[i] ELSE SubSeq(t, 1, k)[i - Len(s)]
  BY <1>3, ConcatProperties
<1>5. Len(s) + k \in 0 .. Len(s \o t)
  BY <1>1, <1>2
<1>6. /\ SubSeq(s \o t, 1, Len(s) + k) \in Seq(S)
      /\ Len(SubSeq(s \o t, 1, Len(s) + k)) = Len(s) + k
      /\ \A i \in 1 .. Len(s) + k : SubSeq(s \o t, 1, Len(s) + k)[i] = (s \o t)[i]
  BY <1>2, <1>5, PrefixType
<1>7. ASSUME NEW i \in 1 .. Len(s) + k
      PROVE  SubSeq(s \o t, 1, Len(s) + k)[i] = (s \o SubSeq(t, 1, k))[i]
  <2>1. CASE i <= Len(s)
    BY <2>1, <1>1, <1>2, <1>4, <1>6
  <2>2. CASE i > Len(s)
    <3>1. i - Len(s) \in 1 .. k
      BY <2>2, <1>1
    <3>. QED
      BY <3>1, <2>2, <1>1, <1>2, <1>3, <1>4, <1>6
  <2>. QED
    BY <2>1, <2>2, <1>1
<1>. QED
  BY <1>4, <1>6, <1>7, SeqEqual

\* The first element of a sequence that goes over to the one before it.
LEMMA HeadOver ==
  ASSUME NEW S, NEW s \in Seq(S), NEW d \in Seq(S), d # <<>>
  PROVE  /\ Head(d) \in S /\ Tail(d) \in Seq(S) /\ Len(Tail(d)) = Len(d) - 1
         /\ Len(d) \in Nat /\ Len(d) > 0
         /\ Append(s, Head(d)) \in Seq(S)
         /\ SubSeq(s \o d, 1, Len(s) + 1) = Append(s, Head(d))
         /\ Append(s, Head(d)) \o Tail(d) = s \o d
         /\ Len(d) = 1 => Append(s, Head(d)) = s \o d
<1>. DEFINE h == Head(d)
            r == Tail(d)
            a == Append(s, h)
<1>1. Len(s) \in Nat /\ Len(d) \in Nat /\ Len(d) > 0
  BY EmptySeq, LenProperties
<1>2. /\ h \in S /\ r \in Seq(S) /\ Len(r) = Len(d) - 1 /\ h = d[1]
      /\ \A i \in 1 .. Len(r) : r[i] = d[i + 1]
  BY <1>1, HeadTailProperties
<1>. HIDE DEF h, r
<1>3. /\ a \in Seq(S) /\ Len(a) = Len(s) + 1
      /\ \A i \in 1 .. Len(s) : a[i] = s[i]
      /\ a[Len(s) + 1] = h
  BY <1>1, <1>2, AppendProperties
<1>. HIDE DEF a
<1>4. /\ s \o d \in Seq(S) /\ Len(s \o d) = Len(s) + Len(d)
      /\ \A i \in 1 .. Len(s) + Len(d) : (s \o d)[i] = IF i <= Len(s) THEN s[i] ELSE d[i - Len(s)]
  BY <1>1, ConcatProperties
<1>5. /\ a \o r \in Seq(S) /\ Len(a \o r) = Len(a) + Len(r)
      /\ \A i \in 1 .. Len(a) + Len(r) : (a \o r)[i] = IF i <= Len(a) THEN a[i] ELSE r[i - Len(a)]
  BY <1>2, <1>3, ConcatProperties
<1>6. Len(a \o r) = Len(s \o d) /\ Len(a) + Len(r) = Len(s) + Len(d)
  BY <1>1, <1>2, <1>3, <1>4, <1>5
<1>7. ASSUME NEW i \in 1 .. Len(s) + 1
      PROVE  (s \o d)[i] = a[i]
  <2>0. i \in 1 .. Len(s) + Len(d)
    BY <1>1
  <2>1. CASE i <= Len(s)
    <3>1. i \in 1 .. Len(s)
      BY <1>1, <2>1
    <3>. QED
      BY <1>3, <1>4, <2>0, <2>1, <3>1
  <2>2. CASE ~(i <= Len(s))
    <3>1. i = Len(s) + 1 /\ i - Len(s) = 1
      BY <1>1, <2>2
    <3>. QED
      BY <1>2, <1>3, <1>4, <2>0, <2>2, <3>1
  <2>. QED
    BY <2>1, <2>2
<1>8. ASSUME NEW i \in 1 .. Len(s \o d)
      PROVE  (a \o r)[i] = (s \o d)[i]
  <2>0. i \in 1 .. Len(s) + Len(d) /\ i \in 1 .. Len(a) + Len(r)
    BY <1>4, <1>6
  <2>1. CASE i <= Len(s) + 1
    <3>1. i \in 1 .. Len(s) + 1 /\ i <= Len(a)
      BY <1>1, <1>3, <2>0, <2>1
    <3>. QED
      BY <1>5, <1>7, <2>0, <3>1
  <2>2. CASE ~(i <= Len(s) + 1)
    <3>1. /\ i - Len(a) \in 1 .. Len(r) /\ i - Len(a) + 1 = i - Len(s)
          /\ ~(i <= Len(a)) /\ ~(i <= Len(s))
      BY <1>1, <1>2, <1>3, <2>0, <2>2
    <3>2. r[i - Len(a)] = d[i - Len(s)]
      BY <1>2, <3>1
    <3>. QED
      BY <1>4, <1>5, <2>0, <3>1, <3>2
  <2>. QED
    BY <2>1, <2>2
<1>9. a \o r = s \o d
  BY <1>4, <1>5, <1>6, <1>8, SeqEqual
<1>10. SubSeq(s \o d, 1, Len(s) + 1) = a
  <2>1. Len(s) + 1 \in 0 .. Len(s \o d)
    BY <1>1, <1>4
  <2>2. /\ SubSeq(s \o d, 1, Len(s) + 1) \in Seq(S)
        /\ Len(SubSeq(s \o d, 1, Len(s) + 1)) = Len(s) + 1
        /\ \A i \in 1 .. Len(s) + 1 : SubSeq(s \o d, 1, Len(s) + 1)[i] = (s \o d)[i]
    BY <1>4, <2>1, PrefixType
  <2>3. \A i \in 1 .. Len(s) + 1 : SubSeq(s \o d, 1, Len(s) + 1)[i] = a[i]
    BY <1>7, <2>2
  <2>. QED
    BY <1>3, <2>2, <2>3, SeqEqual
<1>11. Len(d) = 1 => a = s \o d
  <2>1. SUFFICES ASSUME Len(d) = 1 PROVE a = s \o d
    OBVIOUS
  <2>2. SubSeq(s \o d, 1, Len(s) + 1) = s \o d
    BY <1>4, <2>1, SubSeqFull
  <2>. QED
    BY <1>10, <2>2
<1>. QED
  BY <1>1, <1>2, <1>3, <1>9, <1>10, <1>11 DEF h, r, a

-----------------------------------------------------------------------------

\* Every set of naturals has a least element.
LEMMA Least ==
  ASSUME NEW T \in SUBSET Nat, T # {}
  PROVE  \E m \in T : \A k \in T : m <= k
<1>. DEFINE R == {ss \in Nat \X Nat : ss[1] < ss[2]}
<1>1. R = OpToRel(<, Nat)
  BY Zenon DEF OpToRel
<1>2. IsWellFoundedOn(R, Nat)
  BY <1>1, NatLessThanWellFounded, Zenon
<1>. HIDE DEF R
<1>3. PICK x \in T : \A y \in T : ~ (<<y, x>> \in R)
  BY <1>2, WFMin, Zenon
<1>4. ASSUME NEW y \in T
      PROVE  x <= y
  <2>1. SUFFICES ASSUME y < x PROVE FALSE
    OBVIOUS
  <2>. DEFINE p == <<y, x>>
  <2>2. p \in Nat \X Nat /\ p[1] = y /\ p[2] = x
    OBVIOUS
  <2>3. p \in R
    <3>. HIDE DEF p
    <3>1. p[1] < p[2]
      BY <2>1, <2>2
    <3>. QED
      BY <2>2, <3>1 DEF R
  <2>. QED
    BY <1>3, <2>3
<1>. QED
  BY <1>4

\* Every bounded one has a greatest.
LEMMA Greatest ==
  ASSUME NEW b \in Nat, NEW T \in SUBSET (0 .. b), T # {}
  PROVE  \E m \in T : \A k \in T : m >= k
<1>. DEFINE U == {b - x : x \in T}
<1>1. U \in SUBSET Nat /\ U # {}
  <2>1. \A x \in T : x \in 0 .. b /\ b - x \in Nat
    OBVIOUS
  <2>. QED
    BY <2>1
<1>2. PICK u \in U : \A v \in U : u <= v
  BY <1>1, Least
<1>3. PICK m \in T : u = b - m
  BY <1>2
<1>4. ASSUME NEW k \in T
      PROVE  m >= k
  <2>1. b - m <= b - k
    BY <1>2, <1>3
  <2>. QED
    BY <2>1
<1>. QED
  BY <1>4

=============================================================================
