---------------------------- MODULE MtpCacheProofs ----------------------------
(***************************************************************************)
(* Proofs about MtpCache: with its real drafters the engine takes only     *)
(* steps of GpuEngine, so that everything proved of GpuEngine holds of it; *)
(* and the draft cache stays in step with the stream.                      *)
(***************************************************************************)
EXTENDS MtpCache, GpuEngineProofs

-----------------------------------------------------------------------------
(* The n-gram lookup *)

LEMMA MaxIn ==
  ASSUME NEW b \in Nat, NEW T \in SUBSET (0 .. b), T # {}
  PROVE  Max(T) \in T
<1>1. \E m \in T : \A k \in T : m >= k
  BY Greatest
<1>. QED
  BY <1>1 DEF Max

\* The lookup takes one of the hits.
LEMMA BestHitFound ==
  ASSUME NEW ctx \in Stream, NEW seed, NEW m \in Nat, NEW cap \in Nat,
         Hits(ctx, seed, m) # {}
  PROVE  BestHit(ctx, seed, m, cap) \in Hits(ctx, seed, m)
<1>. DEFINE H == Hits(ctx, seed, m)
            C(j) == Continuation(ctx, j, cap)
            V == {C(j) : j \in H}
            Longest(v) == {j \in H : C(j) = v}
<1>1. Len(ctx) \in Nat
  BY EmptyStream
<1>2. \A j \in H : j \in 0 .. Len(ctx) /\ C(j) \in 0 .. cap
  BY <1>1 DEF Hits, Continuation, Lesser
<1>3. H # {} /\ BestHit(ctx, seed, m, cap) =
        CHOOSE j \in H : \A i \in H : C(i) < C(j) \/ (C(i) = C(j) /\ i <= j)
  BY DEF BestHit
<1>. HIDE DEF H, C
<1>4. V \in SUBSET (0 .. cap) /\ V # {}
  BY <1>2, <1>3
<1>5. PICK v \in V : \A w \in V : v >= w
  BY <1>4, Greatest
<1>6. Longest(v) \in SUBSET (0 .. Len(ctx)) /\ Longest(v) # {}
  BY <1>2, <1>5
<1>7. PICK j \in Longest(v) : \A i \in Longest(v) : j >= i
  BY <1>1, <1>6, Greatest
<1>8. ASSUME NEW i \in H
      PROVE  C(i) < C(j) \/ (C(i) = C(j) /\ i <= j)
  <2>1. C(j) = v /\ C(i) <= v /\ C(i) \in Nat /\ v \in Nat
    BY <1>2, <1>4, <1>5, <1>7
  <2>2. C(i) = v => i <= j
    <3>1. C(i) = v => i \in Longest(v)
      OBVIOUS
    <3>. QED
      BY <1>6, <1>7, <3>1
  <2>. QED
    BY <2>1, <2>2
<1>9. j \in H
  BY <1>7
<1>. QED
  BY <1>3, <1>8, <1>9 DEF H

\* A draft of the lookup is not longer than the cap it is given.
LEMMA NgramFits ==
  ASSUME NEW ctx \in Stream, NEW seed, NEW cap \in Int
  PROVE  LET g == Ngram(ctx, seed, cap)
         IN g = <<>> \/ (cap > 0 /\ \E n \in 0 .. cap : Len(g) = n /\ g \in [1 .. n -> Token])
<1>1. CASE cap <= 0 \/ Matches(ctx, seed, cap) = {}
  BY <1>1 DEF Ngram
<1>2. CASE cap > 0 /\ Matches(ctx, seed, cap) # {}
  <2>. DEFINE M == Matches(ctx, seed, cap)
              m == Max(M)
              j == BestHit(ctx, seed, m, cap)
              n == Continuation(ctx, j, cap)
  <2>1. Max({NgramMin, 4}) \in Nat
    <3>1. {NgramMin, 4} \in SUBSET (0 .. NgramMin + 4) /\ NgramMin + 4 \in Nat
      BY NgramAssumption
    <3>2. Max({NgramMin, 4}) \in {NgramMin, 4}
      BY <3>1, MaxIn
    <3>. QED
      BY <3>2, NgramAssumption
  <2>2. M \in SUBSET (0 .. Max({NgramMin, 4})) /\ M # {}
    BY <1>2, <2>1, NgramAssumption DEF Matches
  <2>3. m \in M
    <3>. HIDE DEF M
    <3>. QED
      BY <2>1, <2>2, MaxIn
  <2>4. m \in Nat /\ Hits(ctx, seed, m) # {}
    BY <2>1, <2>3, NgramAssumption DEF Matches
  <2>. HIDE DEF m
  <2>5. j \in Hits(ctx, seed, m)
    BY <1>2, <2>4, BestHitFound
  <2>6. Len(ctx) \in Nat
    BY EmptyStream
  <2>7. j \in Nat /\ j < Len(ctx)
    BY <2>4, <2>5, <2>6 DEF Hits
  <2>. HIDE DEF j
  <2>8. n \in 1 .. cap /\ j + n <= Len(ctx)
    BY <1>2, <2>6, <2>7 DEF Continuation, Lesser
  <2>9. Ngram(ctx, seed, cap) = SubSeq(ctx, j + 1, j + n)
    <3>. HIDE DEF n
    <3>1. ~(cap <= 0 \/ Matches(ctx, seed, cap) = {})
      BY <1>2
    <3>. QED
      BY <3>1, Zenon DEF Ngram, j, m, n
  <2>. HIDE DEF n
  <2>10. /\ SubSeq(ctx, j + 1, j + n) \in Seq(Token)
         /\ Len(SubSeq(ctx, j + 1, j + n)) = n
    <3>1. \A i \in j + 1 .. j + n : ctx[i] \in Token
      BY <2>6, <2>7, <2>8, ElementOfSeq DEF Stream
    <3>2. j + 1 \in Int /\ j + n \in Int /\ j + 1 <= j + n /\ (j + n) - (j + 1) + 1 = n
      BY <2>7, <2>8
    <3>3. /\ SubSeq(ctx, j + 1, j + n) \in Seq(Token)
          /\ Len(SubSeq(ctx, j + 1, j + n)) =
               IF j + 1 <= j + n THEN (j + n) - (j + 1) + 1 ELSE 0
      BY <3>1, <3>2, SubSeqProperties
    <3>. QED
      BY <3>2, <3>3
  <2>11. SubSeq(ctx, j + 1, j + n) \in [1 .. n -> Token]
    BY <2>10, LenProperties
  <2>12. n \in 0 .. cap
    BY <2>8
  <2>. QED
    BY <1>2, <2>9, <2>10, <2>11, <2>12
<1>. QED
  BY <1>1, <1>2

-----------------------------------------------------------------------------
(* Every step is one of GpuEngine *)

LEMMA GroupSizes ==
  ASSUME IndInv, pc = "loop", spec, Remaining > 0, Len(all) + GroupWidth <= MaxCtx
  PROVE  /\ GroupWidth \in Nat \ {0} /\ DraftCap \in Nat
         /\ GroupWidth - 1 <= DraftCap /\ Len(all) + DraftCap + 1 <= MaxCtx
<1>1. /\ req.k \in Nat /\ req.k > 0 /\ req.max \in Nat
      /\ all \in Stream /\ plen \in Nat
  BY RequestAssumption, ParamAssumption DEF IndInv, TypeOK, Request
<1>2. Len(all) \in Nat /\ Remaining \in Int
  BY <1>1, EmptyStream DEF Remaining
<1>. HIDE DEF Remaining
<1>3. GroupWidth \in Nat /\ GroupWidth >= 1
  BY <1>1, <1>2, ParamAssumption DEF GroupWidth, Lesser
<1>. QED
  BY <1>1, <1>2, <1>3, ParamAssumption DEF GroupWidth, DraftCap, Lesser

LEMMA ChunkType ==
  ASSUME IndInv, pc = "loop", spec, NEW n \in Nat, NEW ds \in [1 .. n -> Token]
  PROVE  /\ <<Seed>> \o ds \in Stream /\ Len(<<Seed>> \o ds) = n + 1
         /\ Seed \in Token
<1>1. all \in Stream /\ logits = all /\ Len(all) <= MaxCtx
  <2>1. pending = <<>> /\ all \in Stream /\ curLen \in 0 .. MaxCtx
    BY DEF IndInv, TypeOK
  <2>2. Verified = all
    BY <2>1, EmptyStream DEF Verified
  <2>. QED
    BY <2>1, <2>2, ParamAssumption DEF IndInv
<1>2. Seed \in Token
  BY <1>1, GreedyType DEF Seed
<1>3. <<Seed>> = Append(<<>>, Seed)
  OBVIOUS
<1>4. <<>> \in Seq(Token) /\ Len(<<>>) = 0
  BY EmptySeq
<1>5. <<Seed>> \in Seq(Token) /\ Len(<<Seed>>) = 1
  BY <1>2, <1>3, <1>4, AppendProperties
<1>6. ds \in Seq(Token) /\ Len(ds) = n
  BY SeqDef, LenProperties
<1>7. <<Seed>> \o ds \in Seq(Token) /\ Len(<<Seed>> \o ds) = Len(<<Seed>>) + Len(ds)
  BY <1>5, <1>6, ConcatProperties
<1>. QED
  BY <1>2, <1>5, <1>6, <1>7 DEF Stream

\* The drafts of a group are as many as GpuEngine allows.
LEMMA DraftsFit ==
  ASSUME IndInv, pc = "loop", spec, Remaining > 0, Len(all) + GroupWidth <= MaxCtx,
         NEW ds \in IF FromNgram THEN {Lookup} ELSE MtpDrafts
  PROVE  \E n \in 0 .. DraftCap : ds \in [1 .. n -> Token] /\ Len(ds) = n
<1>1. /\ GroupWidth \in Nat \ {0} /\ DraftCap \in Nat
      /\ GroupWidth - 1 <= DraftCap
  BY GroupSizes
<1>2. CASE FromNgram
  <2>1. ds = Ngram(all, Seed, DraftCap) /\ ds # <<>>
    BY <1>2 DEF FromNgram, Lookup
  <2>2. all \in Stream
    BY DEF IndInv, TypeOK
  <2>. QED
    BY <1>1, <2>1, <2>2, NgramFits
<1>3. CASE ~FromNgram
  <2>1. ds \in UNION {[1 .. n -> Token] : n \in IF Adaptive THEN {GroupWidth - 1} ELSE 0 .. GroupWidth - 1}
    BY <1>3 DEF MtpDrafts
  <2>2. PICK n \in 0 .. GroupWidth - 1 : ds \in [1 .. n -> Token]
    BY <1>1, <2>1
  <2>3. n \in Nat /\ n \in 0 .. DraftCap
    BY <1>1, <2>2
  <2>4. Len(ds) = n
    BY <2>2, <2>3, SeqDef, LenProperties
  <2>. QED
    BY <2>2, <2>3, <2>4
<1>. QED
  BY <1>2, <1>3

LEMMA GroupOfEngine ==
  ASSUME IndInv, MSpecGroup
  PROVE  SpecGroup
<1>1. /\ pc = "loop" /\ spec /\ Remaining > 0 /\ Len(all) + GroupWidth <= MaxCtx
      /\ pc' = "record"
      /\ UNCHANGED <<request, all, committed, reuse, pos, spec, reason>>
  BY DEF MSpecGroup
<1>2. PICK ds \in IF FromNgram THEN {Lookup} ELSE MtpDrafts : Verify(<<Seed>> \o ds)
  BY DEF MSpecGroup
<1>3. PICK n \in 0 .. DraftCap : ds \in [1 .. n -> Token] /\ Len(ds) = n
  BY <1>1, DraftsFit
<1>. DEFINE chunk == <<Seed>> \o ds
<1>4. Len(chunk) = n + 1
  BY <1>1, <1>3, GroupSizes, ChunkType
<1>. HIDE DEF chunk
<1>5. LET new == Pass(rows, Len(all), chunk)
          am == [i \in 1 .. n + 1 |-> Greedy(new[Len(all) + i])]
      IN \E a \in 1 .. n + 1 :
           /\ Accepts(chunk, am, a)
           /\ rows' = new
           /\ curLen' = Len(all) + a
           /\ pending' = SubSeq(chunk, 1, a)
           /\ logits' = new[Len(all) + a]
  BY <1>2, <1>4, Zenon DEF Verify, chunk
<1>. QED
  BY <1>1, <1>3, <1>5, Zenon DEF SpecGroup, chunk, Seed

LEMMA StepOfEngine == IndInv /\ [MNext]_mvars => [Next]_vars
<1>. SUFFICES ASSUME IndInv, [MNext]_mvars PROVE [Next]_vars
  OBVIOUS
<1>1. ASSUME NEW r \in Requests, MBegin(r)
      PROVE  Next
  BY <1>1 DEF MBegin, Next
<1>2. CASE MSpecGroup
  BY <1>2, GroupOfEngine DEF Next, Work
<1>3. CASE MPrefillChunk \/ MPrefillLast \/ MStartDecode \/ MAfterGroup \/ MDecode
  BY <1>3 DEF MPrefillChunk, MPrefillLast, MStartDecode, MAfterGroup, MDecode, Next, Work
<1>4. CASE Aside
  BY <1>4 DEF Aside, Next, Work
<1>5. CASE Abort \/ Probe
  BY <1>5 DEF Next
<1>6. CASE UNCHANGED mvars
  BY <1>6 DEF mvars
<1>. QED
  BY <1>1, <1>2, <1>3, <1>4, <1>5, <1>6 DEF MNext, MWork

LEMMA EngineInductive == MSpec => []IndInv
<1>1. MInit => IndInv
  BY InitInd DEF MInit
<1>2. IndInv /\ [MNext]_mvars => IndInv'
  BY StepOfEngine, NextInd
<1>. QED
  BY <1>1, <1>2, PTL DEF MSpec

\* With the n-gram lookup and the MTP block as its drafters the engine is the one
\* of GpuEngine, whose drafts are any that fit: whatever they look up or guess, no
\* verify chunk is longer than the group, the tokens left and the cache allow, and
\* the draft cache changes nothing the engine does (src/server.cpp:426-490).
THEOREM EngineWithDrafters == MSpec => ImplementsGpuEngine
<1>1. MInit => Init
  BY DEF MInit
<1>. QED
  BY <1>1, EngineInductive, StepOfEngine, PTL DEF MSpec, ImplementsGpuEngine, Spec

-----------------------------------------------------------------------------
(* The draft cache follows the stream *)

\* The draft cache holds the first n pairs of the stream, but for those of the
\* part that was taken over from an earlier request.
Paired(n) == \A i \in 1 .. n : i > reuse => slots[i] = SubSeq(all, 1, i + 1)

\* hid holds the hidden states of the n positions of s from p on.
HiddenOf(hid, s, p, n) == \A i \in 1 .. n : hid[i] = SubSeq(s, 1, p + i)

\* The scratch rows hold the hidden states of s from position row0 on.
InScratch(s) ==
  /\ row0 \in Nat
  /\ row0 < Len(s)
  /\ HiddenOf(scratch, s, row0, Len(s) - row0)

PrefillInStep ==
  pc = "prefill" =>
    /\ all # <<>> => pos < Len(all)
    /\ req.k > 0 => Paired(pos)

CheckInStep ==
  pc = "check" =>
    /\ InScratch(all)
    /\ req.k > 0 => Paired(row0)

GroupInStep ==
  pc \in {"record", "absorb"} /\ spec => InScratch(Verified) /\ plen <= row0

\* What a draft relies on is made over several steps: the slots by the absorbs of
\* the prefill, and before each group the seed from the scratch rows that the last
\* pass left, whatever has been recorded in between.
DraftInv ==
  /\ IndInv
  /\ PrefillInStep
  /\ CheckInStep
  /\ GroupInStep
  /\ DraftCacheInStep

LEMMA PairRow ==
  ASSUME NEW s \in Stream, NEW i \in 1 .. Len(s) - 1
  PROVE  Pair(SubSeq(s, 1, i), s[i + 1]) = SubSeq(s, 1, i + 1)
<1>. DEFINE t == SubSeq(s, 1, i)
            u == SubSeq(s, 1, i + 1)
<1>1. Len(s) \in Nat /\ i \in 0 .. Len(s) /\ i + 1 \in 0 .. Len(s) /\ i + 1 \in 1 .. Len(s)
  BY EmptyStream
<1>2. /\ t \in Seq(Token) /\ Len(t) = i
      /\ \A j \in 1 .. i : t[j] = s[j]
  BY <1>1, PrefixType DEF Stream
<1>3. /\ u \in Seq(Token) /\ Len(u) = i + 1
      /\ \A j \in 1 .. i + 1 : u[j] = s[j]
  BY <1>1, PrefixType DEF Stream
<1>4. s[i + 1] \in Token
  BY <1>1, ElementOfSeq DEF Stream
<1>. HIDE DEF t, u
<1>5. /\ Append(t, s[i + 1]) \in Seq(Token) /\ Len(Append(t, s[i + 1])) = i + 1
      /\ \A j \in 1 .. i : Append(t, s[i + 1])[j] = t[j]
      /\ Append(t, s[i + 1])[i + 1] = s[i + 1]
  BY <1>2, <1>4, AppendProperties
<1>6. \A j \in 1 .. i + 1 : Append(t, s[i + 1])[j] = u[j]
  BY <1>1, <1>2, <1>3, <1>5
<1>7. Append(t, s[i + 1]) = u
  BY <1>3, <1>5, <1>6, SeqEqual
<1>8. t # Dirty
  BY <1>2, EmptySeq DEF Dirty
<1>. QED
  BY <1>7, <1>8 DEF Pair, t, u

\* An absorb of the pairs from position p up to e makes these slots the stream's.
LEMMA AbsorbPairs ==
  ASSUME NEW s \in Stream, NEW p \in Nat, NEW e \in Nat, p < e, e <= Len(s), e <= MaxCtx,
         NEW hid, HiddenOf(hid, s, p, e - 1 - p)
  PROVE  /\ Len(SubSeq(s, p + 2, e)) = e - 1 - p
         /\ \A i \in p + 1 .. e - 1 :
              SlotsAfter(p, SubSeq(s, p + 2, e), hid)[i] = SubSeq(s, 1, i + 1)
         /\ \A i \in 1 .. p : SlotsAfter(p, SubSeq(s, p + 2, e), hid)[i] = slots[i]
<1>. DEFINE toks == SubSeq(s, p + 2, e)
<1>1. Len(s) \in Nat
  BY EmptyStream
<1>2. /\ Len(toks) = e - 1 - p
      /\ \A i \in 1 .. e - 1 - p : toks[i] = s[p + 1 + i]
  <2>1. \A i \in p + 2 .. e : s[i] \in Token
    BY <1>1, ElementOfSeq DEF Stream
  <2>2. p + 2 \in Int /\ e \in Int
    OBVIOUS
  <2>3. /\ Len(toks) = IF p + 2 <= e THEN e - (p + 2) + 1 ELSE 0
        /\ \A i \in 1 .. e - (p + 2) + 1 : toks[i] = s[(p + 2) + i - 1]
    BY <2>1, <2>2, SubSeqProperties
  <2>4. /\ (IF p + 2 <= e THEN e - (p + 2) + 1 ELSE 0) = e - 1 - p
        /\ \A i \in 1 .. e - 1 - p : i \in 1 .. e - (p + 2) + 1 /\ (p + 2) + i - 1 = p + 1 + i
    OBVIOUS
  <2>. HIDE DEF toks
  <2>5. ASSUME NEW i \in 1 .. e - 1 - p
        PROVE  toks[i] = s[p + 1 + i]
    BY <2>3, <2>4
  <2>. QED
    BY <2>3, <2>4, <2>5
<1>. HIDE DEF toks
<1>3. ASSUME NEW i \in p + 1 .. e - 1
      PROVE  SlotsAfter(p, toks, hid)[i] = SubSeq(s, 1, i + 1)
  <2>1. /\ i \in Row /\ i \in p + 1 .. p + Len(toks) /\ i - p \in 1 .. e - 1 - p
        /\ p + (i - p) = i /\ p + 1 + (i - p) = i + 1 /\ i \in 1 .. Len(s) - 1
    <3>1. Len(toks) = e - 1 - p /\ MaxCtx \in Nat
      BY <1>2, ParamAssumption
    <3>2. /\ i \in p + 1 .. p + (e - 1 - p) /\ i - p \in 1 .. e - 1 - p
          /\ p + (i - p) = i /\ p + 1 + (i - p) = i + 1 /\ i \in 1 .. Len(s) - 1
      BY <1>1
    <3>3. i \in 1 .. MaxCtx
      BY <3>1
    <3>. QED
      BY <3>1, <3>2, <3>3 DEF Row
  <2>2. hid[i - p] = SubSeq(s, 1, i)
    BY <2>1 DEF HiddenOf
  <2>3. toks[i - p] = s[i + 1]
    BY <1>2, <2>1
  <2>4. SlotsAfter(p, toks, hid)[i] = Pair(hid[i - p], toks[i - p])
    BY <2>1 DEF SlotsAfter
  <2>. QED
    BY <2>1, <2>2, <2>3, <2>4, PairRow
<1>4. ASSUME NEW i \in 1 .. p
      PROVE  SlotsAfter(p, toks, hid)[i] = slots[i]
  <2>1. i \in Row /\ i \notin p + 1 .. p + Len(toks)
    BY <1>2, ParamAssumption DEF Row
  <2>. QED
    BY <2>1 DEF SlotsAfter
<1>. QED
  BY <1>2, <1>3, <1>4 DEF toks

\* The scratch rows after a pass whose rows hold the stream s.
LEMMA LeftRows ==
  ASSUME NEW s \in Stream, Holds(rows', s), NEW from \in Nat, NEW upto \in Nat,
         Len(s) <= upto
  PROVE  HiddenOf(Left(from, upto), s, from, Len(s) - from)
<1>1. Len(s) \in Nat
  BY EmptyStream
<1>2. ASSUME NEW i \in 1 .. Len(s) - from
      PROVE  Left(from, upto)[i] = SubSeq(s, 1, from + i)
  <2>1. from + i \in 1 .. Len(s) /\ i \in 1 .. upto - from
    BY <1>1
  <2>2. Left(from, upto)[i] = rows'[from + i]
    BY <2>1 DEF Left
  <2>. QED
    BY <2>1, <2>2 DEF Holds
<1>. QED
  BY <1>2 DEF HiddenOf

\* The last absorb before a group covers the stream and takes its last row as seed.
LEMMA AbsorbRest ==
  ASSUME all \in Stream, Len(all) <= MaxCtx, InScratch(all),
         Absorb(row0, SubSeq(all, row0 + 2, Len(all)), scratch, TRUE)
  PROVE  /\ mtpLen' = Len(all) - 1
         /\ prev' = all
         /\ \A i \in row0 + 1 .. Len(all) - 1 : slots'[i] = SubSeq(all, 1, i + 1)
         /\ \A i \in 1 .. row0 : slots'[i] = slots[i]
<1>. DEFINE toks == SubSeq(all, row0 + 2, Len(all))
<1>1. /\ row0 \in Nat /\ row0 < Len(all) /\ Len(all) \in Nat
      /\ \A i \in 1 .. Len(all) - row0 : scratch[i] = SubSeq(all, 1, row0 + i)
  BY EmptyStream DEF InScratch, HiddenOf
<1>2. HiddenOf(scratch, all, row0, Len(all) - 1 - row0) /\ Len(all) <= Len(all)
  BY <1>1 DEF HiddenOf
<1>3. /\ Len(toks) = Len(all) - 1 - row0
      /\ \A i \in row0 + 1 .. Len(all) - 1 : SlotsAfter(row0, toks, scratch)[i] = SubSeq(all, 1, i + 1)
      /\ \A i \in 1 .. row0 : SlotsAfter(row0, toks, scratch)[i] = slots[i]
  BY <1>1, <1>2, AbsorbPairs
<1>4. /\ slots' = SlotsAfter(row0, toks, scratch)
      /\ mtpLen' = row0 + Len(toks)
      /\ prev' = scratch[Len(toks) + 1]
  BY DEF Absorb
<1>. HIDE DEF toks
<1>5. Len(toks) + 1 \in 1 .. Len(all) - row0 /\ row0 + (Len(toks) + 1) = Len(all)
  BY <1>1, <1>3
<1>6. prev' = all
  <2>1. scratch[Len(toks) + 1] = SubSeq(all, 1, Len(all))
    BY <1>1, <1>5
  <2>. QED
    BY <1>4, <2>1, SubSeqFull DEF Stream
<1>. QED
  BY <1>1, <1>3, <1>4, <1>6

-----------------------------------------------------------------------------
(* Every step keeps it *)

\* The parts that a step to a given place has to establish.
LEMMA PartsByPlace ==
  ASSUME IndInv'
  PROVE  /\ (pc' = "prefill" /\ PrefillInStep' => DraftInv')
         /\ (pc' = "check" /\ CheckInStep' => DraftInv')
         /\ (pc' = "loop" /\ DraftCacheInStep' => DraftInv')
         /\ (pc' \in {"record", "absorb"} /\ GroupInStep' => DraftInv')
         /\ (pc' \in {"idle", "decode"} => DraftInv')
         /\ (pc' \in {"loop", "record", "absorb"} /\ ~spec' => DraftInv')
BY DEF DraftInv, PrefillInStep, CheckInStep, DraftCacheInStep, GroupInStep

LEMMA BeginInStep ==
  ASSUME DraftInv, IndInv', NEW r \in Requests, MBegin(r)
  PROVE  DraftInv'
<1>. DEFINE p == Clamped(r.prompt)
<1>1. /\ pc' = "prefill" /\ all' = p /\ req' = r /\ slots' = slots
      /\ \E n \in 0 .. ReuseLimit(p) : reuse' = n /\ pos' = n
  BY DEF MBegin, Begin, mtp
<1>2. p \in Stream /\ Len(p) \in Nat /\ Len(committed) \in Nat
  <2>1. r.prompt \in Stream
    BY RequestAssumption DEF Request
  <2>2. committed \in Stream
    BY DEF DraftInv, IndInv, TypeOK
  <2>. QED
    BY <2>1, <2>2, ClampedType, EmptyStream
<1>. HIDE DEF p
<1>3. p # <<>> => ReuseLimit(p) <= Len(p) - 1
  BY <1>2 DEF ReuseLimit, Lesser
<1>4. reuse' = pos' /\ pos' \in Nat /\ (p # <<>> => pos' < Len(p))
  <2>1. ReuseLimit(p) \in Int
    BY <1>2 DEF ReuseLimit, Lesser
  <2>. QED
    BY <1>1, <1>2, <1>3, <2>1
<1>5. Paired(pos)'
  BY <1>4 DEF Paired
<1>. QED
  BY <1>1, <1>4, <1>5, PartsByPlace DEF PrefillInStep

LEMMA ChunkInStep ==
  ASSUME DraftInv, IndInv', MPrefillChunk
  PROVE  DraftInv'
<1>1. /\ pc = "prefill" /\ pc' = "prefill" /\ all # <<>>
      /\ pos' = pos + ChunkWidth /\ pos + ChunkWidth < Len(all)
      /\ UNCHANGED <<req, all, plen, reuse>>
  BY DEF MPrefillChunk, PrefillChunk, PrefillChecks, request
<1>2. /\ all \in Stream /\ Len(all) \in Nat /\ pos \in Nat /\ Len(all) <= MaxCtx
      /\ pos < Len(all)
  BY <1>1, EmptyStream, ParamAssumption DEF DraftInv, IndInv, TypeOK, PrefillInStep
<1>3. PICK e \in Nat : pos' = e /\ pos < e /\ e < Len(all) /\ e \in 0 .. Len(all)
  <2>1. ChunkWidth \in Nat /\ ChunkWidth > 0
    BY <1>1, <1>2, ChunkWidthType DEF DraftInv
  <2>2. /\ pos + ChunkWidth \in Nat /\ pos < pos + ChunkWidth
        /\ pos + ChunkWidth \in 0 .. Len(all)
    BY <1>1, <1>2, <2>1
  <2>. QED
    BY <1>1, <2>2
<1>4. ASSUME req.k > 0
      PROVE  Paired(pos)'
  <2>. DEFINE done == SubSeq(all, 1, e)
              toks == SubSeq(all, pos + 2, e + 1)
  <2>1. Absorb(pos, toks, Left(pos, e), FALSE)
    BY <1>3, <1>4 DEF MPrefillChunk
  <2>2. Holds(rows', done)
    BY <1>1, <1>3 DEF IndInv
  <2>3. done \in Stream /\ Len(done) = e
    BY <1>2, <1>3, PrefixType DEF Stream
  <2>4. ASSUME NEW i \in 1 .. e - pos
        PROVE  SubSeq(done, 1, pos + i) = SubSeq(all, 1, pos + i)
    <3>1. pos + i \in 0 .. e
      BY <1>2, <1>3
    <3>. QED
      BY <3>1, <1>2, <1>3, PrefixOfPrefix DEF Stream
  <2>. HIDE DEF done
  <2>5. HiddenOf(Left(pos, e), done, pos, e - pos)
    <3>1. HiddenOf(Left(pos, e), done, pos, Len(done) - pos)
      BY <1>2, <1>3, <2>2, <2>3, LeftRows
    <3>. QED
      BY <3>1, <2>3
  <2>6. HiddenOf(Left(pos, e), all, pos, (e + 1) - 1 - pos)
    <3>1. (e + 1) - 1 - pos = e - pos
      BY <1>2, <1>3
    <3>. QED
      BY <2>4, <2>5, <3>1 DEF HiddenOf
  <2>7. /\ \A i \in pos + 1 .. (e + 1) - 1 :
             SlotsAfter(pos, toks, Left(pos, e))[i] = SubSeq(all, 1, i + 1)
        /\ \A i \in 1 .. pos : SlotsAfter(pos, toks, Left(pos, e))[i] = slots[i]
    <3>1. e + 1 \in Nat /\ pos < e + 1 /\ e + 1 <= Len(all) /\ e + 1 <= MaxCtx
      BY <1>2, <1>3, ParamAssumption
    <3>. QED
      BY <3>1, <1>2, <2>6, AbsorbPairs
  <2>8. slots' = SlotsAfter(pos, toks, Left(pos, e))
    BY <2>1 DEF Absorb
  <2>9. Paired(pos)
    BY <1>1, <1>4 DEF DraftInv, PrefillInStep
  <2>. HIDE DEF toks
  <2>10. ASSUME NEW i \in 1 .. e, i > reuse
         PROVE  slots'[i] = SubSeq(all, 1, i + 1)
    <3>1. i \in 1 .. pos \/ i \in pos + 1 .. (e + 1) - 1
      BY <1>2, <1>3
    <3>. QED
      BY <3>1, <2>7, <2>8, <2>9, <2>10 DEF Paired
  <2>. QED
    BY <2>10, <1>1, <1>3 DEF Paired
<1>. QED
  BY <1>1, <1>3, <1>4, PartsByPlace DEF PrefillInStep

LEMMA LastInStep ==
  ASSUME DraftInv, IndInv', MPrefillLast
  PROVE  DraftInv'
<1>1. /\ pc = "prefill" /\ pc' = "check" /\ all # <<>>
      /\ row0' = pos /\ scratch' = Left(pos, Len(all))
      /\ UNCHANGED <<req, all, plen, reuse, spec, pending, slots>>
  BY DEF MPrefillLast, PrefillLast, PrefillChecks, request, mtp
<1>2. /\ all \in Stream /\ Len(all) \in Nat /\ pos \in Nat /\ pos < Len(all)
      /\ ~spec /\ Verified' = all
  BY <1>1, EmptyStream, ParamAssumption DEF DraftInv, IndInv, TypeOK, PrefillInStep, Verified
<1>3. Holds(rows', all)
  BY <1>1, <1>2 DEF IndInv
<1>4. HiddenOf(Left(pos, Len(all)), all, pos, Len(all) - pos)
  BY <1>2, <1>3, LeftRows
<1>5. InScratch(all)'
  BY <1>1, <1>2, <1>4 DEF InScratch
<1>6. (req.k > 0 => Paired(row0))'
  BY <1>1 DEF DraftInv, PrefillInStep, Paired
<1>. QED
  BY <1>1, <1>5, <1>6, PartsByPlace DEF CheckInStep

LEMMA StartInStep ==
  ASSUME DraftInv, IndInv', MStartDecode
  PROVE  DraftInv'
<1>1. /\ pc = "check" /\ pc' = "loop" /\ spec' = (req.k > 0)
      /\ UNCHANGED <<req, all, plen, reuse, row0>>
  BY DEF MStartDecode, StartDecode, request
<1>2. /\ all \in Stream /\ Len(all) \in Nat /\ plen = Len(all) /\ Len(all) <= MaxCtx
      /\ InScratch(all)
  BY <1>1, EmptyStream, ParamAssumption DEF DraftInv, IndInv, TypeOK, CheckInStep
<1>3. ASSUME req.k > 0
      PROVE  DraftCacheInStep'
  <2>1. Absorb(row0, SubSeq(all, row0 + 2, Len(all)), scratch, TRUE)
    BY <1>3 DEF MStartDecode
  <2>2. /\ mtpLen' = Len(all) - 1
        /\ prev' = all
        /\ \A i \in row0 + 1 .. Len(all) - 1 : slots'[i] = SubSeq(all, 1, i + 1)
        /\ \A i \in 1 .. row0 : slots'[i] = slots[i]
    BY <1>2, <2>1, AbsorbRest
  <2>3. Paired(row0) /\ row0 \in Nat
    BY <1>1, <1>2, <1>3 DEF DraftInv, CheckInStep, InScratch
  <2>4. ASSUME NEW i \in 1 .. plen - 1, i > reuse
        PROVE  slots'[i] = SubSeq(all, 1, i + 1)
    <3>1. i \in 1 .. row0 \/ i \in row0 + 1 .. Len(all) - 1
      BY <1>2, <2>3
    <3>. QED
      BY <3>1, <2>2, <2>3, <2>4 DEF Paired
  <2>. QED
    BY <1>1, <2>2, <2>4 DEF DraftCacheInStep
<1>. QED
  BY <1>1, <1>3, PartsByPlace DEF DraftCacheInStep

LEMMA GroupKeepsStep ==
  ASSUME DraftInv, IndInv', MSpecGroup
  PROVE  DraftInv'
<1>1. /\ pc = "loop" /\ spec /\ Remaining > 0 /\ Len(all) + GroupWidth <= MaxCtx
      /\ pc' = "record" /\ row0' = Len(all)
      /\ UNCHANGED <<request, all, spec>>
  BY DEF MSpecGroup
<1>2. PICK ds \in IF FromNgram THEN {Lookup} ELSE MtpDrafts : Verify(<<Seed>> \o ds)
  BY DEF MSpecGroup
<1>3. PICK n \in 0 .. DraftCap : ds \in [1 .. n -> Token] /\ Len(ds) = n
  BY <1>1, DraftsFit DEF DraftInv
<1>. DEFINE chunk == <<Seed>> \o ds
<1>4. Len(chunk) = n + 1 /\ n \in Nat
  BY <1>1, <1>3, GroupSizes, ChunkType DEF DraftInv
<1>. HIDE DEF chunk
<1>5. PICK a \in 1 .. n + 1 :
        curLen' = Len(all) + a /\ scratch' = Left(Len(all), Len(all) + Len(chunk))
  BY <1>2, <1>4 DEF Verify, chunk
<1>6. PICK v \in Stream : v = Verified' /\ Len(v) = curLen' /\ Holds(rows', v)
  BY <1>1 DEF IndInv, TypeOK
<1>7. /\ Len(all) \in Nat /\ a \in Nat \ {0} /\ Len(v) = Len(all) + a
      /\ Len(all) + Len(chunk) \in Nat /\ Len(v) <= Len(all) + Len(chunk)
  <2>1. Len(all) \in Nat
    BY EmptyStream DEF DraftInv, IndInv, TypeOK
  <2>2. Len(v) = Len(all) + a
    BY <1>5, <1>6
  <2>. QED
    BY <2>1, <2>2, <1>4
<1>8. HiddenOf(Left(Len(all), Len(all) + Len(chunk)), v, Len(all), Len(v) - Len(all))
  BY <1>6, <1>7, LeftRows
<1>9. Len(all) < Len(v)
  BY <1>7
<1>10. InScratch(Verified)'
  BY <1>1, <1>5, <1>6, <1>7, <1>8, <1>9 DEF InScratch
<1>11. plen' <= row0'
  BY <1>1 DEF DraftInv, IndInv, request
<1>. QED
  BY <1>1, <1>10, <1>11, PartsByPlace DEF GroupInStep

LEMMA RecordKeepsStep ==
  ASSUME DraftInv, IndInv', Record, UNCHANGED <<mtp, pass>>
  PROVE  DraftInv'
<1>1. /\ pc = "record" /\ pc' \in {"record", "absorb", "decode"}
      /\ all' = Append(all, Head(pending)) /\ pending' = Tail(pending)
      /\ UNCHANGED <<req, plen, spec, scratch, row0>>
  BY DEF Record, request, pass
<1>2. CASE spec /\ pc' \in {"record", "absorb"}
  <2>1. all \in Stream /\ pending \in Stream /\ pending # <<>>
    BY <1>1 DEF DraftInv, IndInv, TypeOK
  <2>2. all' \o pending' = all \o pending
    <3>1. Append(all, Head(pending)) \o Tail(pending) = all \o pending
      BY <2>1, HeadOver DEF Stream
    <3>. QED
      BY <1>1, <3>1
  <2>3. Verified' = Verified
    BY <1>1, <1>2, <2>2 DEF Verified
  <2>4. InScratch(Verified) /\ plen <= row0
    BY <1>1, <1>2 DEF DraftInv, GroupInStep
  <2>5. InScratch(Verified)'
    BY <1>1, <2>3, <2>4 DEF InScratch
  <2>. QED
    BY <1>1, <1>2, <2>4, <2>5, PartsByPlace DEF GroupInStep
<1>3. CASE ~spec \/ pc' = "decode"
  BY <1>1, <1>3, PartsByPlace DEF IndInv, TypeOK
<1>. QED
  BY <1>1, <1>2, <1>3

LEMMA AfterGroupInStep ==
  ASSUME DraftInv, IndInv', MAfterGroup
  PROVE  DraftInv'
<1>1. /\ pc = "absorb" /\ pc' = "loop" /\ spec' \in BOOLEAN
      /\ UNCHANGED <<req, all, plen, reuse, row0, pending>>
  BY DEF MAfterGroup, AfterGroup, request
<1>2. /\ all \in Stream /\ Len(all) \in Nat /\ Len(all) <= MaxCtx
      /\ InScratch(all) /\ plen <= row0 /\ plen \in Nat
  <2>1. /\ all \in Stream /\ pending = <<>> /\ spec /\ plen \in Nat
        /\ curLen = Len(Verified) /\ curLen \in 0 .. MaxCtx
    BY <1>1, ParamAssumption DEF DraftInv, IndInv, TypeOK
  <2>2. Verified = all /\ Len(all) \in Nat
    BY <2>1, EmptyStream DEF Verified
  <2>3. InScratch(Verified) /\ plen <= row0
    BY <1>1, <2>1 DEF DraftInv, GroupInStep
  <2>. QED
    BY <2>1, <2>2, <2>3, ParamAssumption
<1>3. ASSUME spec'
      PROVE  DraftCacheInStep'
  <2>1. Absorb(row0, SubSeq(all, row0 + 2, Len(all)), scratch, TRUE)
    BY <1>3 DEF MAfterGroup
  <2>2. mtpLen' = Len(all) - 1 /\ prev' = all
    BY <1>2, <2>1, AbsorbRest
  <2>3. Len(all) # plen
    BY <1>2 DEF InScratch
  <2>. QED
    BY <1>1, <2>2, <2>3 DEF DraftCacheInStep
<1>. QED
  BY <1>1, <1>3, PartsByPlace DEF DraftCacheInStep

LEMMA StutterInStep ==
  ASSUME DraftInv, IndInv', UNCHANGED mvars
  PROVE  DraftInv'
<1>1. UNCHANGED <<pc, req, all, plen, reuse, pos, spec, pending, slots, mtpLen, prev, scratch, row0>>
  BY DEF mvars, vars
<1>2. PrefillInStep' = PrefillInStep
  BY <1>1 DEF PrefillInStep, Paired
<1>3. CheckInStep' = CheckInStep
  BY <1>1 DEF CheckInStep, Paired, InScratch, HiddenOf
<1>4. GroupInStep' = GroupInStep
  BY <1>1 DEF GroupInStep, InScratch, HiddenOf, Verified
<1>5. DraftCacheInStep' = DraftCacheInStep
  BY <1>1 DEF DraftCacheInStep
<1>. QED
  BY <1>2, <1>3, <1>4, <1>5 DEF DraftInv

LEMMA NextInStep == DraftInv /\ [MNext]_mvars => DraftInv'
<1>. SUFFICES ASSUME DraftInv, [MNext]_mvars PROVE DraftInv'
  OBVIOUS
<1>1. IndInv'
  BY StepOfEngine, NextInd DEF DraftInv
<1>2. ASSUME NEW r \in Requests, MBegin(r)
      PROVE  DraftInv'
  BY <1>1, <1>2, BeginInStep
<1>3. CASE MPrefillChunk
  BY <1>1, <1>3, ChunkInStep
<1>4. CASE MPrefillLast
  BY <1>1, <1>4, LastInStep
<1>5. CASE MStartDecode
  BY <1>1, <1>5, StartInStep
<1>6. CASE MSpecGroup
  BY <1>1, <1>6, GroupKeepsStep
<1>7. CASE MAfterGroup
  BY <1>1, <1>7, AfterGroupInStep
<1>8. CASE MDecode
  <2>1. pc' = "loop" /\ pc = "decode" /\ spec' = spec
    BY <1>8 DEF MDecode, Decode
  <2>2. ~spec
    BY <2>1 DEF DraftInv, IndInv
  <2>. QED
    BY <1>1, <2>1, <2>2, PartsByPlace
<1>9. CASE Aside
  <2>1. CASE LoopDone \/ GroupNoRoom \/ StopToken \/ RecordLast \/ DecodeNoRoom \/ Refuse
    <3>1. pc' = "idle"
      BY <2>1 DEF LoopDone, GroupNoRoom, StopToken, RecordLast, DecodeNoRoom, Refuse, Finish, Throw
    <3>. QED
      BY <1>1, <3>1, PartsByPlace
  <2>2. CASE Sample
    <3>1. pc' = "record" /\ ~spec'
      BY <2>2 DEF Sample
    <3>. QED
      BY <1>1, <3>1, PartsByPlace
  <2>3. CASE Record
    BY <1>1, <1>9, <2>3, RecordKeepsStep DEF Aside
  <2>. QED
    BY <1>9, <2>1, <2>2, <2>3 DEF Aside
<1>10. CASE Abort \/ Probe
  <2>1. pc' = "idle"
    BY <1>10 DEF Abort, Probe, Throw
  <2>. QED
    BY <1>1, <2>1, PartsByPlace
<1>11. CASE UNCHANGED mvars
  BY <1>1, <1>11, StutterInStep
<1>. QED
  BY <1>2, <1>3, <1>4, <1>5, <1>6, <1>7, <1>8, <1>9, <1>10, <1>11 DEF MNext, MWork

\* The invariant with the draft cache: what the drafts will rely on is being
\* prepared by every step of a request that speculates.
THEOREM DraftInvariant == MSpec => []DraftInv
<1>1. MInit => DraftInv
  <2>. SUFFICES ASSUME MInit PROVE DraftInv
    OBVIOUS
  <2>1. IndInv /\ pc = "idle"
    BY InitInd DEF MInit, Init
  <2>. QED
    BY <2>1 DEF DraftInv, PrefillInStep, CheckInStep, GroupInStep, DraftCacheInStep
<1>. QED
  BY <1>1, NextInStep, PTL DEF MSpec

\* Speculating, the draft cache is in step with the stream whenever a group begins,
\* however the prompt was cut into chunks and whatever the groups before it drafted
\* and accepted (src/server.cpp:331-338, src/model_gpu.cpp:1758-1764).
THEOREM DraftCacheStaysInStep == MSpec => []DraftCacheInStep
<1>1. DraftInv => DraftCacheInStep
  BY DEF DraftInv
<1>. QED
  BY <1>1, DraftInvariant, PTL

\* The slot before a group's rows is written with the pair that belongs there, and
\* the drafts after it do not touch it (src/model_gpu.cpp:2195-2197).
THEOREM DraftsKeepTheirSlot == MSpec => DraftedSlotStays
<1>1. ASSUME DraftInv, MSpecGroup, mtpLen' # mtpLen
      PROVE  slots'[Len(all)] = Append(all, Seed)
  <2>1. /\ pc = "loop" /\ spec /\ Remaining > 0 /\ Len(all) + GroupWidth <= MaxCtx
        /\ \E ds : Draft(ds)
    BY <1>1 DEF MSpecGroup
  <2>2. PICK ds : Draft(ds)
    BY <2>1
  <2>3. mtpLen = Len(all) - 1 /\ prev = all
    BY <1>1, <2>1 DEF DraftInv, DraftCacheInStep
  <2>4. /\ all \in Stream /\ Len(all) \in Nat \ {0} /\ all # Dirty
        /\ Len(all) \in Row
    <3>1. all \in Stream /\ pending = <<>> /\ Verified # <<>>
      BY <1>1, <2>1 DEF DraftInv, IndInv, TypeOK
    <3>2. all # <<>> /\ Len(all) \in Nat \ {0}
      BY <3>1, EmptyStream DEF Verified
    <3>3. GroupWidth \in Nat
      BY <1>1, <2>1, GroupSizes DEF DraftInv
    <3>. QED
      BY <2>1, <3>1, <3>2, <3>3, ParamAssumption DEF Row, Dirty
  <2>5. mtpLen + 1 = Len(all)
    BY <2>3, <2>4
  <2>6. slots'[Len(all)] = Pair(prev, Seed)
    BY <2>2, <2>4, <2>5 DEF Draft
  <2>. QED
    BY <2>3, <2>4, <2>6 DEF Pair
<1>2. DraftInv => [MSpecGroup /\ mtpLen' # mtpLen => slots'[Len(all)] = Append(all, Seed)]_mvars
  BY <1>1
<1>. QED
  BY <1>2, DraftInvariant, PTL DEF DraftedSlotStays, MSpec

=============================================================================
