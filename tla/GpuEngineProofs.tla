--------------------------- MODULE GpuEngineProofs ---------------------------
(***************************************************************************)
(* Proofs about GpuEngine, for every vocabulary, model, set of requests    *)
(* and size of the cache, the chunks and the verify groups.                *)
(***************************************************************************)
EXTENDS GpuEngine, StreamLemmas

-----------------------------------------------------------------------------
(* The device cache *)

LEMMA GreedyType ==
  ASSUME NEW s \in Stream, Len(s) <= MaxCtx
  PROVE  Greedy(s) \in Token
<1>1. Len(s) \in 0 .. MaxCtx /\ s \in [1 .. Len(s) -> Token]
  BY ParamAssumption, LenProperties DEF Stream
<1>. QED
  BY <1>1, GreedyAssumption

LEMMA HoldsPrefix ==
  ASSUME NEW rws, NEW s \in Stream, NEW k \in 0 .. Len(s), Holds(rws, s)
  PROVE  Holds(rws, SubSeq(s, 1, k))
<1>1. Len(s) \in Nat
  BY LenProperties DEF Stream
<1>2. Len(SubSeq(s, 1, k)) = k
  BY PrefixType DEF Stream
<1>3. ASSUME NEW i \in 1 .. k
      PROVE  rws[i] = SubSeq(SubSeq(s, 1, k), 1, i)
  <2>1. i \in 0 .. k /\ i \in 1 .. Len(s)
    BY <1>1
  <2>2. SubSeq(SubSeq(s, 1, k), 1, i) = SubSeq(s, 1, i)
    BY <2>1, PrefixOfPrefix DEF Stream
  <2>. QED
    BY <2>1, <2>2 DEF Holds
<1>. QED
  BY <1>2, <1>3 DEF Holds

LEMMA TopRow ==
  ASSUME NEW rws, NEW s \in Stream, s # <<>>, Holds(rws, s)
  PROVE  Len(s) \in Nat \ {0} /\ rws[Len(s)] = s
<1>1. Len(s) \in Nat \ {0}
  BY EmptySeq DEF Stream
<1>2. rws[Len(s)] = SubSeq(s, 1, Len(s))
  BY <1>1 DEF Holds
<1>. QED
  BY <1>1, <1>2, SubSeqFull DEF Stream

LEMMA PassType ==
  ASSUME NEW rws \in [Row -> Stream], NEW from \in 0 .. MaxCtx, NEW toks \in Stream
  PROVE  Pass(rws, from, toks) \in [Row -> Stream]
<1>. DEFINE base == IF from = 0 THEN <<>> ELSE rws[from]
<1>1. Len(toks) \in Nat
  BY LenProperties DEF Stream
<1>2. base \in Stream
  BY ParamAssumption, EmptySeq DEF Row, Stream
<1>3. ASSUME NEW i \in Row
      PROVE  Pass(rws, from, toks)[i] \in Stream
  <2>1. CASE i \notin from + 1 .. from + Len(toks)
    BY <2>1 DEF Pass
  <2>2. CASE i \in from + 1 .. from + Len(toks)
    <3>1. i - from \in 0 .. Len(toks)
      BY <2>2, <1>1, ParamAssumption
    <3>2. SubSeq(toks, 1, i - from) \in Stream
      BY <3>1, PrefixType DEF Stream
    <3>3. base \o SubSeq(toks, 1, i - from) \in Stream
      BY <1>2, <3>2, ConcatProperties DEF Stream
    <3>4. Dirty \in Stream
      BY EmptySeq DEF Dirty, Stream
    <3>. QED
      BY <2>2, <3>3, <3>4 DEF Pass
  <2>. QED
    BY <2>1, <2>2
<1>. QED
  BY <1>3 DEF Pass

LEMMA PassHolds ==
  ASSUME NEW rws \in [Row -> Stream], NEW s \in Stream, NEW toks \in Stream,
         Len(s) + Len(toks) <= MaxCtx, Holds(rws, s)
  PROVE  Holds(Pass(rws, Len(s), toks), s \o toks)
<1>. DEFINE from == Len(s)
            base == IF from = 0 THEN <<>> ELSE rws[from]
<1>1. from \in Nat /\ Len(toks) \in Nat
  BY LenProperties DEF Stream
<1>2. base = s
  <2>1. CASE s = <<>>
    BY <2>1, EmptySeq DEF Stream
  <2>2. CASE s # <<>>
    BY <2>2, TopRow
  <2>. QED
    BY <2>1, <2>2
<1>3. Len(base) = from /\ Holds(rws, base)
  BY <1>2
<1>4. Len(s \o toks) = from + Len(toks)
  BY ConcatProperties DEF Stream
<1>5. ASSUME NEW i \in 1 .. from + Len(toks)
      PROVE  Pass(rws, from, toks)[i] = SubSeq(s \o toks, 1, i)
  <2>1. i \in Row
    BY <1>1, ParamAssumption DEF Row
  <2>2. CASE i <= from
    <3>1. i \in 0 .. Len(s) /\ i \in 1 .. Len(s)
      BY <2>2, <1>1
    <3>2. Pass(rws, from, toks)[i] = rws[i]
      <4>1. i \notin from + 1 .. from + Len(toks)
        BY <2>2, <1>1
      <4>. QED
        BY <2>1, <4>1 DEF Pass
    <3>3. rws[i] = SubSeq(s, 1, i)
      BY <3>1 DEF Holds
    <3>4. SubSeq(s \o toks, 1, i) = SubSeq(s, 1, i)
      BY <3>1, PrefixOfConcat DEF Stream
    <3>. QED
      BY <3>2, <3>3, <3>4
  <2>3. CASE i > from
    <3>1. i \in from + 1 .. from + Len(toks) /\ i - from \in 0 .. Len(toks)
      BY <2>3, <1>1
    <3>2. Pass(rws, from, toks)[i] = s \o SubSeq(toks, 1, i - from)
      BY <3>1, <2>1, <1>2, <1>3 DEF Pass
    <3>3. SubSeq(s \o toks, 1, from + (i - from)) = s \o SubSeq(toks, 1, i - from)
      BY <3>1, PrefixIntoConcat DEF Stream
    <3>4. from + (i - from) = i
      BY <1>1
    <3>. QED
      BY <3>2, <3>3, <3>4
  <2>. QED
    BY <2>2, <2>3, <1>1
<1>. QED
  BY <1>4, <1>5 DEF Holds

-----------------------------------------------------------------------------
(* The invariant is established and kept, action by action *)

LEMMA EmptyStream ==
  /\ <<>> \in Stream /\ Len(<<>>) = 0
  /\ Dirty = <<>>
  /\ \A rws : Holds(rws, <<>>)
  /\ \A s \in Stream : s \o <<>> = s /\ <<>> \o s = s
  /\ \A s \in Stream : Len(s) \in Nat /\ (s = <<>> <=> Len(s) = 0)
<1>1. <<>> \in Stream /\ Len(<<>>) = 0
  BY EmptySeq DEF Stream
<1>2. \A rws : Holds(rws, <<>>)
  BY <1>1 DEF Holds
<1>3. \A s \in Stream : s \o <<>> = s /\ <<>> \o s = s
  BY ConcatEmptySeq DEF Stream
<1>4. \A s \in Stream : Len(s) \in Nat /\ (s = <<>> <=> Len(s) = 0)
  BY EmptySeq, LenProperties DEF Stream
<1>. QED
  BY <1>1, <1>2, <1>3, <1>4 DEF Dirty

LEMMA InitInd == Init => IndInv
<1>. SUFFICES ASSUME Init PROVE IndInv
  OBVIOUS
<1>. USE DEF Init
<1>1. TypeOK
  <2>1. Dirty \in Stream /\ <<>> \in Stream
    BY EmptySeq DEF Dirty, Stream
  <2>2. rows \in [Row -> Stream]
    BY <2>1
  <2>3. 0 \in 0 .. MaxCtx /\ 0 \in 0 .. MaxCtx - 1
    BY ParamAssumption
  <2>. QED
    BY <2>1, <2>2, <2>3 DEF TypeOK
<1>2. IsGreedy(all \o pending)
  BY EmptyStream DEF IsGreedy
<1>. QED
  BY <1>1, <1>2, EmptyStream DEF IndInv

LEMMA ClampedType ==
  ASSUME NEW p \in Stream
  PROVE  Clamped(p) \in Stream /\ Len(Clamped(p)) <= MaxCtx - 1
<1>1. Len(p) \in Nat
  BY EmptyStream
<1>2. CASE Len(p) > MaxCtx - 1
  <2>1. Clamped(p) = SubSeq(p, Len(p) - MaxCtx + 2, Len(p))
    BY <1>2 DEF Clamped
  <2>2. \A i \in Len(p) - MaxCtx + 2 .. Len(p) : p[i] \in Token
    BY <1>1, <1>2, ParamAssumption, ElementOfSeq DEF Stream
  <2>3. Len(p) - MaxCtx + 2 \in Int /\ Len(p) \in Int /\ Len(p) - MaxCtx + 2 <= Len(p)
    BY <1>1, ParamAssumption
  <2>4. /\ SubSeq(p, Len(p) - MaxCtx + 2, Len(p)) \in Stream
        /\ Len(SubSeq(p, Len(p) - MaxCtx + 2, Len(p))) = Len(p) - (Len(p) - MaxCtx + 2) + 1
    BY <2>2, <2>3, SubSeqProperties DEF Stream
  <2>. QED
    BY <2>1, <2>4, <1>1, ParamAssumption
<1>3. CASE ~(Len(p) > MaxCtx - 1)
  BY <1>1, <1>3, ParamAssumption DEF Clamped
<1>. QED
  BY <1>2, <1>3

LEMMA BeginInd ==
  ASSUME IndInv, NEW r \in Requests, Begin(r)
  PROVE  IndInv'
<1>. DEFINE p == Clamped(r.prompt)
<1>1. /\ TypeOK
      /\ pc = "idle" /\ ~spec /\ pending = <<>>
      /\ Len(committed) <= curLen /\ Holds(rows, committed)
  BY DEF IndInv, Begin
<1>2. p \in Stream /\ Len(p) \in 0 .. MaxCtx - 1
  <2>1. r.prompt \in Stream
    BY RequestAssumption DEF Request
  <2>. QED
    BY <2>1, ClampedType, EmptyStream
<1>. HIDE DEF p
<1>3. PICK n \in 0 .. ReuseLimit(p) : IsReuse(p, n) /\ reuse' = n /\ pos' = n
  BY DEF Begin, p
<1>4. /\ n \in Nat /\ n <= Len(committed) /\ n <= Len(p)
      /\ p # <<>> => n < Len(p)
  <2>1. Len(committed) \in Nat
    BY <1>1, EmptyStream DEF TypeOK
  <2>. QED
    BY <1>2, <2>1, EmptyStream DEF ReuseLimit, Lesser
<1>5. SubSeq(p, 1, n) = SubSeq(committed, 1, n)
  <2>1. committed \in Stream /\ n \in 0 .. Len(committed) /\ n \in 0 .. Len(p)
    BY <1>1, <1>2, <1>4, EmptyStream DEF TypeOK
  <2>2. /\ SubSeq(p, 1, n) \in Stream /\ Len(SubSeq(p, 1, n)) = n
        /\ \A i \in 1 .. n : SubSeq(p, 1, n)[i] = p[i]
    BY <1>2, <2>1, PrefixType DEF Stream
  <2>3. /\ SubSeq(committed, 1, n) \in Stream /\ Len(SubSeq(committed, 1, n)) = n
        /\ \A i \in 1 .. n : SubSeq(committed, 1, n)[i] = committed[i]
    BY <2>1, PrefixType DEF Stream
  <2>4. \A i \in 1 .. n : committed[i] = p[i]
    BY <1>3 DEF IsReuse
  <2>5. \A i \in 1 .. n : SubSeq(p, 1, n)[i] = SubSeq(committed, 1, n)[i]
    BY <2>2, <2>3, <2>4
  <2>. QED
    BY <2>2, <2>3, <2>5, SeqEqual DEF Stream
<1>6. Holds(rows, SubSeq(p, 1, n))
  <2>1. committed \in Stream /\ n \in 0 .. Len(committed)
    BY <1>1, <1>4, EmptyStream DEF TypeOK
  <2>. QED
    BY <2>1, <1>1, <1>5, HoldsPrefix
<1>7. /\ req' = r /\ all' = p /\ plen' = Len(p) /\ committed' = <<>>
      /\ reason' = "none" /\ pc' = "prefill"
      /\ UNCHANGED <<rows, curLen, logits, spec, pending>>
  BY DEF Begin, p
<1>8. TypeOK'
  <2>1. n \in 0 .. MaxCtx
    BY <1>2, <1>4, ParamAssumption
  <2>. QED
    BY <1>1, <1>2, <1>3, <1>7, <2>1, EmptyStream DEF TypeOK
<1>9. IsGreedy(all \o pending)'
  BY <1>1, <1>2, <1>7, EmptyStream DEF IsGreedy
<1>10. (pos = reuse => reuse <= curLen)'
  <2>1. curLen \in Nat /\ Len(committed) \in Nat
    BY <1>1, ParamAssumption, EmptyStream DEF TypeOK
  <2>. QED
    BY <2>1, <1>1, <1>3, <1>4, <1>7
<1>11. (Holds(rows, SubSeq(all, 1, pos)))'
  BY <1>3, <1>6, <1>7
<1>. QED
  BY <1>1, <1>2, <1>3, <1>4, <1>7, <1>8, <1>9, <1>10, <1>11 DEF IndInv

\* A prefill chunk extends the resident prefix.
LEMMA PrefillPass ==
  ASSUME IndInv, pc = "prefill", NEW upto \in pos .. Len(all)
  PROVE  LET new == Pass(rows, pos, SubSeq(all, pos + 1, upto))
         IN new \in [Row -> Stream] /\ Holds(new, SubSeq(all, 1, upto))
<1>. DEFINE s == SubSeq(all, 1, pos)
            toks == SubSeq(all, pos + 1, upto)
<1>1. /\ rows \in [Row -> Stream] /\ all \in Stream
      /\ pos \in 0 .. MaxCtx /\ pos <= Len(all) /\ Len(all) <= MaxCtx - 1
      /\ Holds(rows, s)
  BY DEF IndInv, TypeOK
<1>2. Len(all) \in Nat /\ pos \in 0 .. Len(all) /\ upto \in Nat
  BY <1>1, EmptyStream, ParamAssumption
<1>3. s \in Stream /\ Len(s) = pos
  BY <1>1, <1>2, PrefixType DEF Stream
<1>4. toks \in Stream /\ Len(toks) = upto - pos
  <2>1. \A i \in pos + 1 .. upto : all[i] \in Token
    BY <1>1, <1>2, ElementOfSeq DEF Stream
  <2>2. pos + 1 \in Int /\ upto \in Int
    BY <1>2
  <2>3. /\ toks \in Stream
        /\ Len(toks) = IF pos + 1 <= upto THEN upto - (pos + 1) + 1 ELSE 0
    BY <2>1, <2>2, SubSeqProperties DEF Stream
  <2>. QED
    BY <2>3, <1>2
<1>5. s \o toks = SubSeq(all, 1, upto)
  <2>1. /\ 1 \in 1 .. Len(all) + 1
        /\ pos \in 1 - 1 .. Len(all)
        /\ upto \in pos .. Len(all)
    BY <1>2
  <2>. QED
    BY <1>1, <2>1, ConcatAdjacentSubSeq DEF Stream
<1>6. Pass(rows, pos, toks) \in [Row -> Stream]
  BY <1>1, <1>4, PassType
<1>7. Len(s) + Len(toks) <= MaxCtx
  BY <1>1, <1>2, <1>3, <1>4, ParamAssumption
<1>8. Holds(Pass(rows, Len(s), toks), s \o toks)
  BY <1>1, <1>3, <1>4, <1>7, PassHolds
<1>. QED
  BY <1>3, <1>5, <1>6, <1>8

LEMMA ChunkWidthType ==
  ASSUME IndInv, pc = "prefill", all # <<>>
  PROVE  ChunkWidth \in Nat /\ pos + ChunkWidth \in pos .. Len(all) /\
         (pos < Len(all) => ChunkWidth > 0)
<1>1. Len(all) \in Nat \ {0} /\ pos \in Nat /\ pos <= Len(all)
  BY EmptySeq, ParamAssumption DEF IndInv, TypeOK, Stream
<1>. QED
  BY <1>1, ParamAssumption DEF ChunkWidth, Lesser

LEMMA PrefillChunkInd ==
  ASSUME IndInv, PrefillChunk
  PROVE  IndInv'
<1>. DEFINE upto == pos + ChunkWidth
<1>1. /\ pc = "prefill" /\ all # <<>> /\ upto < Len(all)
      /\ rows' = Pass(rows, pos, SubSeq(all, pos + 1, upto)) /\ pos' = upto
      /\ UNCHANGED <<pc, req, plen, all, curLen, committed, reuse, logits, spec,
                     pending, reason>>
  BY DEF PrefillChunk, PrefillChecks, request
<1>2. upto \in pos .. Len(all) /\ ChunkWidth > 0 /\ ChunkWidth \in Nat
  <2>1. pos \in Nat /\ Len(all) \in Nat
    BY EmptyStream, ParamAssumption DEF IndInv, TypeOK
  <2>. QED
    BY <1>1, <2>1, ChunkWidthType
<1>. HIDE DEF upto
<1>3. rows' \in [Row -> Stream] /\ Holds(rows', SubSeq(all, 1, upto))
  BY <1>1, <1>2, PrefillPass
<1>4. upto \in 0 .. MaxCtx /\ upto > reuse
  <2>1. /\ plen \in 0 .. MaxCtx - 1 /\ plen = Len(all)
        /\ pos \in 0 .. MaxCtx /\ reuse \in 0 .. MaxCtx /\ reuse <= pos
    BY <1>1 DEF IndInv, TypeOK
  <2>. QED
    BY <2>1, <1>1, <1>2, ParamAssumption DEF upto
<1>5. reuse \in Nat /\ upto \in Nat /\ Len(all) \in Nat
  BY <1>4, ParamAssumption, EmptyStream DEF IndInv, TypeOK
<1>6. TypeOK'
  BY <1>1, <1>3, <1>4 DEF IndInv, TypeOK
<1>7. IsGreedy(all \o pending)' = IsGreedy(all \o pending)
  BY <1>1 DEF IsGreedy
<1>. QED
  BY <1>1, <1>2, <1>3, <1>4, <1>5, <1>6, <1>7 DEF IndInv

LEMMA PrefillLastInd ==
  ASSUME IndInv, PrefillLast
  PROVE  IndInv'
<1>1. /\ pc = "prefill" /\ all # <<>> /\ pc' = "check"
      /\ rows' = Pass(rows, pos, SubSeq(all, pos + 1, Len(all)))
      /\ pos' = Len(all) /\ curLen' = Len(all) /\ logits' = rows'[Len(all)]
      /\ UNCHANGED <<req, plen, all, committed, reuse, spec, pending, reason>>
  BY DEF PrefillLast, PrefillChecks, request
<1>2. /\ all \in Stream /\ Len(all) \in 1 .. MaxCtx - 1 /\ pos \in Nat /\ pos <= Len(all)
      /\ plen = Len(all) /\ pending = <<>> /\ ~spec
  BY <1>1, EmptySeq, ParamAssumption DEF IndInv, TypeOK, Stream
<1>3. rows' \in [Row -> Stream] /\ Holds(rows', SubSeq(all, 1, Len(all)))
  <2>1. Len(all) \in pos .. Len(all)
    BY <1>2
  <2>. QED
    BY <1>1, <2>1, PrefillPass
<1>4. SubSeq(all, 1, Len(all)) = all
  BY <1>2, SubSeqFull DEF Stream
<1>5. rows'[Len(all)] = all
  BY <1>1, <1>2, <1>3, <1>4, TopRow
<1>6. Verified' = all
  BY <1>1, <1>2 DEF Verified
<1>7. TypeOK'
  BY <1>1, <1>2, <1>3, <1>5, ParamAssumption DEF IndInv, TypeOK
<1>8. IsGreedy(all \o pending)' = IsGreedy(all \o pending)
  BY <1>1 DEF IsGreedy
<1>. QED
  BY <1>1, <1>2, <1>3, <1>4, <1>5, <1>6, <1>7, <1>8 DEF IndInv

LEMMA StartDecodeInd ==
  ASSUME IndInv, StartDecode
  PROVE  IndInv'
<1>1. /\ pc = "check" /\ pc' = "loop" /\ (req.k > 0 => ~req.sampled)
      /\ spec' = (req.k > 0)
      /\ UNCHANGED <<req, plen, all, rows, curLen, committed, reuse, pos, logits,
                     pending, reason>>
  BY DEF StartDecode, request, cache
<1>2. /\ all \in Stream /\ ~spec /\ pending = <<>>
  BY <1>1 DEF IndInv, TypeOK
<1>3. all \o pending = all
  BY <1>2, EmptyStream
<1>4. Verified = all /\ Verified' = all
  BY <1>1, <1>2, <1>3 DEF Verified
<1>5. TypeOK'
  <2>1. spec' \in BOOLEAN
    BY <1>1
  <2>. QED
    BY <1>1, <2>1 DEF IndInv, TypeOK
<1>6. IsGreedy(all \o pending)' = IsGreedy(all \o pending)
  BY <1>1 DEF IsGreedy
<1>. QED
  BY <1>1, <1>2, <1>4, <1>5, <1>6 DEF IndInv

\* A request that ends normally leaves the cache described by committed.
LEMMA FinishInd ==
  ASSUME IndInv, NEW s \in Stream, NEW why \in {"stop", "cancel", "length"},
         Finish(why, s), all' = s, plen <= Len(s), ~req.sampled => IsGreedy(s),
         Holds(rows, SubSeq(s, 1, Lesser(curLen, Len(s)))),
         UNCHANGED <<req, plen, rows, curLen>>
  PROVE  IndInv'
<1>1. /\ reason' = why /\ committed' = SubSeq(s, 1, Lesser(curLen, Len(s)))
      /\ pc' = "idle" /\ reuse' = 0 /\ pos' = 0 /\ logits' = Dirty
      /\ spec' = FALSE /\ pending' = <<>>
  BY DEF Finish
<1>2. curLen \in Nat /\ Len(s) \in Nat
  BY ParamAssumption, EmptyStream DEF IndInv, TypeOK
<1>3. Lesser(curLen, Len(s)) \in 0 .. Len(s) /\ Lesser(curLen, Len(s)) <= curLen
  BY <1>2 DEF Lesser
<1>4. committed' \in Stream /\ Len(committed') = Lesser(curLen, Len(s))
  BY <1>1, <1>3, PrefixType DEF Stream
<1>5. Len(committed') <= curLen' /\ Holds(rows', committed')
  BY <1>1, <1>3, <1>4
<1>6. TypeOK'
  <2>1. 0 \in 0 .. MaxCtx /\ Dirty \in Stream /\ <<>> \in Stream
    BY ParamAssumption, EmptyStream
  <2>. QED
    BY <1>1, <1>4, <2>1 DEF IndInv, TypeOK
<1>7. (~req.sampled => IsGreedy(all \o pending))'
  <2>1. s \o <<>> = s
    BY EmptyStream
  <2>. QED
    BY <1>1, <2>1 DEF IsGreedy
<1>. QED
  BY <1>1, <1>5, <1>6, <1>7 DEF IndInv

\* A request that ends by an exception leaves a cache that belongs to nothing.
LEMMA ThrowInd ==
  ASSUME IndInv, pc \notin {"idle", "record"}, Throw,
         rows' \in [Row -> Stream], curLen' \in 0 .. MaxCtx
  PROVE  IndInv'
<1>1. /\ reason' = "error" /\ pc' = "idle" /\ reuse' = 0 /\ pos' = 0
      /\ logits' = Dirty /\ spec' = FALSE /\ pending' = <<>>
      /\ UNCHANGED <<req, plen, all, committed>>
  BY DEF Throw, request
<1>2. committed = <<>> /\ pending = <<>>
  BY DEF IndInv
<1>3. Len(committed') <= curLen' /\ Holds(rows', committed')
  BY <1>1, <1>2, EmptyStream, ParamAssumption
<1>4. TypeOK'
  <2>1. 0 \in 0 .. MaxCtx /\ Dirty \in Stream /\ <<>> \in Stream
    BY ParamAssumption, EmptyStream
  <2>. QED
    BY <1>1, <2>1 DEF IndInv, TypeOK
<1>5. IsGreedy(all \o pending)' = IsGreedy(all \o pending)
  BY <1>1, <1>2 DEF IsGreedy
<1>. QED
  BY <1>1, <1>3, <1>4, <1>5 DEF IndInv

\* With nothing pending, the invariant speaks of the recorded stream.
LEMMA Recorded ==
  ASSUME IndInv, pending = <<>>
  PROVE  /\ all \in Stream /\ Len(all) \in Nat
         /\ all \o pending = all /\ Verified = all
         /\ ~req.sampled => IsGreedy(all)
<1>1. all \in Stream /\ Len(all) \in Nat
  BY EmptyStream DEF IndInv, TypeOK
<1>2. all \o pending = all
  BY <1>1, EmptyStream
<1>. QED
  BY <1>1, <1>2 DEF IndInv, Verified

\* The cache rows cover the stream up to the shorter of the two lengths.
LEMMA HoldsLesser ==
  ASSUME NEW rws, NEW s \in Stream, NEW n \in Nat, n <= Len(s), Holds(rws, SubSeq(s, 1, n))
  PROVE  Holds(rws, SubSeq(s, 1, Lesser(n, Len(s))))
<1>1. Len(s) \in Nat
  BY EmptyStream
<1>2. Lesser(n, Len(s)) = n
  BY <1>1 DEF Lesser
<1>. QED
  BY <1>2

LEMMA LoopEndInd ==
  ASSUME IndInv, pc = "loop", Finish("length", all),
         UNCHANGED <<req, plen, all, rows, curLen>>
  PROVE  IndInv'
<1>1. pending = <<>>
  BY DEF IndInv
<1>2. /\ all \in Stream /\ Len(all) \in Nat /\ Verified = all
      /\ ~req.sampled => IsGreedy(all)
  BY <1>1, Recorded
<1>3. Holds(rows, all) /\ curLen = Len(all) /\ plen <= Len(all)
  BY <1>2 DEF IndInv
<1>4. SubSeq(all, 1, Lesser(curLen, Len(all))) = all
  <2>1. Lesser(curLen, Len(all)) = Len(all)
    BY <1>2, <1>3 DEF Lesser
  <2>. QED
    BY <2>1, <1>2, SubSeqFull DEF Stream
<1>. QED
  BY <1>2, <1>3, <1>4, FinishInd

LEMMA LoopDoneInd ==
  ASSUME IndInv, LoopDone
  PROVE  IndInv'
BY LoopEndInd DEF LoopDone, request, cache

LEMMA GroupNoRoomInd ==
  ASSUME IndInv, GroupNoRoom
  PROVE  IndInv'
BY LoopEndInd DEF GroupNoRoom, request, cache

LEMMA DecodeNoRoomInd ==
  ASSUME IndInv, DecodeNoRoom
  PROVE  IndInv'
<1>1. /\ pc = "decode" /\ Finish("length", all)
      /\ UNCHANGED <<req, plen, all, rows, curLen>>
  BY DEF DecodeNoRoom, request, cache
<1>2. pending = <<>> /\ plen <= Len(all) /\ Len(all) > 0 /\ curLen = Len(all) - 1
      /\ Holds(rows, SubSeq(all, 1, Len(all) - 1))
  BY <1>1 DEF IndInv
<1>3. all \in Stream /\ Len(all) \in Nat /\ (~req.sampled => IsGreedy(all))
  BY <1>2, Recorded
<1>4. curLen \in Nat /\ curLen <= Len(all)
  BY <1>2, <1>3
<1>5. Holds(rows, SubSeq(all, 1, Lesser(curLen, Len(all))))
  BY <1>2, <1>3, <1>4, HoldsLesser
<1>. QED
  BY <1>1, <1>2, <1>3, <1>5, FinishInd

LEMMA RefuseInd ==
  ASSUME IndInv, Refuse
  PROVE  IndInv'
<1>1. pc \notin {"idle", "record"} /\ Throw /\ rows' = rows /\ curLen' = curLen
  BY DEF Refuse, cache
<1>2. rows' \in [Row -> Stream] /\ curLen' \in 0 .. MaxCtx
  BY <1>1 DEF IndInv, TypeOK
<1>. QED
  BY <1>1, <1>2, ThrowInd

LEMMA SpoiledType ==
  ASSUME NEW rws \in [Row -> Stream], NEW from, NEW upto
  PROVE  Spoiled(rws, from, upto) \in [Row -> Stream]
<1>1. Dirty \in Stream
  BY EmptyStream
<1>. QED
  BY <1>1 DEF Spoiled

LEMMA AbortInd ==
  ASSUME IndInv, Abort
  PROVE  IndInv'
<1>1. pc \notin {"idle", "record"} /\ Throw
  BY DEF Abort
<1>2. PICK upto \in Lesser(WriteFrom, MaxCtx) .. MaxCtx :
        rows' = Spoiled(rows, WriteFrom, upto) /\ curLen' \in {curLen, upto}
  BY DEF Abort
<1>3. rows' \in [Row -> Stream]
  BY <1>2, SpoiledType DEF IndInv, TypeOK
<1>4. Lesser(WriteFrom, MaxCtx) \in Nat
  <2>1. /\ pos \in Nat /\ Len(all) \in Nat
        /\ pc = "decode" => Len(all) > 0
    BY ParamAssumption, EmptyStream DEF IndInv, TypeOK
  <2>2. WriteFrom \in Nat
    <3>1. CASE pc = "prefill"
      BY <2>1, <3>1 DEF WriteFrom
    <3>2. CASE pc = "decode"
      BY <2>1, <3>2 DEF WriteFrom
    <3>3. CASE pc \notin {"prefill", "decode"}
      BY <2>1, <3>3, ParamAssumption DEF WriteFrom, Lesser
    <3>. QED
      BY <3>1, <3>2, <3>3
  <2>. QED
    BY <2>2, ParamAssumption DEF Lesser
<1>5. curLen' \in 0 .. MaxCtx
  BY <1>2, <1>4, ParamAssumption DEF IndInv, TypeOK
<1>. QED
  BY <1>1, <1>3, <1>5, ThrowInd

LEMMA ProbeInd ==
  ASSUME IndInv, Probe
  PROVE  IndInv'
<1>1. /\ pc = "idle" /\ committed' = <<>>
      /\ UNCHANGED <<pc, req, plen, all, reuse, pos, logits, spec, pending, reason>>
  BY DEF Probe, request
<1>2. PICK n \in Row : rows' = Spoiled(rows, 0, n) /\ curLen' = n
  BY DEF Probe
<1>3. rows' \in [Row -> Stream] /\ curLen' \in 0 .. MaxCtx
  BY <1>2, SpoiledType, ParamAssumption DEF IndInv, TypeOK, Row
<1>4. Len(committed') <= curLen' /\ Holds(rows', committed')
  BY <1>1, <1>3, EmptyStream, ParamAssumption
<1>5. TypeOK'
  BY <1>1, <1>3, EmptyStream DEF IndInv, TypeOK
<1>6. IsGreedy(all \o pending)' = IsGreedy(all \o pending)
  BY <1>1 DEF IsGreedy
<1>. QED
  BY <1>1, <1>4, <1>5, <1>6 DEF IndInv

-----------------------------------------------------------------------------
(* Greedy streams *)

LEMMA GreedyExtends ==
  ASSUME NEW s \in Stream, NEW t \in Stream, plen \in Nat, plen <= Len(s), IsGreedy(s),
         \A j \in 1 .. Len(t) : t[j] = Greedy(s \o SubSeq(t, 1, j - 1))
  PROVE  IsGreedy(s \o t)
<1>1. /\ Len(s) \in Nat /\ Len(t) \in Nat
      /\ Len(s \o t) = Len(s) + Len(t)
      /\ \A i \in 1 .. Len(s) + Len(t) :
           (s \o t)[i] = IF i <= Len(s) THEN s[i] ELSE t[i - Len(s)]
  BY EmptyStream, ConcatProperties DEF Stream
<1>2. ASSUME NEW i \in plen + 1 .. Len(s \o t)
      PROVE  (s \o t)[i] = Greedy(SubSeq(s \o t, 1, i - 1))
  <2>0. i \in 1 .. Len(s) + Len(t)
    BY <1>1
  <2>1. CASE i <= Len(s)
    <3>1. i - 1 \in 0 .. Len(s) /\ i \in plen + 1 .. Len(s)
      BY <2>1, <2>0, <1>1
    <3>2. SubSeq(s \o t, 1, i - 1) = SubSeq(s, 1, i - 1)
      BY <3>1, PrefixOfConcat DEF Stream
    <3>3. s[i] = Greedy(SubSeq(s, 1, i - 1))
      BY <3>1 DEF IsGreedy
    <3>. QED
      BY <2>0, <2>1, <1>1, <3>2, <3>3
  <2>2. CASE i > Len(s)
    <3>1. /\ i - Len(s) \in 1 .. Len(t)
          /\ i - Len(s) - 1 \in 0 .. Len(t)
          /\ Len(s) + (i - Len(s) - 1) = i - 1
          /\ ~(i <= Len(s))
      BY <2>2, <2>0, <1>1
    <3>2. SubSeq(s \o t, 1, Len(s) + (i - Len(s) - 1)) = s \o SubSeq(t, 1, i - Len(s) - 1)
      BY <3>1, PrefixIntoConcat DEF Stream
    <3>3. t[i - Len(s)] = Greedy(s \o SubSeq(t, 1, i - Len(s) - 1))
      BY <3>1
    <3>4. (s \o t)[i] = t[i - Len(s)]
      BY <2>0, <3>1, <1>1
    <3>. QED
      BY <3>1, <3>2, <3>3, <3>4
  <2>. QED
    BY <2>1, <2>2, <2>0, <1>1
<1>. QED
  BY <1>2 DEF IsGreedy

LEMMA GreedyShrinks ==
  ASSUME NEW s \in Stream, NEW t \in Stream, plen \in Nat, IsGreedy(s \o t)
  PROVE  IsGreedy(s)
<1>1. /\ Len(s) \in Nat /\ Len(t) \in Nat
      /\ Len(s \o t) = Len(s) + Len(t)
      /\ \A i \in 1 .. Len(s) + Len(t) :
           (s \o t)[i] = IF i <= Len(s) THEN s[i] ELSE t[i - Len(s)]
  BY EmptyStream, ConcatProperties DEF Stream
<1>2. ASSUME NEW i \in plen + 1 .. Len(s)
      PROVE  s[i] = Greedy(SubSeq(s, 1, i - 1))
  <2>1. /\ i - 1 \in 0 .. Len(s) /\ i \in 1 .. Len(s) + Len(t) /\ i <= Len(s)
        /\ i \in plen + 1 .. Len(s \o t)
    BY <1>1
  <2>2. SubSeq(s \o t, 1, i - 1) = SubSeq(s, 1, i - 1)
    BY <2>1, PrefixOfConcat DEF Stream
  <2>3. (s \o t)[i] = Greedy(SubSeq(s \o t, 1, i - 1))
    BY <2>1 DEF IsGreedy
  <2>4. (s \o t)[i] = s[i]
    BY <2>1, <1>1
  <2>. QED
    BY <2>2, <2>3, <2>4
<1>. QED
  BY <1>2 DEF IsGreedy

LEMMA SampleInd ==
  ASSUME IndInv, Sample
  PROVE  IndInv'
<1>1. /\ pc = "loop" /\ ~spec /\ pc' = "record"
      /\ UNCHANGED <<req, plen, all, rows, curLen, committed, reuse, pos, logits,
                     spec, reason>>
  BY DEF Sample, request, cache
<1>2. PICK t \in (IF req.sampled THEN Token ELSE {Greedy(logits)}) : pending' = <<t>>
  BY DEF Sample
<1>3. /\ pending = <<>> /\ plen \in Nat /\ plen <= Len(all) /\ TypeOK
  BY <1>1, ParamAssumption DEF IndInv, TypeOK
<1>4. /\ all \in Stream /\ Len(all) \in Nat /\ Verified = all
      /\ ~req.sampled => IsGreedy(all)
  BY <1>3, Recorded
<1>5. logits = all /\ curLen = Len(all) /\ Len(all) <= MaxCtx
  BY <1>1, <1>4, ParamAssumption DEF IndInv, TypeOK
<1>6. t \in Token
  BY <1>2, <1>4, <1>5, GreedyType
<1>7. pending' \in Stream /\ Len(pending') = 1 /\ pending' # <<>> /\ pending'[1] = t
  <2>1. <<t>> = Append(<<>>, t)
    OBVIOUS
  <2>2. <<>> \in Seq(Token) /\ Len(<<>>) = 0
    BY EmptySeq
  <2>3. <<t>> \in Seq(Token) /\ Len(<<t>>) = 1 /\ <<t>> # <<>> /\ <<t>>[1] = t
    BY <1>6, <2>1, <2>2, AppendProperties
  <2>. QED
    BY <1>2, <2>3 DEF Stream
<1>8. TypeOK'
  BY <1>1, <1>3, <1>7 DEF TypeOK
<1>9. Verified' = Verified
  BY <1>1, <1>4 DEF Verified
<1>10. ASSUME ~req.sampled
       PROVE  IsGreedy(all \o pending')
  <2>1. t = Greedy(all)
    BY <1>2, <1>5, <1>10
  <2>2. SubSeq(pending', 1, 0) = <<>>
    BY SubSeqEmpty
  <2>3. all \o SubSeq(pending', 1, 0) = all
    BY <2>2, <1>4, EmptyStream
  <2>4. \A j \in 1 .. Len(pending') : pending'[j] = Greedy(all \o SubSeq(pending', 1, j - 1))
    <3>1. ASSUME NEW j \in 1 .. Len(pending')
          PROVE  pending'[j] = Greedy(all \o SubSeq(pending', 1, j - 1))
      <4>1. j = 1 /\ j - 1 = 0
        BY <1>7
      <4>2. pending'[1] = Greedy(all \o SubSeq(pending', 1, 0))
        BY <2>1, <2>3, <1>7
      <4>. QED
        BY <4>1, <4>2
    <3>. QED
      BY <3>1
  <2>. QED
    BY <2>4, <1>3, <1>4, <1>7, <1>10, GreedyExtends
<1>11. (~req.sampled => IsGreedy(all \o pending))'
  BY <1>1, <1>10 DEF IsGreedy
<1>. QED
  BY <1>1, <1>3, <1>7, <1>8, <1>9, <1>11 DEF IndInv

-----------------------------------------------------------------------------
(* Recording tokens *)

\* Taking the first pending token keeps the stream with its pending tokens.
LEMMA TakePending ==
  ASSUME IndInv, pc = "record"
  PROVE  LET s == Append(all, Head(pending))
         IN /\ all \in Stream /\ pending \in Stream /\ Tail(pending) \in Stream
            /\ Len(all) \in Nat /\ Len(pending) \in Nat \ {0}
            /\ Len(Tail(pending)) = Len(pending) - 1
            /\ s \in Stream /\ Len(s) = Len(all) + 1
            /\ SubSeq(s, 1, Len(all)) = all
            /\ s \o Tail(pending) = all \o pending
<1>. DEFINE h == Head(pending)
            s == Append(all, h)
<1>1. /\ all \in Stream /\ pending \in Stream /\ pending # <<>>
  BY DEF IndInv, TypeOK
<1>2. Len(all) \in Nat /\ Len(pending) \in Nat \ {0}
  BY <1>1, EmptyStream, EmptySeq DEF Stream
<1>3. h \in Token /\ Tail(pending) \in Stream /\ Len(Tail(pending)) = Len(pending) - 1
  BY <1>1, HeadTailProperties DEF Stream
<1>4. s \in Stream /\ Len(s) = Len(all) + 1 /\ s = all \o <<h>>
  BY <1>1, <1>3, AppendProperties, AppendIsConcat DEF Stream
<1>5. <<h>> \in Stream
  <2>1. <<h>> = Append(<<>>, h)
    OBVIOUS
  <2>. QED
    BY <2>1, <1>3, EmptySeq, AppendProperties DEF Stream
<1>6. <<h>> \o Tail(pending) = pending
  <2>1. 1 \in 1 .. Len(pending) /\ Len(pending) \in 1 .. Len(pending)
    BY <1>2
  <2>2. SubSeq(pending, 1, Len(pending)) = <<pending[1]>> \o SubSeq(pending, 1 + 1, Len(pending))
    BY <1>1, <2>1, SubSeqRecursiveFirst DEF Stream
  <2>3. SubSeq(pending, 1, Len(pending)) = pending
    BY <1>1, SubSeqFull DEF Stream
  <2>4. Tail(pending) = SubSeq(pending, 2, Len(pending))
    BY <1>1, TailIsSubSeq DEF Stream
  <2>5. h = pending[1] /\ 1 + 1 = 2
    BY <1>1, <2>1, <2>3, HeadTailOfSubSeq DEF Stream
  <2>. QED
    BY <2>2, <2>3, <2>4, <2>5
<1>7. s \o Tail(pending) = all \o pending
  BY <1>1, <1>3, <1>4, <1>5, <1>6, ConcatAssociative DEF Stream
<1>8. SubSeq(s, 1, Len(all)) = all
  <2>1. Len(all) \in 0 .. Len(all)
    BY <1>2
  <2>2. SubSeq(s, 1, Len(all)) = SubSeq(all, 1, Len(all))
    BY <1>1, <1>4, <1>5, <2>1, PrefixOfConcat DEF Stream
  <2>. QED
    BY <2>2, <1>1, SubSeqFull DEF Stream
<1>. QED
  BY <1>1, <1>2, <1>3, <1>4, <1>7, <1>8

LEMMA RecordInd ==
  ASSUME IndInv, Record
  PROVE  IndInv'
<1>. DEFINE s == Append(all, Head(pending))
<1>1. /\ pc = "record" /\ all' = s /\ pending' = Tail(pending)
      /\ pc' = IF Len(pending) > 1 THEN "record" ELSE IF spec THEN "absorb" ELSE "decode"
      /\ UNCHANGED <<req, plen, rows, curLen, committed, reuse, pos, logits, spec, reason>>
  BY DEF Record, request, cache
<1>2. /\ all \in Stream /\ pending \in Stream /\ Tail(pending) \in Stream
      /\ Len(all) \in Nat /\ Len(pending) \in Nat \ {0}
      /\ Len(Tail(pending)) = Len(pending) - 1
      /\ s \in Stream /\ Len(s) = Len(all) + 1
      /\ SubSeq(s, 1, Len(all)) = all
      /\ s \o Tail(pending) = all \o pending
  BY <1>1, TakePending
<1>. HIDE DEF s
<1>3. /\ TypeOK /\ plen \in Nat /\ plen <= Len(all) /\ committed = <<>>
      /\ Holds(rows, Verified) /\ curLen = Len(Verified)
      /\ logits = Verified /\ Verified # <<>>
      /\ spec => ~req.sampled
      /\ ~spec => Len(pending) = 1
      /\ ~req.sampled => IsGreedy(all \o pending)
  BY <1>1, ParamAssumption DEF IndInv, TypeOK
<1>4. TypeOK'
  BY <1>1, <1>2, <1>3 DEF TypeOK
<1>5. pending' = <<>> <=> Len(pending) = 1
  <2>1. Tail(pending) = <<>> <=> Len(Tail(pending)) = 0
    BY <1>2, EmptySeq DEF Stream
  <2>. QED
    BY <1>1, <1>2, <2>1
<1>6. all' \o pending' = all \o pending
  BY <1>1, <1>2
<1>7. (~req.sampled => IsGreedy(all \o pending))'
  BY <1>1, <1>3, <1>6 DEF IsGreedy
<1>8. plen' <= Len(all')
  BY <1>1, <1>2, <1>3
<1>9. CASE spec
  <2>1. Verified' = Verified /\ pc' \in {"record", "absorb"}
    BY <1>1, <1>6, <1>9 DEF Verified
  <2>. QED
    BY <1>1, <1>2, <1>3, <1>4, <1>5, <1>7, <1>8, <1>9, <2>1 DEF IndInv
<1>10. CASE ~spec
  <2>1. Verified = all /\ pc' = "decode" /\ pending' = <<>>
    BY <1>1, <1>3, <1>5, <1>10 DEF Verified
  <2>2. curLen' = Len(all') - 1 /\ Len(all') > 0
    BY <1>1, <1>2, <1>3, <2>1
  <2>3. Holds(rows', SubSeq(all', 1, Len(all') - 1))
    <3>1. Len(s) - 1 = Len(all)
      BY <1>2
    <3>. QED
      BY <1>1, <1>2, <1>3, <2>1, <3>1
  <2>. QED
    BY <1>1, <1>3, <1>4, <1>7, <1>8, <1>10, <2>1, <2>2, <2>3 DEF IndInv
<1>. QED
  BY <1>9, <1>10

LEMMA LesserValue ==
  ASSUME NEW a \in Nat, NEW b \in Nat
  PROVE  (a <= b => Lesser(a, b) = a) /\ (b <= a => Lesser(a, b) = b)
BY DEF Lesser

\* A stream s between all and all with its pending tokens: its rows are there.
LEMMA RecordedRows ==
  ASSUME IndInv, pc = "record"
  PROVE  LET s == Append(all, Head(pending))
         IN /\ Holds(rows, SubSeq(all, 1, Lesser(curLen, Len(all))))
            /\ Holds(rows, SubSeq(s, 1, Lesser(curLen, Len(s))))
            /\ ~req.sampled => IsGreedy(all) /\ IsGreedy(s)
            /\ plen <= Len(all) /\ plen <= Len(s)
<1>. DEFINE s == Append(all, Head(pending))
<1>1. /\ all \in Stream /\ pending \in Stream /\ Tail(pending) \in Stream
      /\ Len(all) \in Nat /\ Len(pending) \in Nat \ {0}
      /\ s \in Stream /\ Len(s) = Len(all) + 1
      /\ SubSeq(s, 1, Len(all)) = all
      /\ s \o Tail(pending) = all \o pending
  BY TakePending
<1>. HIDE DEF s
<1>2. /\ plen \in Nat /\ plen <= Len(all)
      /\ Holds(rows, Verified) /\ curLen = Len(Verified)
      /\ ~req.sampled => IsGreedy(all \o pending)
  BY ParamAssumption DEF IndInv, TypeOK
<1>3. SubSeq(all, 1, Len(all)) = all /\ SubSeq(s, 1, Len(s)) = s
  BY <1>1, SubSeqFull DEF Stream
<1>4. /\ Holds(rows, SubSeq(all, 1, Lesser(curLen, Len(all))))
      /\ Holds(rows, SubSeq(s, 1, Lesser(curLen, Len(s))))
  <2>1. CASE spec
    <3>1. Verified = all \o pending
      BY <2>1 DEF Verified
    <3>2. curLen = Len(all) + Len(pending)
      BY <3>1, <1>1, <1>2, ConcatProperties DEF Stream
    <3>3. Lesser(curLen, Len(all)) = Len(all) /\ Lesser(curLen, Len(s)) = Len(s)
      <4>1. /\ Len(all) \in Nat /\ Len(s) \in Nat /\ curLen \in Nat
            /\ Len(all) <= curLen /\ Len(s) <= curLen
        BY <3>2, <1>1
      <4>. QED
        BY <4>1, LesserValue
    <3>4. /\ all \o pending \in Stream
          /\ Len(all) \in 0 .. Len(all \o pending) /\ Len(s) \in 0 .. Len(all \o pending)
      BY <1>1, ConcatProperties DEF Stream
    <3>5. SubSeq(all \o pending, 1, Len(all)) = all
      <4>1. Len(all) \in 0 .. Len(all)
        BY <1>1
      <4>. QED
        BY <4>1, <1>1, <1>3, PrefixOfConcat DEF Stream
    <3>6. SubSeq(all \o pending, 1, Len(s)) = s
      <4>1. Len(s) \in 0 .. Len(s)
        BY <1>1
      <4>2. SubSeq(s \o Tail(pending), 1, Len(s)) = SubSeq(s, 1, Len(s))
        BY <4>1, <1>1, PrefixOfConcat DEF Stream
      <4>. QED
        BY <4>2, <1>1, <1>3
    <3>7. Holds(rows, all) /\ Holds(rows, s)
      BY <1>2, <3>1, <3>4, <3>5, <3>6, HoldsPrefix
    <3>. QED
      BY <1>3, <3>3, <3>7
  <2>2. CASE ~spec
    <3>1. Verified = all
      BY <2>2 DEF Verified
    <3>2. Lesser(curLen, Len(all)) = Len(all) /\ Lesser(curLen, Len(s)) = Len(all)
      <4>1. /\ Len(all) \in Nat /\ Len(s) \in Nat /\ curLen \in Nat
            /\ Len(all) = curLen /\ curLen <= Len(s)
        BY <3>1, <1>1, <1>2
      <4>. QED
        BY <4>1, LesserValue
    <3>. QED
      BY <1>1, <1>2, <1>3, <3>1, <3>2
  <2>. QED
    BY <2>1, <2>2
<1>5. ~req.sampled => IsGreedy(all) /\ IsGreedy(s)
  BY <1>1, <1>2, GreedyShrinks
<1>. QED
  BY <1>1, <1>2, <1>4, <1>5 DEF s

LEMMA StopTokenInd ==
  ASSUME IndInv, StopToken
  PROVE  IndInv'
<1>1. pc = "record" /\ Finish("stop", all) /\ UNCHANGED <<req, plen, all, rows, curLen>>
  BY DEF StopToken, request, cache
<1>2. all \in Stream
  BY DEF IndInv, TypeOK
<1>3. /\ Holds(rows, SubSeq(all, 1, Lesser(curLen, Len(all))))
      /\ ~req.sampled => IsGreedy(all)
      /\ plen <= Len(all)
  BY <1>1, RecordedRows
<1>. QED
  BY <1>1, <1>2, <1>3, FinishInd

LEMMA RecordLastInd ==
  ASSUME IndInv, RecordLast
  PROVE  IndInv'
<1>. DEFINE s == Append(all, Head(pending))
<1>1. pc = "record" /\ all' = s /\ UNCHANGED <<req, plen, rows, curLen>>
  BY DEF RecordLast, request, cache
<1>2. PICK why \in {"stop", "cancel", "length"} : Finish(why, s)
  BY DEF RecordLast
<1>3. s \in Stream
  BY <1>1, TakePending
<1>4. /\ Holds(rows, SubSeq(s, 1, Lesser(curLen, Len(s))))
      /\ ~req.sampled => IsGreedy(s)
      /\ plen <= Len(s)
  BY <1>1, RecordedRows
<1>. HIDE DEF s
<1>. QED
  BY <1>1, <1>2, <1>3, <1>4, FinishInd

-----------------------------------------------------------------------------
(* Passes over the device while decoding *)

LEMMA AfterGroupInd ==
  ASSUME IndInv, AfterGroup
  PROVE  IndInv'
<1>1. /\ pc = "absorb" /\ pc' = "loop" /\ spec' \in BOOLEAN
      /\ UNCHANGED <<req, plen, all, rows, curLen, committed, reuse, pos, logits,
                     pending, reason>>
  BY DEF AfterGroup, request, cache
<1>2. pending = <<>> /\ spec /\ ~req.sampled
  BY <1>1 DEF IndInv
<1>3. all \o pending = all /\ Verified = all
  BY <1>2, Recorded
<1>4. Verified' = all
  BY <1>1, <1>3 DEF Verified
<1>5. TypeOK'
  BY <1>1 DEF IndInv, TypeOK
<1>6. IsGreedy(all \o pending)' = IsGreedy(all \o pending)
  BY <1>1 DEF IsGreedy
<1>. QED
  BY <1>1, <1>2, <1>3, <1>4, <1>5, <1>6 DEF IndInv

LEMMA DecodeInd ==
  ASSUME IndInv, Decode
  PROVE  IndInv'
<1>. DEFINE n == Len(all) - 1
            s == SubSeq(all, 1, n)
            last == <<all[Len(all)]>>
<1>1. /\ pc = "decode" /\ Len(all) <= MaxCtx /\ pc' = "loop"
      /\ rows' = Pass(rows, n, last) /\ curLen' = Len(all) /\ logits' = rows'[Len(all)]
      /\ UNCHANGED <<req, plen, all, committed, reuse, pos, spec, pending, reason>>
  BY DEF Decode, request
<1>2. pending = <<>> /\ ~spec /\ Len(all) > 0 /\ Holds(rows, s) /\ rows \in [Row -> Stream]
  BY <1>1 DEF IndInv, TypeOK
<1>3. all \in Stream /\ Len(all) \in Nat \ {0}
  BY <1>2, Recorded
<1>4. s \in Stream /\ Len(s) = n /\ n \in Nat
  <2>1. n \in 0 .. Len(all) /\ n \in Nat
    BY <1>3
  <2>. HIDE DEF n
  <2>. QED
    BY <1>3, <2>1, PrefixType DEF Stream
<1>5. last \in Stream /\ Len(last) = 1
  <2>1. all[Len(all)] \in Token
    BY <1>3, ElementOfSeq DEF Stream
  <2>2. last = Append(<<>>, all[Len(all)])
    OBVIOUS
  <2>. QED
    BY <2>1, <2>2, EmptySeq, AppendProperties DEF Stream
<1>6. s \o last = all
  <2>1. Len(all) \in 1 .. Len(all) /\ 1 \in 1 .. Len(all)
    BY <1>3
  <2>2. SubSeq(all, 1, Len(all)) = SubSeq(all, 1, Len(all) - 1) \o <<all[Len(all)]>>
    BY <1>3, <2>1, SubSeqRecursiveSecond DEF Stream
  <2>. QED
    BY <2>2, <1>3, SubSeqFull DEF Stream
<1>7. Holds(rows', all) /\ rows' \in [Row -> Stream]
  <2>1. n \in 0 .. MaxCtx /\ Len(s) + Len(last) <= MaxCtx
    BY <1>1, <1>3, <1>4, <1>5, ParamAssumption
  <2>. QED
    BY <1>1, <1>2, <1>4, <1>5, <1>6, <2>1, PassType, PassHolds
<1>8. logits' = all
  <2>1. all # <<>>
    BY <1>3, EmptySeq
  <2>. QED
    BY <1>1, <1>3, <1>7, <2>1, TopRow
<1>9. Verified' = all /\ all # <<>>
  BY <1>1, <1>2, <1>3, EmptySeq DEF Verified
<1>10. TypeOK'
  BY <1>1, <1>3, <1>7, <1>8, ParamAssumption DEF IndInv, TypeOK
<1>11. IsGreedy(all \o pending)' = IsGreedy(all \o pending)
  BY <1>1 DEF IsGreedy
<1>. QED
  BY <1>1, <1>2, <1>7, <1>8, <1>9, <1>10, <1>11 DEF IndInv

LEMMA SpecGroupInd ==
  ASSUME IndInv, SpecGroup
  PROVE  IndInv'
<1>1. /\ pc = "loop" /\ spec /\ pc' = "record"
      /\ UNCHANGED <<req, plen, all, committed, reuse, pos, spec, reason>>
  BY DEF SpecGroup, request
<1>2. /\ pending = <<>> /\ ~req.sampled /\ TypeOK /\ plen \in Nat /\ plen <= Len(all)
      /\ committed = <<>> /\ rows \in [Row -> Stream]
  BY <1>1, ParamAssumption DEF IndInv, TypeOK
<1>3. all \in Stream /\ Len(all) \in Nat /\ Verified = all /\ IsGreedy(all)
  BY <1>2, Recorded
<1>4. Holds(rows, all) /\ logits = all /\ curLen = Len(all) /\ Len(all) <= MaxCtx
  BY <1>1, <1>2, <1>3, ParamAssumption DEF IndInv, TypeOK
<1>. DEFINE Chunk(d) == <<Greedy(logits)>> \o d
            Group(n, d) ==
              LET new == Pass(rows, Len(all), Chunk(d))
                  am == [i \in 1 .. n + 1 |-> Greedy(new[Len(all) + i])]
              IN \E a \in 1 .. n + 1 :
                   /\ Accepts(Chunk(d), am, a)
                   /\ rows' = new
                   /\ curLen' = Len(all) + a
                   /\ pending' = SubSeq(Chunk(d), 1, a)
                   /\ logits' = new[Len(all) + a]
<1>51. PICK n \in 0 .. DraftCap : \E d \in [1 .. n -> Token] : Group(n, d)
  BY DEF SpecGroup
<1>52. PICK ds \in [1 .. n -> Token] : Group(n, ds)
  BY <1>51
<1>. DEFINE chunk == Chunk(ds)
            new == Pass(rows, Len(all), chunk)
            am == [i \in 1 .. n + 1 |-> Greedy(new[Len(all) + i])]
<1>6. PICK a \in 1 .. n + 1 :
        /\ Accepts(chunk, am, a)
        /\ rows' = new
        /\ curLen' = Len(all) + a
        /\ pending' = SubSeq(chunk, 1, a)
        /\ logits' = new[Len(all) + a]
  BY <1>52
<1>7. n \in Nat /\ Len(all) + (n + 1) <= MaxCtx /\ a \in Nat \ {0}
  <2>1. Remaining \in Int
    BY <1>2, <1>3, RequestAssumption DEF Remaining, TypeOK, Request
  <2>2. DraftCap \in Int /\ DraftCap <= MaxCtx - Len(all) - 1
    BY <2>1, <1>3, ParamAssumption DEF DraftCap, Lesser
  <2>. QED
    BY <2>2, <1>3, ParamAssumption
<1>8. chunk \in Stream /\ Len(chunk) = n + 1 /\ chunk[1] = Greedy(all)
  <2>1. Greedy(logits) \in Token
    BY <1>3, <1>4, GreedyType
  <2>2. <<Greedy(logits)>> = Append(<<>>, Greedy(logits))
    OBVIOUS
  <2>3. <<>> \in Seq(Token) /\ Len(<<>>) = 0
    BY EmptySeq
  <2>4. /\ <<Greedy(logits)>> \in Seq(Token) /\ Len(<<Greedy(logits)>>) = 1
        /\ <<Greedy(logits)>>[1] = Greedy(logits)
    BY <2>1, <2>2, <2>3, AppendProperties
  <2>5. ds \in Seq(Token) /\ Len(ds) = n
    BY <1>7, SeqDef, LenProperties
  <2>6. /\ chunk \in Seq(Token) /\ Len(chunk) = Len(<<Greedy(logits)>>) + Len(ds)
        /\ \A i \in 1 .. Len(<<Greedy(logits)>>) + Len(ds) : chunk[i] =
             IF i <= Len(<<Greedy(logits)>>) THEN <<Greedy(logits)>>[i]
             ELSE ds[i - Len(<<Greedy(logits)>>)]
    BY <2>4, <2>5, ConcatProperties
  <2>. QED
    BY <2>4, <2>5, <2>6, <1>4, <1>7 DEF Stream
<1>. HIDE DEF chunk
<1>9. new \in [Row -> Stream] /\ Holds(new, all \o chunk)
  <2>1. Len(all) \in 0 .. MaxCtx /\ Len(all) + Len(chunk) <= MaxCtx
    BY <1>3, <1>4, <1>7, <1>8, ParamAssumption
  <2>. QED
    BY <2>1, <1>2, <1>3, <1>4, <1>8, PassType, PassHolds
<1>10. ASSUME NEW j \in 1 .. n + 1
       PROVE  new[Len(all) + j] = all \o SubSeq(chunk, 1, j)
  <2>1. Len(all \o chunk) = Len(all) + (n + 1)
    <3>1. n + 1 \in Nat
      BY <1>7
    <3>. QED
      BY <3>1, <1>3, <1>8, ConcatLength DEF Stream
  <2>2. Len(all) + j \in 1 .. Len(all \o chunk) /\ j \in 0 .. Len(chunk)
    BY <2>1, <1>3, <1>7, <1>8
  <2>3. new[Len(all) + j] = SubSeq(all \o chunk, 1, Len(all) + j)
    BY <2>2, <1>9 DEF Holds
  <2>4. SubSeq(all \o chunk, 1, Len(all) + j) = all \o SubSeq(chunk, 1, j)
    BY <2>2, <1>3, <1>8, PrefixIntoConcat DEF Stream
  <2>. QED
    BY <2>3, <2>4
<1>11. /\ pending' \in Stream /\ Len(pending') = a /\ pending' # <<>>
       /\ \A j \in 1 .. a : pending'[j] = chunk[j]
  <2>1. a \in 0 .. Len(chunk)
    BY <1>7, <1>8
  <2>2. /\ pending' \in Stream /\ Len(pending') = a
        /\ \A j \in 1 .. a : pending'[j] = chunk[j]
    BY <2>1, <1>6, <1>8, PrefixType DEF Stream
  <2>. QED
    BY <2>2, <1>7, EmptySeq
<1>12. logits' = all \o pending'
  BY <1>6, <1>10
<1>13. ASSUME NEW j \in 1 .. a
       PROVE  pending'[j] = Greedy(all \o SubSeq(pending', 1, j - 1))
  <2>1. CASE j = 1
    <3>1. SubSeq(pending', 1, 0) = <<>> /\ j - 1 = 0
      BY <2>1, SubSeqEmpty
    <3>2. all \o SubSeq(pending', 1, j - 1) = all
      BY <3>1, <1>3, EmptyStream
    <3>3. pending'[1] = Greedy(all)
      BY <1>8, <1>11, <2>1
    <3>. QED
      BY <2>1, <3>2, <3>3
  <2>2. CASE j # 1
    <3>1. /\ j - 1 \in 1 .. a - 1 /\ (j - 1) + 1 = j /\ j - 1 \in 1 .. n + 1
          /\ a \in 0 .. Len(chunk) /\ j - 1 \in 0 .. a
      BY <2>2, <1>7, <1>8
    <3>2. chunk[(j - 1) + 1] = am[j - 1]
      BY <3>1, <1>6 DEF Accepts
    <3>3. am[j - 1] = Greedy(all \o SubSeq(chunk, 1, j - 1))
      BY <3>1, <1>10
    <3>4. SubSeq(pending', 1, j - 1) = SubSeq(chunk, 1, j - 1)
      BY <3>1, <1>6, <1>8, PrefixOfPrefix DEF Stream
    <3>. QED
      BY <3>1, <3>2, <3>3, <3>4, <1>11
  <2>. QED
    BY <2>1, <2>2
<1>14. IsGreedy(all \o pending')
  BY <1>2, <1>3, <1>11, <1>13, GreedyExtends
<1>15. Holds(new, all \o pending')
  <2>1. a \in 0 .. Len(chunk) /\ all \o chunk \in Stream
        /\ Len(all \o chunk) = Len(all) + (n + 1)
    <3>1. n + 1 \in Nat /\ a \in 0 .. Len(chunk)
      BY <1>7, <1>8
    <3>. QED
      BY <3>1, <1>3, <1>8, ConcatLength DEF Stream
  <2>2. SubSeq(all \o chunk, 1, Len(all) + a) = all \o pending'
    BY <2>1, <1>3, <1>6, <1>8, PrefixIntoConcat DEF Stream
  <2>3. Len(all) + a \in 0 .. Len(all \o chunk)
    BY <2>1, <1>3, <1>7
  <2>. QED
    BY <2>1, <2>2, <2>3, <1>9, HoldsPrefix
<1>16. /\ all \o pending' \in Stream /\ Len(all \o pending') = Len(all) + a
       /\ all \o pending' # <<>>
  <2>1. all \o pending' \in Stream /\ Len(all \o pending') = Len(all) + a
    BY <1>3, <1>11, ConcatProperties DEF Stream
  <2>. QED
    BY <2>1, <1>3, <1>7, EmptySeq
<1>17. Verified' = all \o pending'
  BY <1>1 DEF Verified
<1>18. TypeOK'
  <2>1. curLen' \in 0 .. MaxCtx
    BY <1>3, <1>6, <1>7, ParamAssumption
  <2>2. rows' \in [Row -> Stream] /\ logits' \in Stream
    BY <1>6, <1>9, <1>12, <1>16
  <2>. HIDE DEF new
  <2>. QED
    BY <2>1, <2>2, <1>1, <1>2, <1>11 DEF TypeOK
<1>19. (~req.sampled => IsGreedy(all \o pending))'
  BY <1>1, <1>14 DEF IsGreedy
<1>20. (Holds(rows, Verified) /\ curLen = Len(Verified) /\ logits = Verified /\ Verified # <<>>)'
  BY <1>6, <1>12, <1>15, <1>16, <1>17
<1>. QED
  BY <1>1, <1>2, <1>11, <1>18, <1>19, <1>20 DEF IndInv

-----------------------------------------------------------------------------
(* Every step keeps the invariant *)

LEMMA StutterInd ==
  ASSUME IndInv, UNCHANGED vars
  PROVE  IndInv'
<1>1. UNCHANGED <<pc, req, all, plen, rows, curLen, committed, reuse, pos, logits, spec,
                  pending, reason>>
  BY DEF vars
<1>2. TypeOK'
  BY <1>1 DEF IndInv, TypeOK
<1>3. IsGreedy(all \o pending)' = IsGreedy(all \o pending)
  BY <1>1 DEF IsGreedy
<1>4. Verified' = Verified
  BY <1>1 DEF Verified
<1>. QED
  BY <1>1, <1>2, <1>3, <1>4 DEF IndInv

\* The invariant is inductive: every action keeps it.
LEMMA NextInd == IndInv /\ [Next]_vars => IndInv'
<1>. SUFFICES ASSUME IndInv, [Next]_vars PROVE IndInv'
  OBVIOUS
<1>1. ASSUME NEW r \in Requests, Begin(r) PROVE IndInv'
  BY <1>1, BeginInd
<1>2. CASE PrefillChunk
  BY <1>2, PrefillChunkInd
<1>3. CASE PrefillLast
  BY <1>3, PrefillLastInd
<1>4. CASE StartDecode
  BY <1>4, StartDecodeInd
<1>5. CASE LoopDone
  BY <1>5, LoopDoneInd
<1>6. CASE Sample
  BY <1>6, SampleInd
<1>7. CASE GroupNoRoom
  BY <1>7, GroupNoRoomInd
<1>8. CASE SpecGroup
  BY <1>8, SpecGroupInd
<1>9. CASE StopToken
  BY <1>9, StopTokenInd
<1>10. CASE Record
  BY <1>10, RecordInd
<1>11. CASE RecordLast
  BY <1>11, RecordLastInd
<1>12. CASE AfterGroup
  BY <1>12, AfterGroupInd
<1>13. CASE DecodeNoRoom
  BY <1>13, DecodeNoRoomInd
<1>14. CASE Decode
  BY <1>14, DecodeInd
<1>15. CASE Refuse
  BY <1>15, RefuseInd
<1>16. CASE Abort
  BY <1>16, AbortInd
<1>17. CASE Probe
  BY <1>17, ProbeInd
<1>18. CASE UNCHANGED vars
  BY <1>18, StutterInd
<1>. QED
  BY <1>1, <1>2, <1>3, <1>4, <1>5, <1>6, <1>7, <1>8, <1>9, <1>10, <1>11, <1>12, <1>13,
     <1>14, <1>15, <1>16, <1>17, <1>18 DEF Next, Work

LEMMA Inductive == Spec => []IndInv
BY InitInd, NextInd, PTL DEF Spec

-----------------------------------------------------------------------------
(* What the invariant gives *)

\* The variables of run() and of the device cache stay in their ranges; no row
\* past the last position of the cache is ever counted as computed.
THEOREM TypeCorrect == Spec => []TypeOK
<1>1. IndInv => TypeOK
  BY DEF IndInv
<1>. QED
  BY <1>1, Inductive, PTL

\* Prefix reuse is sound: however the last request ended, the rows that
\* gpu_committed_ claims are in the cache and belong to that stream.
THEOREM CommittedIsResident == Spec => []CommittedResident
<1>1. IndInv => CommittedResident
  BY DEF IndInv, CommittedResident
<1>. QED
  BY <1>1, Inductive, PTL

\* Every pass over the device attends over rows of the request's own stream.
THEOREM PassesSeeOwnStream == Spec => []CacheFollowsStream
<1>1. IndInv => CacheFollowsStream
  <2>. SUFFICES ASSUME IndInv PROVE CacheFollowsStream
    OBVIOUS
  <2>1. CASE pc \in {"check", "loop"}
    <3>1. Verified = all
      BY <2>1, Recorded DEF IndInv
    <3>. QED
      BY <2>1, <3>1 DEF IndInv, CacheFollowsStream
  <2>2. CASE pc = "record"
    BY <2>2 DEF IndInv, CacheFollowsStream, Verified
  <2>3. CASE pc \notin {"check", "loop", "record"}
    BY <2>3 DEF IndInv, CacheFollowsStream
  <2>. QED
    BY <2>1, <2>2, <2>3
<1>. QED
  BY <1>1, Inductive, PTL

\* Speculative or not, a greedy request is given the model's own argmax tokens.
THEOREM EmitsGreedyTokens == Spec => []EmittedGreedy
<1>1. IndInv => EmittedGreedy
  <2>. SUFFICES ASSUME IndInv, ~req.sampled PROVE IsGreedy(all)
    BY DEF EmittedGreedy, IsGreedy
  <2>1. all \in Stream /\ pending \in Stream /\ plen \in Nat /\ IsGreedy(all \o pending)
    BY ParamAssumption DEF IndInv, TypeOK
  <2>. QED
    BY <2>1, GreedyShrinks
<1>. QED
  BY <1>1, Inductive, PTL

\* No device assertion of run()'s passes fires for a request with a prompt.
THEOREM NoDeviceCheckFails == Spec => []DeviceChecksHold
<1>1. IndInv => DeviceChecksHold
  <2>. SUFFICES ASSUME IndInv PROVE DeviceChecksHold
    OBVIOUS
  <2>1. ASSUME pc = "prefill", plen > 0
        PROVE  PrefillChecks
    <3>1. /\ plen = Len(all) /\ all \in Stream /\ plen \in 0 .. MaxCtx - 1
          /\ all # <<>> => reuse < Len(all)
          /\ pos = reuse => reuse <= curLen
      BY <2>1 DEF IndInv, TypeOK
    <3>2. all # <<>> /\ Len(all) <= MaxCtx
      BY <2>1, <3>1, EmptySeq, ParamAssumption DEF Stream
    <3>. QED
      BY <3>1, <3>2 DEF PrefillChecks
  <2>2. ASSUME pc = "loop", spec, Remaining > 0, Len(all) + GroupWidth <= MaxCtx
        PROVE  /\ GroupWidth - 1 \in 0 .. DraftCap
               /\ DraftCap < GroupMax
               /\ Len(all) + DraftCap + 1 <= MaxCtx
    <3>1. /\ req.k \in Nat /\ req.k > 0 /\ req.max \in Nat
          /\ all \in Stream /\ plen \in Nat
      BY <2>2, RequestAssumption, ParamAssumption DEF IndInv, TypeOK, Request
    <3>2. Len(all) \in Nat /\ Remaining \in Int
      BY <3>1, EmptyStream DEF Remaining
    <3>. HIDE DEF Remaining
    <3>3. GroupWidth \in Nat /\ GroupWidth >= 1
      BY <2>2, <3>1, <3>2, ParamAssumption DEF GroupWidth, Lesser
    <3>. QED
      BY <2>2, <3>1, <3>2, <3>3, ParamAssumption DEF GroupWidth, DraftCap, Lesser
  <2>. QED
    BY <2>1, <2>2 DEF DeviceChecksHold
<1>. QED
  BY <1>1, Inductive, PTL

-----------------------------------------------------------------------------
(* The engine implements GreedyService *)

\* What run() knows of a request it decodes: the check on speculation passed,
\* and a step that records tokens was entered with tokens still to give.
Decoding ==
  /\ pc \in {"loop", "record", "absorb", "decode"} /\ req.sampled => req.k = 0
  /\ pc = "record" => Remaining > 0

LEMMA RemainingType ==
  ASSUME TypeOK
  PROVE  /\ Remaining \in Int /\ req.max \in Nat /\ req.k \in Nat /\ req.sampled \in BOOLEAN
         /\ req.stop \subseteq Token
         /\ plen \in Nat /\ Len(all) \in Nat /\ all \in Stream /\ req.prompt \in Stream
<1>1. req \in Request /\ plen \in Nat /\ all \in Stream
  BY RequestAssumption, ParamAssumption DEF TypeOK
<1>2. Len(all) \in Nat
  BY <1>1, EmptyStream
<1>. QED
  BY <1>1, <1>2 DEF Remaining, Request

LEMMA DecodingInit == Init => Decoding
BY DEF Init, Decoding

\* Actions that leave the request alone and do not enter the loop's states.
LEMMA DecodingNext ==
  ASSUME IndInv, Decoding, [Next]_vars
  PROVE  Decoding'
<1>1. /\ Remaining \in Int /\ req.max \in Nat /\ req.k \in Nat
      /\ req.sampled \in BOOLEAN /\ plen \in Nat /\ Len(all) \in Nat
  BY RemainingType DEF IndInv
<1>2. ASSUME NEW r \in Requests, Begin(r) PROVE Decoding'
  BY <1>2 DEF Begin, Decoding
<1>3. CASE PrefillChunk
  BY <1>3 DEF PrefillChunk, Decoding
<1>4. CASE PrefillLast
  BY <1>4 DEF PrefillLast, Decoding
<1>5. CASE StartDecode
  BY <1>1, <1>5 DEF StartDecode, Decoding, request
<1>6. CASE Sample
  BY <1>6 DEF Sample, Decoding, Remaining, request
<1>7. CASE SpecGroup
  BY <1>7 DEF SpecGroup, Decoding, Remaining, request
<1>8. CASE Record
  <2>1. /\ pc = "record" /\ Remaining > 1 /\ all' = Append(all, Head(pending))
        /\ pc' \in {"record", "absorb", "decode"} /\ UNCHANGED <<req, plen>>
    BY <1>8 DEF Record, request
  <2>2. Len(all') = Len(all) + 1
    BY <2>1, TakePending
  <2>3. Remaining' > 0
    BY <1>1, <2>1, <2>2 DEF Remaining
  <2>. QED
    BY <2>1, <2>3 DEF Decoding
<1>9. CASE AfterGroup
  BY <1>9 DEF AfterGroup, Decoding, request
<1>10. CASE Decode
  BY <1>10 DEF Decode, Decoding, request
<1>11. CASE LoopDone \/ GroupNoRoom \/ StopToken \/ RecordLast \/ DecodeNoRoom
  <2>1. pc' = "idle"
    BY <1>11 DEF LoopDone, GroupNoRoom, StopToken, RecordLast, DecodeNoRoom, Finish
  <2>. QED
    BY <2>1 DEF Decoding
<1>12. CASE Refuse \/ Abort
  BY <1>12 DEF Refuse, Abort, Throw, Decoding
<1>13. CASE Probe
  BY <1>13 DEF Probe, Decoding
<1>14. CASE UNCHANGED vars
  BY <1>14 DEF vars, Decoding, Remaining
<1>. QED
  BY <1>2, <1>3, <1>4, <1>5, <1>6, <1>7, <1>8, <1>9, <1>10, <1>11, <1>12, <1>13, <1>14
  DEF Next, Work

-----------------------------------------------------------------------------
(* Initial states and steps of the engine map to those of the service *)

LEMMA InitMaps == Init => Service!Init
BY DEF Init, Service!Init

LEMMA ClampedMaps == \A p : Clamped(p) = Service!Clamped(p)
BY DEF Clamped, Service!Clamped

\* The first pending token is one the service may hand out.
LEMMA HeadIsCandidate ==
  ASSUME IndInv, pc = "record"
  PROVE  Head(pending) \in Service!Candidates /\ Head(pending) \in Token
<1>1. /\ all \in Stream /\ pending \in Stream /\ Len(all) \in Nat
      /\ Len(pending) \in Nat \ {0}
  BY TakePending
<1>2. Head(pending) = pending[1] /\ Head(pending) \in Token
  <2>1. pending # <<>>
    BY <1>1, EmptySeq
  <2>. QED
    BY <1>1, <2>1, HeadTailProperties DEF Stream
<1>3. ASSUME ~req.sampled PROVE Head(pending) = Greedy(all)
  <2>1. plen \in Nat /\ plen <= Len(all) /\ IsGreedy(all \o pending)
    BY <1>3, ParamAssumption DEF IndInv, TypeOK
  <2>2. /\ Len(all \o pending) = Len(all) + Len(pending)
        /\ \A i \in 1 .. Len(all) + Len(pending) :
             (all \o pending)[i] = IF i <= Len(all) THEN all[i] ELSE pending[i - Len(all)]
    BY <1>1, ConcatProperties DEF Stream
  <2>3. /\ Len(all) + 1 \in plen + 1 .. Len(all \o pending)
        /\ Len(all) + 1 \in 1 .. Len(all) + Len(pending)
        /\ ~(Len(all) + 1 <= Len(all))
        /\ (Len(all) + 1) - Len(all) = 1 /\ (Len(all) + 1) - 1 = Len(all)
    BY <1>1, <2>1, <2>2
  <2>4. (all \o pending)[Len(all) + 1] = pending[1]
    BY <2>2, <2>3
  <2>5. (all \o pending)[Len(all) + 1] = Greedy(SubSeq(all \o pending, 1, Len(all)))
    BY <2>1, <2>3 DEF IsGreedy
  <2>6. SubSeq(all \o pending, 1, Len(all)) = all
    <3>1. Len(all) \in 0 .. Len(all)
      BY <1>1
    <3>2. SubSeq(all \o pending, 1, Len(all)) = SubSeq(all, 1, Len(all))
      BY <1>1, <3>1, PrefixOfConcat DEF Stream
    <3>. QED
      BY <1>1, <3>2, SubSeqFull DEF Stream
  <2>. QED
    BY <1>2, <2>4, <2>5, <2>6
<1>. QED
  BY <1>2, <1>3 DEF Service!Candidates

LEMMA RecordMaps ==
  ASSUME IndInv, Decoding, Record \/ RecordLast
  PROVE  Service!Next
<1>. DEFINE t == Head(pending)
<1>1. /\ pc = "record" /\ t \notin req.stop /\ all' = Append(all, t)
      /\ UNCHANGED <<req, plen>>
  BY DEF Record, RecordLast, request
<1>2. t \in Service!Candidates \ req.stop /\ t \in Token
  BY <1>1, HeadIsCandidate
<1>3. /\ Remaining \in Int /\ req.max \in Nat /\ req.k \in Nat
      /\ plen \in Nat /\ Len(all) \in Nat
  BY RemainingType DEF IndInv
<1>4. Service!Emitted < req.max /\ (req.sampled => req.k = 0)
  BY <1>1, <1>3 DEF Decoding, Remaining, Service!Emitted
<1>5. \/ Service!Emitted + 1 < req.max /\ pc' # "idle" /\ UNCHANGED reason
      \/ pc' = "idle" /\ reason' \in {"stop", "cancel"}
      \/ Service!Emitted + 1 >= req.max /\ pc' = "idle" /\ reason' = "length"
  <2>1. CASE Record
    <3>1. Remaining > 1 /\ pc' # "idle" /\ reason' = reason
      BY <2>1 DEF Record
    <3>. QED
      BY <3>1, <1>3 DEF Remaining, Service!Emitted
  <2>2. CASE RecordLast
    <3>1. PICK why \in {"stop", "cancel"} \cup (IF Remaining <= 1 THEN {"length"} ELSE {}) :
            Finish(why, all')
      BY <2>2 DEF RecordLast
    <3>2. pc' = "idle" /\ reason' = why
      BY <3>1 DEF Finish
    <3>3. why = "length" => Service!Emitted + 1 >= req.max
      <4>1. why = "length" => Remaining <= 1
        BY <3>1
      <4>. QED
        BY <4>1, <1>3 DEF Remaining, Service!Emitted
    <3>. QED
      BY <3>1, <3>2, <3>3
  <2>. QED
    BY <2>1, <2>2
<1>6. Service!Emit(t)
  BY <1>1, <1>2, <1>4, <1>5 DEF Service!Emit
<1>. QED
  BY <1>2, <1>6 DEF Service!Next

LEMMA EndMaps ==
  ASSUME IndInv, Decoding,
         LoopDone \/ GroupNoRoom \/ StopToken \/ DecodeNoRoom \/ Refuse \/ Abort
  PROVE  Service!Next
<1>1. /\ Remaining \in Int /\ req.max \in Nat /\ req.k \in Nat
      /\ plen \in Nat /\ Len(all) \in Nat /\ MaxCtx \in Nat /\ GroupMax \in Nat
  BY RemainingType, ParamAssumption DEF IndInv
<1>2. pc # "idle" /\ pc' = "idle" /\ UNCHANGED <<req, plen, all>>
  BY DEF LoopDone, GroupNoRoom, StopToken, DecodeNoRoom, Refuse, Abort, Finish, Throw,
         request
<1>3. Service!EndOfText \/ Service!OutOfRoom \/ reason' = "error"
  <2>1. CASE LoopDone
    BY <2>1, <1>1 DEF LoopDone, Finish, Remaining, Service!OutOfRoom, Service!Emitted
  <2>2. CASE GroupNoRoom
    <3>1. /\ spec /\ Remaining > 0 /\ Len(all) + GroupWidth > MaxCtx /\ reason' = "length"
      BY <2>2 DEF GroupNoRoom, Finish
    <3>2. req.k > 0
      BY <3>1 DEF IndInv
    <3>3. GroupWidth <= req.k
      BY <1>1 DEF GroupWidth, Lesser
    <3>4. Len(all) + req.k > MaxCtx
      <4>1. GroupWidth \in Int
        BY <1>1 DEF GroupWidth, Lesser
      <4>. QED
        BY <1>1, <3>1, <3>3, <4>1
    <3>. QED
      BY <3>1, <3>2, <3>4 DEF Service!OutOfRoom
  <2>3. CASE StopToken
    <3>1. pc = "record" /\ Head(pending) \in req.stop /\ reason' = "stop"
      BY <2>3 DEF StopToken, Finish
    <3>2. Head(pending) \in Service!Candidates
      BY <3>1, HeadIsCandidate
    <3>3. Service!Emitted < req.max
      BY <3>1, <1>1 DEF Decoding, Remaining, Service!Emitted
    <3>. QED
      BY <3>1, <3>2, <3>3 DEF Service!EndOfText
  <2>4. CASE DecodeNoRoom
    BY <2>4 DEF DecodeNoRoom, Finish, Service!OutOfRoom
  <2>5. CASE Refuse \/ Abort
    BY <2>5 DEF Refuse, Abort, Throw
  <2>. QED
    BY <2>1, <2>2, <2>3, <2>4, <2>5
<1>4. Service!End
  BY <1>2, <1>3 DEF Service!End
<1>. QED
  BY <1>4 DEF Service!Next

LEMMA StepMaps ==
  ASSUME IndInv, Decoding, [Next]_vars
  PROVE  [Service!Next]_(Service!vars)
<1>1. ASSUME NEW r \in Requests, Begin(r) PROVE Service!Next
  <2>1. Service!Accept(r)
    BY <1>1, ClampedMaps DEF Begin, Service!Accept
  <2>. QED
    BY <2>1 DEF Service!Next
<1>2. CASE Record \/ RecordLast
  BY <1>2, RecordMaps
<1>3. CASE LoopDone \/ GroupNoRoom \/ StopToken \/ DecodeNoRoom \/ Refuse \/ Abort
  BY <1>3, EndMaps
<1>4. CASE \/ PrefillChunk \/ PrefillLast \/ StartDecode \/ Sample \/ SpecGroup
           \/ AfterGroup \/ Decode \/ Probe
  <2>1. UNCHANGED <<req, plen, all, reason>> /\ (pc' # "idle" <=> pc # "idle")
    BY <1>4 DEF PrefillChunk, PrefillLast, StartDecode, Sample, SpecGroup, AfterGroup,
                Decode, Probe, request
  <2>. QED
    BY <2>1 DEF Service!vars
<1>5. CASE UNCHANGED vars
  BY <1>5 DEF vars, Service!vars
<1>. QED
  BY <1>1, <1>2, <1>3, <1>4, <1>5 DEF Next, Work

\* Whatever prefix reuse, chunking, speculation and the ways a request can end
\* do inside run(), a caller sees one request at a time served token by token,
\* each token the model's argmax or a sample, and ended for a reported reason.
THEOREM EngineImplementsService == Spec => ImplementsService
<1>1. Spec => []Decoding
  <2>1. IndInv /\ Decoding /\ [Next]_vars => Decoding'
    BY DecodingNext
  <2>. QED
    BY <2>1, DecodingInit, Inductive, PTL DEF Spec
<1>2. IndInv /\ Decoding /\ [Next]_vars => [Service!Next]_(Service!vars)
  BY StepMaps
<1>. QED
  BY <1>1, <1>2, InitMaps, Inductive, PTL DEF Spec, Service!Spec, ImplementsService

=============================================================================
