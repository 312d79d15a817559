------------------------------ MODULE MtpCache ------------------------------
(***************************************************************************)
(* Where the drafts of GpuEngine come from: the n-gram lookup              *)
(* (src/server.cpp) and the MTP block with its draft cache                 *)
(* (src/model_gpu.cpp).  Every action of GpuEngine is taken together with  *)
(* what it does to the draft cache and to the scratch rows that            *)
(* mtp_gpu_absorb reads.                                                   *)
(*                                                                         *)
(* Slot p of the draft cache is computed from the hidden state of position *)
(* p and the token at p + 1: it is kept as the stream of these tokens.     *)
(* What the block then drafts from the slots is arbitrary.                 *)
(***************************************************************************)
EXTENDS GpuEngine, FiniteSets, FiniteSetsExt

CONSTANTS
  NgramMin,  \* GLMSERVE_SPEC_NGRAM_MIN: tokens of the shortest match
  Evidence   \* GLMSERVE_SPEC_NGRAM_EVIDENCE: agreement a draft needs

ASSUME NgramAssumption == NgramMin \in Nat /\ NgramMin >= 2 /\ Evidence \in Nat

VARIABLES
  slots,    \* the MTP block's cache; slot p is slots[p + 1]
  mtpLen,   \* GpuMTP::len
  prev,     \* GpuMTP::prev: the hidden state the next draft starts from
  scratch,  \* hidden states in the scratch rows, as left by the last pass
  row0      \* chunk_row0: position of the first of them

mtp == <<slots, mtpLen, prev>>
pass == <<scratch, row0>>
mvars == <<vars, slots, mtpLen, prev, scratch, row0>>

-----------------------------------------------------------------------------
(* The n-gram lookup *)

\* Places where seed and the m - 1 tokens before it stand in ctx.
Hits(ctx, seed, m) ==
  {j \in m .. Len(ctx) - 1 :
     ctx[j] = seed /\ \A t \in 1 .. m - 1 : ctx[j - t] = ctx[Len(ctx) - t + 1]}

\* Tokens that can be drafted from a hit.
Continuation(ctx, j, cap) == Lesser(Len(ctx) - j, cap)

\* The hit with the longest continuation, the latest of these.
BestHit(ctx, seed, m, cap) ==
  CHOOSE j \in Hits(ctx, seed, m) :
    \A i \in Hits(ctx, seed, m) :
      \/ Continuation(ctx, i, cap) < Continuation(ctx, j, cap)
      \/ Continuation(ctx, i, cap) = Continuation(ctx, j, cap) /\ i <= j

\* How far back, the seed included, the stream before a hit agrees with its end.
Agreement(ctx, j, m) ==
  Max({a \in m .. j : \A t \in m .. a - 1 : ctx[j - t] = ctx[Len(ctx) - t + 1]})

Matches(ctx, seed, cap) ==
  {m \in NgramMin .. Max({NgramMin, 4}) :
     /\ Hits(ctx, seed, m) # {}
     /\ Agreement(ctx, BestHit(ctx, seed, m, cap), m) >= Evidence}

\* Mutant of Ngram: the seed is not counted, a draft fills the chunk without it.
NgramPastCap(ctx, seed, cap) ==
  IF Matches(ctx, seed, cap + 1) = {} THEN <<>>
  ELSE LET j == BestHit(ctx, seed, Max(Matches(ctx, seed, cap + 1)), cap + 1)
       IN SubSeq(ctx, j + 1, j + Continuation(ctx, j, cap + 1))

\* The longest match with evidence is continued as it was continued before.
Ngram(ctx, seed, cap) ==
  IF cap <= 0 \/ Matches(ctx, seed, cap) = {} THEN <<>>
  ELSE LET j == BestHit(ctx, seed, Max(Matches(ctx, seed, cap)), cap)
       IN SubSeq(ctx, j + 1, j + Continuation(ctx, j, cap))

-----------------------------------------------------------------------------
(* The draft cache *)

Pair(hidden, t) == IF hidden = Dirty THEN Dirty ELSE Append(hidden, t)

\* Slots from position p on, computed from the first scratch rows.
SlotsAfter(p, toks, hid) ==
  [i \in Row |-> IF i \in p + 1 .. p + Len(toks) THEN Pair(hid[i - p], toks[i - p]) ELSE slots[i]]

\* mtp_gpu_absorb(toks, p, seed) over scratch rows hid.
Absorb(p, toks, hid, seed) ==
  /\ slots' = SlotsAfter(p, toks, hid)
  /\ mtpLen' = p + Len(toks)
  /\ prev' = IF seed THEN hid[Len(toks) + 1] ELSE prev

\* The rows of a pass over positions from .. upto - 1, before an absorb uses them.
Left(from, upto) == [i \in 1 .. upto - from |-> rows'[from + i]]

MBegin(r) == Begin(r) /\ UNCHANGED <<mtp, pass>>

\* Mutant of MPrefillChunk: the last pair of a chunk is left to the next one.
MPrefillChunkShort ==
  /\ PrefillChunk
  /\ IF req.k > 0
     THEN /\ Absorb(pos, SubSeq(all, pos + 2, pos'), Left(pos, pos'), FALSE)
          /\ scratch' = <<>>
     ELSE UNCHANGED mtp /\ scratch' = Left(pos, pos')
  /\ UNCHANGED row0

\* With mtp_prefill_absorb_ the hidden states of a chunk are absorbed before the
\* next chunk overwrites them, without a seed.
MPrefillChunk ==
  /\ PrefillChunk
  /\ IF req.k > 0
     THEN /\ Absorb(pos, SubSeq(all, pos + 2, pos' + 1), Left(pos, pos'), FALSE)
          /\ scratch' = <<>>
     ELSE UNCHANGED mtp /\ scratch' = Left(pos, pos')
  /\ UNCHANGED row0

MPrefillLast ==
  /\ PrefillLast
  /\ row0' = pos
  /\ scratch' = Left(pos, Len(all))
  /\ UNCHANGED mtp

MStartDecode ==
  /\ StartDecode
  /\ IF req.k > 0
     THEN Absorb(row0, SubSeq(all, row0 + 2, Len(all)), scratch, TRUE) /\ scratch' = <<>>
     ELSE UNCHANGED <<mtp, scratch>>
  /\ UNCHANGED row0

-----------------------------------------------------------------------------
(* One group: draft, verify, accept *)

Seed == Greedy(logits)

Lookup == Ngram(all, Seed, DraftCap)

FromNgram == Lookup # <<>> /\ Len(Lookup) >= GroupWidth - 1

\* mtp_gpu_draft returns GroupWidth - 1 tokens, or fewer if a draft is not
\* confident enough (GLMSERVE_SPEC_CONF > 0).
MtpDrafts ==
  UNION {[1 .. n -> Token] : n \in IF Adaptive THEN {GroupWidth - 1} ELSE 0 .. GroupWidth - 1}

\* Steps the block runs for ds: the draft that is not confident is run as well.
DraftSteps(ds) == Lesser(Len(ds) + 1, GroupWidth - 1)

\* Mutant of Draft: the cache is not taken to hold the first step's slot.
DraftAtLoop(ds) ==
  /\ GroupWidth > 1
  /\ slots' = [i \in Row |->
       IF i = mtpLen + 2 THEN Pair(prev, Seed)
       ELSE IF i \in mtpLen + 3 .. mtpLen + 1 + DraftSteps(ds) THEN Dirty ELSE slots[i]]
  /\ mtpLen' = mtpLen + 1

\* The first slot is made of committed data, the others of the block's own states.
Draft(ds) ==
  /\ GroupWidth > 1
  /\ slots' = [i \in Row |->
       IF i = mtpLen + 1 THEN Pair(prev, Seed)
       ELSE IF i \in mtpLen + 2 .. mtpLen + DraftSteps(ds) THEN Dirty ELSE slots[i]]
  /\ mtpLen' = mtpLen + 1

\* The verify pass over chunk: the first a tokens are accepted, the rest rewound.
Verify(chunk) ==
  LET new == Pass(rows, Len(all), chunk)
      am == [i \in 1 .. Len(chunk) |-> Greedy(new[Len(all) + i])]
  IN \E a \in 1 .. Len(chunk) :
       /\ Accepts(chunk, am, a)
       /\ rows' = new
       /\ curLen' = Len(all) + a
       /\ pending' = SubSeq(chunk, 1, a)
       /\ logits' = new[Len(all) + a]
       /\ scratch' = Left(Len(all), Len(all) + Len(chunk))

MSpecGroup ==
  /\ pc = "loop"
  /\ spec
  /\ Remaining > 0
  /\ Len(all) + GroupWidth <= MaxCtx
  /\ \E ds \in IF FromNgram THEN {Lookup} ELSE MtpDrafts :
       /\ IF FromNgram \/ GroupWidth = 1 THEN UNCHANGED <<slots, mtpLen>> ELSE Draft(ds)
       /\ Verify(<<Seed>> \o ds)
  /\ row0' = Len(all)
  /\ pc' = "record"
  /\ UNCHANGED <<request, all, committed, reuse, pos, spec, reason, prev>>

\* The accepted tokens behind the seed are absorbed, unless speculation ends.
MAfterGroup ==
  /\ AfterGroup
  /\ IF spec'
     THEN Absorb(row0, SubSeq(all, row0 + 2, Len(all)), scratch, TRUE) /\ scratch' = <<>>
     ELSE UNCHANGED <<mtp, scratch>>
  /\ UNCHANGED row0

MDecode ==
  /\ Decode
  /\ row0' = Len(all) - 1
  /\ scratch' = Left(Len(all) - 1, Len(all))
  /\ UNCHANGED mtp

Aside ==
  /\ LoopDone \/ Sample \/ GroupNoRoom \/ StopToken \/ Record \/ RecordLast
       \/ DecodeNoRoom \/ Refuse
  /\ UNCHANGED <<mtp, pass>>

\* An exception may come from within a draft or an absorb, and a probe runs them
\* too: nothing is known of the draft cache then.
Disturbed ==
  /\ slots' = [i \in Row |-> Dirty]
  /\ prev' = Dirty
  /\ mtpLen' = MaxCtx
  /\ scratch' = <<>>
  /\ UNCHANGED row0

MWork ==
  \/ MPrefillChunk \/ MPrefillLast \/ MStartDecode
  \/ MSpecGroup \/ MAfterGroup \/ MDecode
  \/ Aside

MInit ==
  /\ Init
  /\ slots = [i \in Row |-> Dirty]
  /\ mtpLen = 0
  /\ prev = Dirty
  /\ scratch = <<>>
  /\ row0 = 0

MNext ==
  \/ \E r \in Requests : MBegin(r)
  \/ MWork
  \/ Abort /\ Disturbed
  \/ Probe /\ Disturbed

MSpec == MInit /\ [][MNext]_mvars

\* As in GpuEngine: run() waits for nothing between two steps.
MFairSpec == MSpec /\ WF_mvars(MWork)

-----------------------------------------------------------------------------
(* Properties *)

\* Speculating, the draft cache is in step with the stream whenever a group begins:
\* its length is one short of the stream and the seed is the last token's hidden
\* state, whatever the last group drafted and accepted. At the first group the
\* absorbs of the prefill, between chunks and after the last one, have covered
\* every pair of the part that was run, with no gap at a chunk's edge
\* (src/server.cpp:331-338, src/model_gpu.cpp:1758-1764).
DraftCacheInStep ==
  pc = "loop" /\ spec =>
    /\ mtpLen = Len(all) - 1
    /\ prev = all
    /\ Len(all) = plen =>
         \A i \in 1 .. plen - 1 : i > reuse => slots[i] = SubSeq(all, 1, i + 1)

\* The pair a draft begins with is the one that belongs there and stays: after a
\* group that drafted, the slot before the group's rows is that of the stream
\* (src/model_gpu.cpp:2195-2197).
DraftedSlotStays ==
  [][MSpecGroup /\ mtpLen' # mtpLen => slots'[Len(all)] = Append(all, Seed)]_mvars

\* With its real drafters the engine is still the one of GpuEngine, whose drafts
\* are any that fit the chunk, the tokens left and the cache: the lookup, which may
\* draft past the group's width, never draws a chunk that does not fit.
ImplementsGpuEngine == Spec

=============================================================================
