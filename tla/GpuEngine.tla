------------------------------ MODULE GpuEngine ------------------------------
(***************************************************************************)
(* Engine::run on the GPU path (src/server.cpp) over the persistent device *)
(* cache (src/model_gpu.cpp): prefix reuse across requests, chunked        *)
(* prefill, plain and speculative decode with accept and rewind, and       *)
(* requests that end by a stop, a cancel, a limit or an exception.         *)
(*                                                                         *)
(* A row of the device cache is modelled by what it was computed from: the *)
(* tokens at its own and all earlier positions.  A pass that attends over  *)
(* rows that do not belong together yields Dirty rows.  Drafts are         *)
(* arbitrary tokens: no property may depend on the drafter being right.    *)
(* The whole of run() is under gen_mu_, so one request runs at a time.     *)
(***************************************************************************)
EXTENDS Integers, Sequences

CONSTANTS
  Token,        \* the vocabulary
  Greedy(_),    \* argmax of the logits computed from a row's tokens
  Requests,     \* records [prompt, max, k, sampled, stop]: SamplingParams
  MaxCtx,       \* max_model_len = GpuState::max_ctx
  Chunk0,       \* prefill_chunk_cap(): width of the first prefill chunk
  Step,         \* width of a suffix chunk
  GroupMax,     \* kSpecGroupMax: widest verify chunk
  PrefixReuse,  \* GLMSERVE_PREFIX_REUSE
  Adaptive      \* GLMSERVE_SPEC_CONF <= 0: speculation may be given up

Row == 1 .. MaxCtx
Stream == Seq(Token)
Request == [prompt : Stream, max : Nat, k : Nat, sampled : BOOLEAN, stop : SUBSET Token]

ASSUME ParamAssumption ==
  /\ MaxCtx \in Nat /\ MaxCtx >= 2
  /\ Chunk0 \in Nat \ {0}
  /\ Step \in 1 .. Chunk0
  /\ GroupMax \in Nat \ {0}
  /\ PrefixReuse \in BOOLEAN
  /\ Adaptive \in BOOLEAN

ASSUME RequestAssumption == Requests \subseteq Request /\ Requests # {}

ASSUME GreedyAssumption ==
  \A n \in 0 .. MaxCtx : \A s \in [1 .. n -> Token] : Greedy(s) \in Token

VARIABLES
  pc,         \* where run() is: between two passes over the device
  req,        \* the request
  all,        \* all_tokens
  plen,       \* c.prompt_tokens; completion_tokens = Len(all) - plen
  rows,       \* what each row of the device cache was computed from
  curLen,     \* GpuState::cur_len
  committed,  \* gpu_committed_
  reuse,      \* rows of the prefix taken over from the last request
  pos,        \* rows done by the prefill under way
  logits,     \* the row whose logits are in hand
  spec,       \* mtp_gpu_active
  pending,    \* verified tokens of the current step, not yet recorded
  reason      \* c.finish_reason, "error" for an exception

vars == <<pc, req, all, plen, rows, curLen, committed, reuse, pos, logits, spec,
          pending, reason>>

cache == <<rows, curLen>>
request == <<req, plen>>

Lesser(a, b) == IF a <= b THEN a ELSE b

-----------------------------------------------------------------------------
(* The device cache *)

Dirty == <<>>

\* The first rows were computed from exactly the stream s.
Holds(rws, s) == \A i \in 1 .. Len(s) : rws[i] = SubSeq(s, 1, i)

\* A causal pass of toks over positions from .. from + Len(toks) - 1.
Pass(rws, from, toks) ==
  LET base == IF from = 0 THEN <<>> ELSE rws[from]
      clean == Len(base) = from /\ Holds(rws, base)
  IN [i \in Row |->
        IF i \notin from + 1 .. from + Len(toks) THEN rws[i]
        ELSE IF clean THEN base \o SubSeq(toks, 1, i - from) ELSE Dirty]

\* Rows from + 1 .. upto after a pass that was cut short, or that served a probe.
Spoiled(rws, from, upto) ==
  [i \in Row |-> IF i \in from + 1 .. upto THEN Dirty ELSE rws[i]]

-----------------------------------------------------------------------------
(* Taking a request *)

Init ==
  /\ pc = "idle"
  /\ req \in Requests
  /\ all = <<>>
  /\ plen = 0
  /\ rows = [i \in Row |-> Dirty]
  /\ curLen = 0
  /\ committed = <<>>
  /\ reuse = 0
  /\ pos = 0
  /\ logits = Dirty
  /\ spec = FALSE
  /\ pending = <<>>
  /\ reason = "none"

\* Mutant of Clamped: no room is left for a generated token.
ClampedToContext(prompt) ==
  IF Len(prompt) > MaxCtx
  THEN SubSeq(prompt, Len(prompt) - MaxCtx + 1, Len(prompt))
  ELSE prompt

Clamped(prompt) ==
  IF Len(prompt) > MaxCtx - 1
  THEN SubSeq(prompt, Len(prompt) - MaxCtx + 2, Len(prompt))
  ELSE prompt

\* Mutant of ReuseLimit: the whole prompt may be taken over.
ReuseWholePrompt(prompt) ==
  IF ~PrefixReuse THEN 0 ELSE Lesser(Len(committed), Len(prompt))

\* How far a prompt may lean on the rows of the last request: at least one
\* token is left to run, since its row gives the first logits.
ReuseLimit(prompt) ==
  IF ~PrefixReuse \/ prompt = <<>> THEN 0
  ELSE Lesser(Len(committed), Len(prompt) - 1)

\* Mutant of IsReuse: the streams are compared by length only.
IsReuseByLength(prompt, n) == n = ReuseLimit(prompt)

IsReuse(prompt, n) ==
  /\ \A i \in 1 .. n : committed[i] = prompt[i]
  /\ n < ReuseLimit(prompt) => committed[n + 1] # prompt[n + 1]

Begin(r) ==
  /\ pc = "idle"
  /\ req' = r
  /\ all' = Clamped(r.prompt)
  /\ plen' = Len(Clamped(r.prompt))
  /\ \E n \in 0 .. ReuseLimit(Clamped(r.prompt)) :
       /\ IsReuse(Clamped(r.prompt), n)
       /\ reuse' = n
       /\ pos' = n
  /\ committed' = <<>>
  /\ reason' = "none"
  /\ pc' = "prefill"
  /\ UNCHANGED <<rows, curLen, logits, spec, pending>>

-----------------------------------------------------------------------------
(* Prefill, one chunk a step *)

\* The GLM_CHECKs of forward_gpu_prefill and forward_gpu_prefill_from.
PrefillChecks ==
  /\ all # <<>>
  /\ Len(all) <= MaxCtx
  /\ reuse < Len(all)
  /\ pos = reuse => reuse <= curLen

ChunkWidth == Lesser(IF pos = 0 THEN Chunk0 ELSE Step, Len(all) - pos)

\* Mutant of PrefillChunk: the position is not advanced.
PrefillSameChunk ==
  /\ pc = "prefill"
  /\ PrefillChecks
  /\ pos + ChunkWidth < Len(all)
  /\ rows' = Pass(rows, pos, SubSeq(all, pos + 1, pos + ChunkWidth))
  /\ UNCHANGED <<pc, request, all, curLen, committed, reuse, pos, logits, spec, pending, reason>>

PrefillChunk ==
  /\ pc = "prefill"
  /\ PrefillChecks
  /\ pos + ChunkWidth < Len(all)
  /\ rows' = Pass(rows, pos, SubSeq(all, pos + 1, pos + ChunkWidth))
  /\ pos' = pos + ChunkWidth
  /\ UNCHANGED <<pc, request, all, curLen, committed, reuse, logits, spec, pending, reason>>

PrefillLast ==
  /\ pc = "prefill"
  /\ PrefillChecks
  /\ pos + ChunkWidth = Len(all)
  /\ rows' = Pass(rows, pos, SubSeq(all, pos + 1, Len(all)))
  /\ curLen' = Len(all)
  /\ pos' = Len(all)
  /\ logits' = rows'[Len(all)]
  /\ pc' = "check"
  /\ UNCHANGED <<request, all, committed, reuse, spec, pending, reason>>

\* Mutant of StartDecode: sampled requests may speculate.
StartUnchecked ==
  /\ pc = "check"
  /\ spec' = (req.k > 0)
  /\ pc' = "loop"
  /\ UNCHANGED <<request, all, cache, committed, reuse, pos, logits, pending, reason>>

\* The checks on MTP requests come after the prefill; then the final chunk is
\* absorbed into the draft cache and the loop starts.
StartDecode ==
  /\ pc = "check"
  /\ req.k > 0 => ~req.sampled
  /\ spec' = (req.k > 0)
  /\ pc' = "loop"
  /\ UNCHANGED <<request, all, cache, committed, reuse, pos, logits, pending, reason>>

-----------------------------------------------------------------------------
(* The end of a request *)

\* Mutant of Finish: every recorded token is taken to have a row.
FinishAllTokens(why, s) ==
  /\ reason' = why
  /\ committed' = s
  /\ pc' = "idle"
  /\ reuse' = 0
  /\ pos' = 0
  /\ logits' = Dirty
  /\ spec' = FALSE
  /\ pending' = <<>>

\* Leaving the loop normally: remember which stream the cache rows belong to.
Finish(why, s) ==
  /\ reason' = why
  /\ committed' = SubSeq(s, 1, Lesser(curLen, Len(s)))
  /\ pc' = "idle"
  /\ reuse' = 0
  /\ pos' = 0
  /\ logits' = Dirty
  /\ spec' = FALSE
  /\ pending' = <<>>

\* First position the pass under way may write.
WriteFrom ==
  CASE pc = "prefill" -> pos
    [] pc = "decode"  -> Len(all) - 1
    [] OTHER          -> Lesser(Len(all), MaxCtx)

\* The catch block: the committed stream stays forgotten.
Throw ==
  /\ reason' = "error"
  /\ pc' = "idle"
  /\ reuse' = 0
  /\ pos' = 0
  /\ logits' = Dirty
  /\ spec' = FALSE
  /\ pending' = <<>>
  /\ UNCHANGED <<request, all, committed>>

\* A GLM_CHECK on the request throws: an empty prompt, or speculation asked of
\* a sampled request.
Refuse ==
  /\ \/ pc = "prefill" /\ ~PrefillChecks
     \/ pc = "check" /\ req.k > 0 /\ req.sampled
  /\ Throw
  /\ UNCHANGED cache

\* A device or communicator error throws out of a pass: it may have written
\* some of its rows, and cur_len, before it failed.
Abort ==
  /\ pc \in {"prefill", "check", "loop", "absorb", "decode"}
  /\ \E upto \in Lesser(WriteFrom, MaxCtx) .. MaxCtx :
       /\ rows' = Spoiled(rows, WriteFrom, upto)
       /\ curLen' \in {curLen, upto}
  /\ Throw

-----------------------------------------------------------------------------
(* The decode loop *)

Remaining == req.max - (Len(all) - plen)

LoopDone ==
  /\ pc = "loop"
  /\ Remaining <= 0
  /\ Finish("length", all)
  /\ UNCHANGED <<request, all, cache>>

\* Plain decode, and decode after speculation was given up.
Sample ==
  /\ pc = "loop"
  /\ ~spec
  /\ Remaining > 0
  /\ \E t \in IF req.sampled THEN Token ELSE {Greedy(logits)} : pending' = <<t>>
  /\ pc' = "record"
  /\ UNCHANGED <<request, all, cache, committed, reuse, pos, logits, spec, reason>>

GroupWidth == Lesser(req.k, Lesser(Remaining, GroupMax))

GroupNoRoom ==
  /\ pc = "loop"
  /\ spec
  /\ Remaining > 0
  /\ Len(all) + GroupWidth > MaxCtx
  /\ Finish("length", all)
  /\ UNCHANGED <<request, all, cache>>

\* Drafts come from the n-gram lookup or from the MTP block; the lookup may
\* draft past GroupWidth, up to the chunk cap.
DraftCap == Lesser(Lesser(GroupMax, Remaining), MaxCtx - Len(all)) - 1

\* Mutant of Accepts: each draft is compared with its own row's argmax.
AcceptsShifted(chunk, am, a) ==
  /\ \A i \in 2 .. a : chunk[i] = am[i]
  /\ a < Len(chunk) => chunk[a + 1] # am[a + 1]

\* am is the argmax of every verified row; the first a tokens of chunk match it.
Accepts(chunk, am, a) ==
  /\ \A i \in 1 .. a - 1 : chunk[i + 1] = am[i]
  /\ a < Len(chunk) => chunk[a + 1] # am[a]

\* One verify pass over <<seed>> \o drafts, then the rejected tail is rewound.
SpecGroup ==
  /\ pc = "loop"
  /\ spec
  /\ Remaining > 0
  /\ Len(all) + GroupWidth <= MaxCtx
  /\ \E n \in 0 .. DraftCap : \E ds \in [1 .. n -> Token] :
       LET chunk == <<Greedy(logits)>> \o ds
           new == Pass(rows, Len(all), chunk)
           am == [i \in 1 .. n + 1 |-> Greedy(new[Len(all) + i])]
       IN \E a \in 1 .. n + 1 :
            /\ Accepts(chunk, am, a)
            /\ rows' = new
            /\ curLen' = Len(all) + a
            /\ pending' = SubSeq(chunk, 1, a)
            /\ logits' = new[Len(all) + a]
  /\ pc' = "record"
  /\ UNCHANGED <<request, all, committed, reuse, pos, spec, reason>>

StopToken ==
  /\ pc = "record"
  /\ Head(pending) \in req.stop
  /\ Finish("stop", all)
  /\ UNCHANGED <<request, all, cache>>

\* record_token says go on: the accepted tokens are recorded one by one.
Record ==
  /\ pc = "record"
  /\ Head(pending) \notin req.stop
  /\ all' = Append(all, Head(pending))
  /\ Remaining > 1
  /\ pending' = Tail(pending)
  /\ pc' = IF Len(pending) > 1 THEN "record" ELSE IF spec THEN "absorb" ELSE "decode"
  /\ UNCHANGED <<request, cache, committed, reuse, pos, logits, spec, reason>>

\* record_token says stop: a stop string, a client gone, or max_tokens.
RecordLast ==
  /\ pc = "record"
  /\ Head(pending) \notin req.stop
  /\ all' = Append(all, Head(pending))
  /\ \E why \in {"stop", "cancel"} \cup (IF Remaining <= 1 THEN {"length"} ELSE {}) :
       Finish(why, all')
  /\ UNCHANGED <<request, cache>>

\* After a group: give speculation up for good, or absorb the accepted tokens.
AfterGroup ==
  /\ pc = "absorb"
  /\ spec' \in IF Adaptive THEN BOOLEAN ELSE {TRUE}
  /\ pc' = "loop"
  /\ UNCHANGED <<request, all, cache, committed, reuse, pos, logits, pending, reason>>

DecodeNoRoom ==
  /\ pc = "decode"
  /\ Len(all) > MaxCtx
  /\ Finish("length", all)
  /\ UNCHANGED <<request, all, cache>>

Decode ==
  /\ pc = "decode"
  /\ Len(all) <= MaxCtx
  /\ rows' = Pass(rows, Len(all) - 1, <<all[Len(all)]>>)
  /\ curLen' = Len(all)
  /\ logits' = rows'[Len(all)]
  /\ pc' = "loop"
  /\ UNCHANGED <<request, all, committed, reuse, pos, spec, pending, reason>>

-----------------------------------------------------------------------------
\* The probes (prefill_logits, profile, check_*) forget the committed stream and
\* then drive the device cache with streams of their own. They forget before they
\* take gen_mu_, but no command runs a probe beside the server: one step.
Probe ==
  /\ pc = "idle"
  /\ committed' = <<>>
  /\ \E n \in Row : rows' = Spoiled(rows, 0, n) /\ curLen' = n
  /\ UNCHANGED <<pc, request, all, reuse, pos, logits, spec, pending, reason>>

Work ==
  \/ PrefillChunk \/ PrefillLast \/ StartDecode
  \/ LoopDone \/ Sample \/ GroupNoRoom \/ SpecGroup
  \/ StopToken \/ Record \/ RecordLast
  \/ AfterGroup \/ DecodeNoRoom \/ Decode
  \/ Refuse

Next ==
  \/ \E r \in Requests : Begin(r)
  \/ Work
  \/ Abort
  \/ Probe

Spec == Init /\ [][Next]_vars

\* run() waits for nothing between two steps, so its next step is always taken.
\* Nothing is assumed of errors, clients and probes.
FairSpec == Spec /\ WF_vars(Work)

-----------------------------------------------------------------------------
(* Properties *)

TypeOK ==
  /\ pc \in {"idle", "prefill", "check", "loop", "record", "absorb", "decode"}
  /\ req \in Requests
  /\ all \in Stream
  /\ plen \in 0 .. MaxCtx - 1
  /\ rows \in [Row -> Stream]
  /\ curLen \in 0 .. MaxCtx
  /\ committed \in Stream
  /\ reuse \in 0 .. MaxCtx
  /\ pos \in 0 .. MaxCtx
  /\ logits \in Stream
  /\ spec \in BOOLEAN
  /\ pending \in Stream
  /\ reason \in {"none", "stop", "cancel", "length", "error"}

\* Between requests the device cache really holds the stream gpu_committed_
\* says it holds, whatever way the last request ended: a later request that
\* shares a prefix skips the prefill of these rows (src/server.cpp:526-533).
CommittedResident ==
  pc = "idle" => Len(committed) <= curLen /\ Holds(rows, committed)

\* Every pass attends over rows computed from exactly the request's own stream:
\* the reused prefix, the chunks already prefilled, the accepted tokens and
\* nothing of a rejected draft or of an earlier request.
CacheFollowsStream ==
  /\ pc = "prefill" => Holds(rows, SubSeq(all, 1, pos))
  /\ pc \in {"check", "loop"} => Holds(rows, all) /\ curLen = Len(all) /\ logits = all
  /\ pc = "record" /\ spec => Holds(rows, all \o pending) /\ curLen = Len(all \o pending)
  /\ pc = "decode" => Holds(rows, SubSeq(all, 1, Len(all) - 1)) /\ curLen = Len(all) - 1

\* Every token a greedy request is given is the model's argmax after the prompt
\* and the tokens before it, speculative or not (src/server.cpp:412-416).
EmittedGreedy ==
  ~req.sampled =>
    \A i \in plen + 1 .. Len(all) : all[i] = Greedy(SubSeq(all, 1, i - 1))

\* The assertions of the device passes never fire for a request that has a
\* prompt: reused rows are resident and leave a token to run, and no verify
\* chunk is empty, wider than the cap or past the end of the cache.
DeviceChecksHold ==
  /\ pc = "prefill" /\ plen > 0 => PrefillChecks
  /\ pc = "loop" /\ spec /\ Remaining > 0 /\ Len(all) + GroupWidth <= MaxCtx =>
       /\ GroupWidth - 1 \in 0 .. DraftCap
       /\ DraftCap < GroupMax
       /\ Len(all) + DraftCap + 1 <= MaxCtx

\* The tokens the device has run: with a group verified, all accepted ones.
Verified == IF spec THEN all \o pending ELSE all

\* Each token of s after the prompt is the argmax after the tokens before it.
IsGreedy(s) ==
  \A i \in plen + 1 .. Len(s) : s[i] = Greedy(SubSeq(s, 1, i - 1))

\* The inductive invariant behind the safety properties.
IndInv ==
  /\ TypeOK
  /\ plen <= Len(all)
  /\ pc # "record" => pending = <<>>
  /\ pc \in {"idle", "prefill", "check"} => ~spec
  /\ spec => ~req.sampled /\ req.k > 0
  /\ pc = "idle" => Len(committed) <= curLen /\ Holds(rows, committed)
  /\ pc # "idle" => committed = <<>>
  /\ pc = "prefill" =>
       /\ plen = Len(all)
       /\ pos <= Len(all)
       /\ reuse <= pos
       /\ (pos = reuse => reuse <= curLen)
       /\ (all # <<>> => reuse < Len(all))
       /\ Holds(rows, SubSeq(all, 1, pos))
  /\ pc \in {"check", "loop", "record", "absorb"} =>
       /\ Holds(rows, Verified)
       /\ curLen = Len(Verified)
       /\ logits = Verified
       /\ Verified # <<>>
  /\ pc = "check" => plen = Len(all)
  /\ pc = "record" => pending # <<>> /\ (~spec => Len(pending) = 1)
  /\ pc = "absorb" => spec
  /\ pc = "decode" =>
       /\ ~spec
       /\ Len(all) > 0
       /\ curLen = Len(all) - 1
       /\ Holds(rows, SubSeq(all, 1, Len(all) - 1))
  /\ ~req.sampled => IsGreedy(all \o pending)

\* The engine is an implementation of the service its callers see.
Service == INSTANCE GreedyService
             WITH busy <- pc # "idle", start <- plen, stream <- all

ImplementsService == Service!Spec

\* Every request taken comes to an end.
Served == pc # "idle" ~> pc = "idle"

\* A comment in run() says the speculative stream equals plain greedy decode
\* (src/server.cpp:414-416). Then a greedy request that is cut off by the
\* context would be cut off where plain decode is: with the cache full.
CutOffOnlyWhenFull ==
  pc = "idle" /\ reason = "length" /\ Remaining > 0 => Len(all) > MaxCtx

=============================================================================
