------------------------------ MODULE CpuEngine ------------------------------
(***************************************************************************)
(* Engine::run on the CPU path (src/server.cpp): admission by the          *)
(* scheduler (src/scheduler.cpp), GLM52Model::forward over a sequence of   *)
(* the paged KV cache (src/kv_cache.cpp, src/model_glm52.cpp), plain and   *)
(* speculative decode with rewind, and the release of the blocks however   *)
(* the request ends.                                                       *)
(*                                                                         *)
(* A slot of a block holds what its K/V and its DSA index key were         *)
(* computed from: the tokens at its own and all earlier positions.  Blocks *)
(* keep their contents when they are freed.  All layers are one layer.     *)
(***************************************************************************)
EXTENDS Integers, Sequences, Functions

CONSTANTS
  Token,          \* the vocabulary
  Greedy(_),      \* argmax of the logits computed from a row's tokens
  Requests,       \* records [prompt, max, k, sampled, stop, probe]
  MaxCtx,         \* max_model_len
  BlockSize,      \* block_size: tokens a block holds
  Slack,          \* blocks beyond those of max_concurrent full sequences (4)
  MaxConcurrent,  \* max_concurrent
  IndexTopk       \* index_topk: attention over more rows than this is sparse

Stream == Seq(Token)
Request == [prompt : Stream, max : Nat, k : Nat, sampled : BOOLEAN,
            stop : SUBSET Token, probe : BOOLEAN]

ASSUME ParamAssumption ==
  /\ MaxCtx \in Nat /\ MaxCtx >= 2
  /\ BlockSize \in Nat \ {0}
  /\ Slack \in Nat
  /\ MaxConcurrent \in Nat \ {0}
  /\ IndexTopk \in Nat \ {0}

ASSUME RequestAssumption == Requests \subseteq Request /\ Requests # {}

\* Blocks that n tokens need.
BlocksFor(n) == (n + BlockSize - 1) \div BlockSize

NumBlocks == BlocksFor(MaxCtx) * MaxConcurrent + Slack

\* No row of the cache is further into a stream than the pool is large.
ASSUME GreedyAssumption ==
  \A n \in 0 .. NumBlocks * BlockSize : \A s \in [1 .. n -> Token] : Greedy(s) \in Token

Block == 0 .. NumBlocks - 1
Offset == 0 .. BlockSize - 1

VARIABLES
  pc,      \* where run() is
  req,     \* the request
  all,     \* all_tokens
  plen,    \* c.prompt_tokens
  table,   \* kv.block_table
  len,     \* kv.length
  mem,     \* the pools: contents of every slot of every block
  free,    \* free_list_, a stack whose top is its end
  active,  \* Scheduler::active_
  logits,  \* the row whose logits are in hand
  draft,   \* drafted tokens of the group not yet compared
  oldLen,  \* old_kv_len plus the drafts accepted so far
  reason   \* c.finish_reason, "error" or "exhausted" for an exception

vars == <<pc, req, all, plen, table, len, mem, free, active, logits, draft, oldLen, reason>>

kv == <<table, len, mem, free>>

Lesser(a, b) == IF a <= b THEN a ELSE b

Dirty == <<>>

-----------------------------------------------------------------------------
(* The paged cache *)

\* k_slot, v_slot and index_slot of position p, seen through a block table.
Slot(tab, m, p) == m[tab[p \div BlockSize + 1]][p % BlockSize]

\* Rows 0 .. n - 1 hold the K/V, or the index keys, of stream s.
HoldsKV(tab, m, s, n) == \A p \in 0 .. n - 1 : Slot(tab, m, p).kv = SubSeq(s, 1, p + 1)
HoldsKeys(tab, m, s, n) == \A p \in 0 .. n - 1 : Slot(tab, m, p).key = SubSeq(s, 1, p + 1)

\* Blocks reserve() has to take for n more tokens.
Missing(n) == BlocksFor(len + n) - Len(table)

\* Mutant of Taken: the block that is popped is not the one that is kept.
TakenFromBottom(n) == SubSeq(free, 1, n)

\* n blocks popped from the free list, first popped first.
Taken(n) == [i \in 1 .. n |-> free[Len(free) - i + 1]]

\* release(): blocks go back in the order of the table.
FreeBlocks(f, tab) == f \o tab

-----------------------------------------------------------------------------
(* One forward pass of toks over rows len .. len + Len(toks) - 1 *)

\* The stream the rows below len were computed from.
Base(tab) == IF len = 0 THEN <<>> ELSE Slot(tab, mem, len - 1).kv

\* learned_dsa: the pass runs the indexer, and only then writes index keys.
Sparse(n) == len + n > IndexTopk

\* What the pass leaves in position p: K/V are right when all rows it attends
\* over are, and past index_topk rows also when the keys it selects them by are.
Computed(tab, toks, p) ==
  LET s == Base(tab) \o SubSeq(toks, 1, p - len + 1)
      clean == /\ Len(s) = p + 1
               /\ HoldsKV(tab, mem, s, len)
               /\ p + 1 > IndexTopk => HoldsKeys(tab, mem, s, len)
      new == IF clean THEN s ELSE Dirty
  IN [kv |-> new, key |-> IF Sparse(Len(toks)) THEN new ELSE Slot(tab, mem, p).key]

After(tab, toks) ==
  [b \in Block |-> [o \in Offset |->
     IF \E p \in len .. len + Len(toks) - 1 :
          tab[p \div BlockSize + 1] = b /\ p % BlockSize = o
     THEN Computed(tab, toks, CHOOSE p \in len .. len + Len(toks) - 1 :
                                tab[p \div BlockSize + 1] = b /\ p % BlockSize = o)
     ELSE mem[b][o]]]

\* reserve() gets its blocks and the pass runs.
Forward(toks) ==
  LET need == IF Missing(Len(toks)) > 0 THEN Missing(Len(toks)) ELSE 0
      tab == table \o Taken(need)
  IN /\ toks # <<>>
     /\ need <= Len(free)
     /\ table' = tab
     /\ free' = SubSeq(free, 1, Len(free) - need)
     /\ mem' = After(tab, toks)
     /\ len' = len + Len(toks)

\* reserve() throws when it has taken the last block and needs one more.
Exhausted(toks) ==
  /\ Missing(Len(toks)) > Len(free)
  /\ table' = table \o Taken(Len(free))
  /\ free' = <<>>
  /\ UNCHANGED <<len, mem>>

LastRow == Slot(table', mem', len' - 1).kv

-----------------------------------------------------------------------------
(* Taking and ending a request *)

Init ==
  /\ pc = "idle"
  /\ req \in Requests
  /\ all = <<>>
  /\ plen = 0
  /\ table = <<>>
  /\ len = 0
  /\ mem = [b \in Block |-> [o \in Offset |-> [kv |-> Dirty, key |-> Dirty]]]
  /\ free = [i \in 1 .. NumBlocks |-> NumBlocks - i]
  /\ active = 0
  /\ logits = Dirty
  /\ draft = <<>>
  /\ oldLen = 0
  /\ reason = "none"

Clamped(prompt) ==
  IF Len(prompt) > MaxCtx - 1
  THEN SubSeq(prompt, Len(prompt) - MaxCtx + 2, Len(prompt))
  ELSE prompt

\* Serving requests are clamped, the probes' prompts are not.
Begin(r) ==
  /\ pc = "idle"
  /\ req' = r
  /\ all' = IF r.probe THEN r.prompt ELSE Clamped(r.prompt)
  /\ plen' = Len(all')
  /\ reason' = "none"
  /\ pc' = "admit"
  /\ UNCHANGED <<kv, active, logits, draft, oldLen>>

\* Scheduler::admit, and an empty sequence.
Admit ==
  /\ pc = "admit"
  /\ active < MaxConcurrent
  /\ active' = active + 1
  /\ pc' = "prefill"
  /\ UNCHANGED <<req, all, plen, kv, logits, draft, oldLen, reason>>

Finish(why) ==
  /\ reason' = why
  /\ pc' = "release"
  /\ logits' = Dirty
  /\ draft' = <<>>
  /\ oldLen' = 0

\* Scheduler::complete: the slot of the request is free again.
Complete == active' = active - 1

\* Mutant of Release: the slot of the scheduler is kept.
ReleaseNotComplete ==
  /\ pc = "release"
  /\ free' = FreeBlocks(free, table)
  /\ table' = <<>>
  /\ len' = 0
  /\ pc' = "idle"
  /\ UNCHANGED <<req, all, plen, mem, active, logits, draft, oldLen, reason>>

\* Mutant of Release: an exception falls through to the normal end.
ReleaseTwice ==
  /\ pc = "release"
  /\ free' = FreeBlocks(free, table)
  /\ table' = <<>>
  /\ len' = 0
  /\ active' = IF reason \in {"error", "exhausted"} THEN active - 2 ELSE active - 1
  /\ pc' = "idle"
  /\ UNCHANGED <<req, all, plen, mem, logits, draft, oldLen, reason>>

\* Mutant of Release: the catch block forgets the blocks.
ReleaseKeepsBlocks ==
  /\ pc = "release"
  /\ free' = IF reason \in {"error", "exhausted"} THEN free ELSE FreeBlocks(free, table)
  /\ table' = <<>>
  /\ len' = 0
  /\ active' = active - 1
  /\ pc' = "idle"
  /\ UNCHANGED <<req, all, plen, mem, logits, draft, oldLen, reason>>

\* kv.release() and complete(id), after the loop and in the catch block.
Release ==
  /\ pc = "release"
  /\ free' = FreeBlocks(free, table)
  /\ table' = <<>>
  /\ len' = 0
  /\ Complete
  /\ pc' = "idle"
  /\ UNCHANGED <<req, all, plen, mem, logits, draft, oldLen, reason>>

-----------------------------------------------------------------------------
(* Prefill and plain decode *)

\* The probes' CPU path takes argmax tokens and stops by their count alone.
Probing == req.probe

Speculates == req.k > 0 /\ ~Probing

\* The checks on speculative requests come after the prefill.
Prefill ==
  /\ pc = "prefill"
  /\ Forward(all)
  /\ IF Speculates /\ req.sampled
     THEN Finish("error")
     ELSE pc' = "loop" /\ logits' = LastRow /\ UNCHANGED <<draft, oldLen, reason>>
  /\ UNCHANGED <<req, all, plen, active>>

\* forward() throws on no tokens, or for want of blocks.
PrefillThrows ==
  /\ pc = "prefill"
  /\ \/ all = <<>> /\ Finish("error") /\ UNCHANGED kv
     \/ Exhausted(all) /\ Finish("exhausted")
  /\ UNCHANGED <<req, all, plen, active>>

Remaining == req.max - (Len(all) - plen)

LoopDone ==
  /\ pc = "loop"
  /\ Remaining <= 0
  /\ Finish("length")
  /\ UNCHANGED <<req, all, plen, kv, active>>

StopAt(t) == t \in req.stop /\ ~Probing

\* record_token: a stop string or a client gone may end the request here too.
\* More(next) is where run() goes when the token is not the last one.
Record(t, next, more) ==
  /\ all' = Append(all, t)
  /\ \/ Remaining > 1 /\ pc' = next /\ more
     \/ Remaining <= 1 /\ ~Probing /\ Finish("length")
     \/ ~Probing /\ \E why \in {"stop", "cancel"} : Finish(why)
     \/ Remaining <= 1 /\ Probing /\ pc' = next /\ more
  /\ UNCHANGED <<req, plen, active>>

StopToken ==
  /\ pc = "loop"
  /\ ~Speculates
  /\ Remaining > 0
  /\ \E t \in IF req.sampled THEN Token ELSE {Greedy(logits)} : StopAt(t)
  /\ Finish("stop")
  /\ UNCHANGED <<req, all, plen, kv, active>>

Sample ==
  /\ pc = "loop"
  /\ ~Speculates
  /\ Remaining > 0
  /\ \E t \in IF req.sampled THEN Token ELSE {Greedy(logits)} :
       /\ ~StopAt(t)
       /\ Record(t, "decode", UNCHANGED <<logits, draft, oldLen, reason>>)
  /\ UNCHANGED kv

\* forward({next}, kv.length, kv): no check against max_model_len on this path.
Decode ==
  /\ pc = "decode"
  /\ Forward(<<all[Len(all)]>>)
  /\ pc' = "loop"
  /\ logits' = LastRow
  /\ UNCHANGED <<req, all, plen, active, draft, oldLen, reason>>

DecodeThrows ==
  /\ pc = "decode"
  /\ Exhausted(<<all[Len(all)]>>)
  /\ Finish("exhausted")
  /\ UNCHANGED <<req, all, plen, active>>

-----------------------------------------------------------------------------
(* Speculative decode *)

\* The first draft is the model's own next token, the others are the MTP
\* block's, drawn from caches of its own: any tokens.
Drafts == {<<Greedy(logits)>> \o ds : ds \in [1 .. Lesser(req.k, Remaining) - 1 -> Token]}

Group ==
  /\ pc = "loop"
  /\ Speculates
  /\ Remaining > 0
  /\ \E d \in Drafts : Forward(d) /\ draft' = d
  /\ oldLen' = len
  /\ pc' = "verify"
  /\ UNCHANGED <<req, all, plen, active, logits, reason>>

GroupThrows ==
  /\ pc = "loop"
  /\ Speculates
  /\ Remaining > 0
  /\ \E d \in Drafts : Exhausted(d)
  /\ Finish("exhausted")
  /\ UNCHANGED <<req, all, plen, active>>

\* Mutant of Accept: later drafts are compared with the group's first logits.
AcceptFirstLogits ==
  /\ pc = "verify"
  /\ Head(draft) = Greedy(logits)
  /\ IF StopAt(Head(draft))
     THEN Finish("stop") /\ UNCHANGED <<req, all, plen, active>>
     ELSE Record(Head(draft), IF Len(draft) = 1 THEN "loop" ELSE "verify",
                 /\ draft' = Tail(draft)
                 /\ oldLen' = oldLen + 1
                 /\ UNCHANGED <<logits, reason>>)
  /\ UNCHANGED kv

\* The draft is the argmax of the row before it.
Accept ==
  /\ pc = "verify"
  /\ Head(draft) = Greedy(logits)
  /\ IF StopAt(Head(draft))
     THEN Finish("stop") /\ UNCHANGED <<req, all, plen, active>>
     ELSE Record(Head(draft), IF Len(draft) = 1 THEN "loop" ELSE "verify",
                 /\ logits' = Slot(table, mem, oldLen).kv
                 /\ draft' = Tail(draft)
                 /\ oldLen' = oldLen + 1
                 /\ UNCHANGED reason)
  /\ UNCHANGED kv

\* Mutant of Reject: the rejected rows stay in the sequence.
RejectKeepsRows ==
  /\ pc = "verify"
  /\ Head(draft) # Greedy(logits)
  /\ IF StopAt(Greedy(logits))
     THEN Finish("stop") /\ UNCHANGED <<req, all, plen, active, len>>
     ELSE /\ UNCHANGED <<len, req, all, plen, active, logits, oldLen, reason>>
          /\ draft' = <<Greedy(logits)>>
          /\ pc' = "redo"
  /\ UNCHANGED <<table, mem, free>>

\* The draft is wrong: rewind to the accepted rows and run the model's token.
Reject ==
  /\ pc = "verify"
  /\ Head(draft) # Greedy(logits)
  /\ len' = oldLen
  /\ IF StopAt(Greedy(logits))
     THEN Finish("stop") /\ UNCHANGED <<req, all, plen, active>>
     ELSE /\ draft' = <<Greedy(logits)>>
          /\ pc' = "redo"
          /\ UNCHANGED <<req, all, plen, active, logits, oldLen, reason>>
  /\ UNCHANGED <<table, mem, free>>

\* The blocks of the rejected rows are still in the table: this pass cannot fail.
Redo ==
  /\ pc = "redo"
  /\ Forward(draft)
  /\ Record(Head(draft), "loop",
            logits' = LastRow /\ draft' = <<>> /\ oldLen' = 0 /\ UNCHANGED reason)

-----------------------------------------------------------------------------
Work ==
  \/ Admit \/ Prefill \/ PrefillThrows
  \/ LoopDone \/ StopToken \/ Sample \/ Decode \/ DecodeThrows
  \/ Group \/ GroupThrows \/ Accept \/ Reject \/ Redo
  \/ Release

Next == (\E r \in Requests : Begin(r)) \/ Work

Spec == Init /\ [][Next]_vars

\* run() waits only in admit(), for a slot that the last request gave back.
FairSpec == Spec /\ WF_vars(Work)

-----------------------------------------------------------------------------
(* Properties *)

SlotType == [kv : Stream, key : Stream]

TypeOK ==
  /\ pc \in {"idle", "admit", "prefill", "loop", "decode", "verify", "redo", "release"}
  /\ req \in Requests
  /\ all \in Stream
  /\ plen \in Nat
  /\ table \in Seq(Block)
  /\ len \in 0 .. NumBlocks * BlockSize
  /\ mem \in [Block -> [Offset -> SlotType]]
  /\ free \in Seq(Block)
  /\ active \in 0 .. MaxConcurrent
  /\ logits \in Stream
  /\ draft \in Stream
  /\ oldLen \in Nat
  /\ reason \in {"none", "stop", "cancel", "length", "error", "exhausted"}

\* Every block is in the free list or in the sequence, once, whatever way a
\* request ends, a reserve() that failed half-way included
\* (src/kv_cache.cpp:71-91, src/server.cpp:534-540).
BlocksConserved ==
  LET owned == free \o table
  IN Len(owned) = NumBlocks /\ \A b \in Block : \E i \in DOMAIN owned : owned[i] = b

\* A request that began dense has grown to n tokens, of which the last is sparse.
Crossed(n) == plen <= IndexTopk /\ n > IndexTopk

\* The length is that of the tokens run, after a rewind too, and as long as the
\* attention stays on one side of index_topk every pass attends over rows of the
\* request's own stream, with nothing of a rejected draft left among them.
RowsFollowStream ==
  /\ pc = "loop" => len = Len(all)
  /\ pc = "decode" => len = Len(all) - 1
  /\ pc = "verify" => len = oldLen + Len(draft) /\ oldLen = Len(all)
  /\ pc \in {"loop", "decode"} /\ ~Crossed(len) => HoldsKV(table, mem, all, len)
  /\ pc \in {"loop", "verify"} /\ ~Crossed(Len(all)) => logits = all

\* Every token of a greedy request is the model's argmax, speculative or not, up
\* to the first one that a request grown from dense to sparse attention is given.
EmittedGreedy ==
  ~req.sampled =>
    \A i \in plen + 1 .. Len(all) :
      ~Crossed(i - 1) => all[i] = Greedy(SubSeq(all, 1, i - 1))

\* The pool is large enough for what a request may use: one that is refused for
\* want of blocks has outgrown max_model_len (src/server.cpp:224-229).
PoolFitsContext ==
  pc = "release" /\ reason = "exhausted" =>
    Len(all) + (IF Speculates THEN Lesser(req.k, Remaining) ELSE 0) > MaxCtx

\* Every request admitted or waiting comes to an end.
Served == pc # "idle" ~> pc = "idle"

\* A comment of the GPU path says that index keys are written for every position,
\* dense ones too, since the selector of a later, sparse pass reads them
\* (src/model_gpu.cpp:1356-1360); src/server.cpp:563-566 calls the CPU path the
\* oracle the GPU is validated against. Then the selector would read own keys.
SelectorReadsOwnKeys ==
  pc = "decode" /\ len + 1 > IndexTopk => HoldsKeys(table, mem, all, len)

=============================================================================
