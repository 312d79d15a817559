------------------------------ MODULE Pipeline ------------------------------
(***************************************************************************)
(* A forward pass over pipeline stages of tensor-parallel ranks: the split *)
(* of the layers (partition_layers), the hand-over of hidden states and of *)
(* the shared DSA mask between stages, the all-reduces inside a stage, the *)
(* head over vocabulary shards, and the tokens the ranks go on with        *)
(* (src/nccl_comm.cpp, src/model_glm52.cpp, src/model_gpu.cpp,             *)
(* src/server.cpp).                                                        *)
(*                                                                         *)
(* A hidden state is kept as what it was made from: the tokens embedded    *)
(* and, layer by layer, the keys attended to.                              *)
(***************************************************************************)
EXTENDS Integers, Sequences, FiniteSets, FiniteSetsExt

CONSTANTS
  Configs,     \* launches: records [layers, tp, pp, types, keys, mode, form, inter, unit, head]
  Vocab,       \* vocab_size
  Score(_, _), \* logit of a token after a stream
  Tokens,      \* the stream the passes are about
  PromptLen,   \* how many of Tokens the first pass runs
  Topk,        \* index_topk
  Stop         \* stop tokens

Token == 0 .. Vocab - 1

ASSUME ParamAssumption ==
  /\ Vocab \in Nat \ {0}
  /\ Tokens \in Seq(Token)
  /\ PromptLen \in 1 .. Len(Tokens)
  /\ Topk \in Nat \ {0}
  /\ Stop \subseteq Token

\* Logits are compared, and summed with zeros.
ASSUME ScoreAssumption ==
  \A n \in 0 .. Len(Tokens) : \A s \in [1 .. n -> Token] : \A t \in Token : Score(s, t) \in Int

\* types: what indexer_types says of a layer, "none" without such a list;
\* keys: the layers with indexer weights; mode: whether the tokens past the prompt
\* are those of Tokens or run() takes the argmax or draws them. form: how weights are
\* held; inter: a dimension split over the ranks of a stage; unit: elements under one
\* int4 scale or in one GGUF block. Blocks are of 32 elements or more, ranks are fewer.
\* head: lm_head is a quantized tensor of a GGUF checkpoint, the only one that is cut.
ASSUME ConfigAssumption ==
  \A c \in Configs :
    /\ c.layers \in Nat \ {0} /\ c.tp \in Nat \ {0} /\ c.pp \in Nat \ {0}
    /\ c.types \in [0 .. c.layers - 1 -> {"full", "shared", "none"}]
    /\ c.keys \subseteq 0 .. c.layers - 1
    /\ c.mode \in {"given", "greedy", "sampled"}
    /\ c.form \in {"f32", "int4", "gguf"}
    /\ c.inter \in Nat \ {0} /\ c.unit \in Nat \ {0} /\ c.head \in BOOLEAN
    /\ c.form = "gguf" => c.inter % c.unit = 0 /\ c.tp <= c.unit

VARIABLES
  cfg,    \* the launch
  part,   \* the rank's shard of a pair of linears: [rows, bias]
  pc,     \* where a rank is
  toks,   \* the stream a rank runs
  rows,   \* tokens it has run
  layer,  \* local layers done in this pass
  hid,    \* the hidden state: [toks, done]
  mask,   \* the layer whose selection is in dsa_indices
  have,   \* have_shared_dsa_indices
  calls,  \* what the rank has given to the collectives of its stage, in order
  pick    \* the token picked from the logits

vars == <<cfg, part, pc, toks, rows, layer, hid, mask, have, calls, pick>>

\* What a layer attended to, if not the selection of a layer.
Dense == -1
Window == -2
Garbage == -3

-----------------------------------------------------------------------------
(* Ranks and stages *)

Rank == 0 .. cfg.tp * cfg.pp - 1
StageOf(r) == r \div cfg.tp
Stage(r) == {q \in Rank : StageOf(q) = StageOf(r)}
Root(r) == StageOf(r) * cfg.tp
First(r) == StageOf(r) = 0
Last(r) == StageOf(r) = cfg.pp - 1
NextRank(r) == r + cfg.tp

\* Mutant of Per: the remainder of the division is lost.
PerFloor == cfg.layers \div cfg.pp

\* partition_layers: a ceiling split.
Per == (cfg.layers + cfg.pp - 1) \div cfg.pp
Begin(s) == IF cfg.pp <= 1 THEN 0 ELSE s * Per
End(s) == IF cfg.pp <= 1 THEN cfg.layers ELSE Min({cfg.layers, Begin(s) + Per})
Count(r) == End(StageOf(r)) - Begin(StageOf(r))

SharedLayer(l) == l \in DOMAIN cfg.types /\ cfg.types[l] = "shared"

Goto(r, there) == pc' = [pc EXCEPT ![r] = there]

\* A collective is matched by its place in a rank's order of calls. What is given to
\* it is kept where the rest of the pass depends on it.
Enter(r, what) == calls' = [calls EXCEPT ![r] = Append(@, what)]

Met(r) == \A q \in Stage(r) : Len(calls[q]) >= Len(calls[r])

\* What rank q has given to the collective r is in.
Given(q, r) == calls[q][Len(calls[r])]

Sparse(r) == Len(toks[r]) > Topk

NoHidden == [toks |-> <<>>, done |-> <<>>]
NoPart == [rows |-> <<>>, bias |-> FALSE]

Init ==
  /\ cfg \in Configs
  /\ part = [r \in Rank |-> NoPart]
  /\ pc = [r \in Rank |-> "load"]
  /\ toks = [r \in Rank |-> SubSeq(Tokens, 1, PromptLen)]
  /\ rows = [r \in Rank |-> 0]
  /\ layer = [r \in Rank |-> 0]
  /\ hid = [r \in Rank |-> NoHidden]
  /\ mask = [r \in Rank |-> Garbage]
  /\ have = [r \in Rank |-> FALSE]
  /\ calls = [r \in Rank |-> <<>>]
  /\ pick = [r \in Rank |-> 0]

-----------------------------------------------------------------------------
(* Tensor-parallel shards: the first linear of a pair (up, gate, q_b, kv_b) is cut
   by outputs, the second (down, o) by inputs, and the partial sums are reduced *)

TpRank(r) == r % cfg.tp
Slice == cfg.inter \div cfg.tp
From(r) == TpRank(r) * Slice

\* shard_linear_columns wants outputs that divide, shard_linear_columns_q does not ask.
ColumnsFit == cfg.form # "gguf" => cfg.inter % cfg.tp = 0

\* Inputs are cut between groups of scales, or between blocks.
RowsFit(r) ==
  /\ cfg.form # "gguf" => cfg.inter % cfg.tp = 0
  /\ cfg.form # "f32" => From(r) % cfg.unit = 0 /\ Slice % cfg.unit = 0

Fits(r) == cfg.tp = 1 \/ (ColumnsFit /\ RowsFit(r))

\* The group of int4 scales, or the block, an element is in.
Group(i) == IF cfg.form = "f32" THEN 0 ELSE i \div cfg.unit

\* Mutant of Scale: the scales of the first groups are kept for every rank.
ScaleFromZero(r, j) == Group(j)

\* The group whose scale input j of the slice is multiplied with.
Scale(r, j) == Group(From(r)) + Group(j)

\* The element input j of the slice is: nibbles are repacked one by one, blocks are
\* skipped to by the bytes of those before.
Element(r, j) == IF cfg.form = "gguf" THEN Scale(r, j) * cfg.unit + (j % cfg.unit) ELSE From(r) + j

\* What a rank adds up, and whether it adds the bias, if there is one: tp_rank 0 alone.
ShardLayer(r) ==
  [rows |-> [j \in 1 .. Slice |->
               [up |-> From(r) + j - 1, down |-> Element(r, j - 1), scale |-> Scale(r, j - 1)]],
   bias |-> TpRank(r) = 0]

\* layers_ cannot be resized to a negative count and a shard that does not fit is
\* refused: the rank's process ends.
Load(r) ==
  /\ pc[r] = "load"
  /\ IF Count(r) < 0 \/ (Count(r) > 0 /\ ~Fits(r))
     THEN Goto(r, "dead") /\ UNCHANGED part
     ELSE /\ part' = [part EXCEPT ![r] = IF Count(r) > 0 THEN ShardLayer(r) ELSE NoPart]
          /\ Goto(r, "begin")
  /\ UNCHANGED <<cfg, toks, rows, layer, hid, mask, have, calls, pick>>

-----------------------------------------------------------------------------
(* One pass *)

\* The first stage embeds, a later one waits for its input.
StartPass(r) ==
  /\ pc[r] = "begin"
  /\ layer' = [layer EXCEPT ![r] = 0]
  /\ have' = [have EXCEPT ![r] = FALSE]
  /\ IF First(r)
     THEN hid' = [hid EXCEPT ![r] = [toks |-> toks[r], done |-> <<>>]] /\ Goto(r, "layer")
     ELSE Goto(r, "recv") /\ UNCHANGED hid
  /\ UNCHANGED <<cfg, part, toks, rows, mask, calls, pick>>

\* Mutant of ReceivesMask: the receiver goes by its first layer alone.
ReceivesMaskDense(r) == SharedLayer(Begin(StageOf(r)))

ReceivesMask(r) == Sparse(r) /\ SharedLayer(Begin(StageOf(r)))

\* Mutant of SendsMask: the sender looks at its own last layer.
SendsMaskOwn(r) == Sparse(r) /\ have[r] /\ SharedLayer(Begin(StageOf(r)) + Count(r) - 1)

SendsMask(r) == Sparse(r) /\ have[r] /\ SharedLayer(Begin(StageOf(r)) + Count(r))

\* A send returns with the receive it is matched with, by order alone: a hidden
\* state and a mask that meet leave garbage.
Transfer(r) ==
  LET q == NextRank(r)
  IN /\ q \in Rank
     /\ pc[r] \in {"send", "sendmask"}
     /\ pc[q] \in {"recv", "recvmask"}
     /\ pc' = [pc EXCEPT
          ![r] = IF pc[r] = "send" /\ SendsMask(r) THEN "sendmask" ELSE "sample",
          ![q] = IF pc[q] = "recv" /\ ReceivesMask(q) THEN "recvmask" ELSE "layer"]
     /\ IF pc[q] = "recv"
        THEN /\ hid' = [hid EXCEPT ![q] = IF pc[r] = "send" THEN hid[r] ELSE NoHidden]
             /\ UNCHANGED <<mask, have>>
        ELSE /\ mask' = [mask EXCEPT ![q] = IF pc[r] = "sendmask" THEN mask[r] ELSE Garbage]
             /\ have' = [have EXCEPT ![q] = TRUE]
             /\ UNCHANGED hid
     /\ UNCHANGED <<cfg, part, toks, rows, layer, calls, pick>>

\* The keys layer l attends to: its own selection, the shared one, or a window.
Selection(r, l) ==
  IF ~Sparse(r) THEN Dense
  ELSE IF l \in cfg.keys THEN l ELSE IF have[r] THEN mask[r] ELSE Window

\* Attention of the next layer, up to its all-reduce.
Attention(r) ==
  LET l == Begin(StageOf(r)) + layer[r]
      selects == Sparse(r) /\ l \in cfg.keys
  IN /\ pc[r] = "layer"
     /\ layer[r] < Count(r)
     /\ hid' = [hid EXCEPT ![r].done = Append(@, Selection(r, l))]
     /\ mask' = [mask EXCEPT ![r] = IF selects THEN l ELSE @]
     /\ have' = [have EXCEPT ![r] = selects \/ @]
     /\ Enter(r, <<>>)
     /\ Goto(r, "mlp")
     /\ UNCHANGED <<cfg, part, toks, rows, layer, pick>>

Mlp(r) ==
  /\ pc[r] = "mlp"
  /\ Met(r)
  /\ Enter(r, <<>>)
  /\ Goto(r, "add")
  /\ UNCHANGED <<cfg, part, toks, rows, layer, hid, mask, have, pick>>

\* Mutant of LayerDone: layers and collectives are counted alike.
LayerDoneTwice(r) ==
  /\ pc[r] = "add"
  /\ Met(r)
  /\ layer' = [layer EXCEPT ![r] = @ + 2]
  /\ Goto(r, "layer")
  /\ UNCHANGED <<cfg, part, toks, rows, hid, mask, have, calls, pick>>

LayerDone(r) ==
  /\ pc[r] = "add"
  /\ Met(r)
  /\ layer' = [layer EXCEPT ![r] = @ + 1]
  /\ Goto(r, "layer")
  /\ UNCHANGED <<cfg, part, toks, rows, hid, mask, have, calls, pick>>

StackDone(r) ==
  /\ pc[r] = "layer"
  /\ layer[r] = Count(r)
  /\ rows' = [rows EXCEPT ![r] = Len(toks[r])]
  /\ Goto(r, IF Last(r) THEN "head" ELSE "send")
  /\ UNCHANGED <<cfg, part, toks, layer, hid, mask, have, calls, pick>>

-----------------------------------------------------------------------------
(* The head of the last stage *)

\* The first largest of the values v.
FirstMax(v) ==
  CHOOSE t \in DOMAIN v : \A u \in DOMAIN v : v[t] > v[u] \/ (v[t] = v[u] /\ t <= u)

Sharded == cfg.head /\ cfg.tp > 1 /\ Vocab % cfg.tp = 0

\* The shard of the w-th rank of the stage.
Width == Vocab \div cfg.tp
Shard(w) == w * Width .. (w + 1) * Width - 1

Shards == 0 .. cfg.tp - 1

\* The logit the w-th rank of r's stage computes.
Logit(r, w, t) == Score(Given(Root(r) + w, r), t)

\* finish_logits: slices of zeroed buffers are summed, the sampler takes the
\* first largest.
FromLogits(r) ==
  LET slice(w, t) == IF t \in Shard(w) THEN Logit(r, w, t) ELSE 0
  IN FirstMax([t \in Token |-> MapThenSumSet(LAMBDA w : slice(w, t), Shards)])

\* Mutant of FromPairs: the last of equal winners is taken.
FromPairsLast(r) ==
  LET win(w) == FirstMax([t \in Shard(w) |-> Logit(r, w, t)])
      val(w) == Logit(r, w, win(w))
  IN win(CHOOSE w \in Shards : \A x \in Shards : val(w) > val(x) \/ (val(w) = val(x) /\ w >= x))

\* lm_head_greedy_rows: the shards' winners are gathered, the largest value wins
\* and among equals the smallest token.
FromPairs(r) ==
  LET win(w) == FirstMax([t \in Shard(w) |-> Logit(r, w, t)])
      val(w) == Logit(r, w, win(w))
  IN win(CHOOSE w \in Shards : \A x \in Shards :
           val(w) > val(x) \/ (val(w) = val(x) /\ win(w) <= win(x)))

LmHead(r) ==
  /\ pc[r] = "head"
  /\ IF Sharded
     THEN Enter(r, hid[r].toks) /\ Goto(r, "combine") /\ UNCHANGED pick
     ELSE /\ pick' = [pick EXCEPT ![r] = FirstMax([t \in Token |-> Score(hid[r].toks, t)])]
          /\ Goto(r, "sample")
          /\ UNCHANGED calls
  /\ UNCHANGED <<cfg, part, toks, rows, layer, hid, mask, have>>

\* Rows of a verify chunk, on one stage only, go by the winners of the shards.
Combine(r) ==
  /\ pc[r] = "combine"
  /\ Met(r)
  /\ \/ pick' = [pick EXCEPT ![r] = FromLogits(r)]
     \/ cfg.pp = 1 /\ pick' = [pick EXCEPT ![r] = FromPairs(r)]
  /\ Goto(r, "sample")
  /\ UNCHANGED <<cfg, part, toks, rows, layer, hid, mask, have, calls>>

-----------------------------------------------------------------------------
(* The next pass *)

\* The passes run tokens that every rank was given.
NextGiven(r) ==
  /\ pc[r] = "sample"
  /\ cfg.mode = "given"
  /\ IF Len(toks[r]) < Len(Tokens)
     THEN /\ toks' = [toks EXCEPT ![r] = Append(@, Tokens[Len(@) + 1])]
          /\ Goto(r, "begin")
     ELSE Goto(r, "end") /\ UNCHANGED toks
  /\ UNCHANGED <<cfg, part, rows, layer, hid, mask, have, calls, pick>>

\* run(): the sampler makes token 0 of no logits at all; then the broadcast.
Sample(r) ==
  /\ pc[r] = "sample"
  /\ cfg.mode # "given"
  /\ \E t \in IF ~Last(r) THEN {0} ELSE IF cfg.mode = "greedy" THEN {pick[r]} ELSE Token :
       pick' = [pick EXCEPT ![r] = t] /\ Enter(r, <<t>>)
  /\ Goto(r, "bcast")
  /\ UNCHANGED <<cfg, part, toks, rows, layer, hid, mask, have>>

\* Mutant of Broadcast: no broadcast.
BroadcastNot(r) == pick[r]

Broadcast(r) == Head(Given(Root(r), r))

\* bcast_int reaches the ranks of the stage. Stop, record, go on or not.
Bcast(r) ==
  LET next == Broadcast(r)
  IN /\ pc[r] = "bcast"
     /\ Met(r)
     /\ IF next \in Stop
        THEN Goto(r, "end") /\ UNCHANGED toks
        ELSE /\ toks' = [toks EXCEPT ![r] = Append(@, next)]
             /\ Goto(r, IF Len(toks[r]) + 1 < Len(Tokens) THEN "begin" ELSE "end")
     /\ UNCHANGED <<cfg, part, rows, layer, hid, mask, have, calls, pick>>

Step(r) ==
  \/ Load(r) \/ StartPass(r) \/ Transfer(r)
  \/ Attention(r) \/ Mlp(r) \/ LayerDone(r) \/ StackDone(r)
  \/ LmHead(r) \/ Combine(r)
  \/ NextGiven(r) \/ Sample(r) \/ Bcast(r)

Next == \E r \in Rank : Step(r)

Spec == Init /\ [][Next]_vars

\* A collective or a pair of send and receive that all sides are in returns.
FairSpec == Spec /\ \A r \in 0 .. Max({c.tp * c.pp : c \in Configs}) - 1 : WF_vars(r \in Rank /\ Step(r))

-----------------------------------------------------------------------------
(* Properties *)

\* Every shared layer has a layer with an indexer before it and full layers are
\* those with an indexer; without a list every layer has one.
Complete ==
  \A l \in DOMAIN cfg.types :
    /\ l \in cfg.keys <=> cfg.types[l] \in {"full", "none"}
    /\ cfg.types[l] = "shared" => \E k \in cfg.keys : k < l

\* All stages run one stream: stages that generate do not (DecodesSameSequence).
OneStream == cfg.mode = "given" \/ cfg.pp = 1

\* No stage is given a negative number of layers, no shard is refused.
Splits == \A r \in Rank : Count(r) >= 0 /\ Fits(r)

TypeOK ==
  /\ cfg \in Configs
  /\ part \in [Rank -> [rows : Seq([up : Nat, down : Nat, scale : Nat]), bias : BOOLEAN]]
  /\ pc \in [Rank -> {"load", "dead", "begin", "recv", "recvmask", "layer", "mlp", "add",
                      "send", "sendmask", "head", "combine", "sample", "bcast", "end"}]
  /\ toks \in [Rank -> Seq(Token)]
  /\ rows \in [Rank -> 0 .. Len(Tokens)]
  /\ layer \in [Rank -> Nat]
  /\ \A r \in Rank : layer[r] <= Max({0, Count(r)})
  /\ hid \in [Rank -> [toks : Seq(Token), done : Seq(-3 .. cfg.layers - 1)]]
  /\ mask \in [Rank -> {Garbage} \cup 0 .. cfg.layers - 1]
  /\ have \in [Rank -> BOOLEAN]
  /\ calls \in [Rank -> Seq(Seq(Token))]
  /\ pick \in [Rank -> Token]

\* A hidden state never meets a receive for a mask, nor a mask one for a hidden state.
HopsAgree ==
  \A r \in Rank :
    LET q == NextRank(r)
    IN q \in Rank /\ pc[r] \in {"send", "sendmask"} /\ pc[q] \in {"recv", "recvmask"} =>
         (pc[r] = "send" <=> pc[q] = "recv")

\* Sender and receiver of a hop, which decide on their own whether a mask follows
\* the hidden state, agree on it in every pass, dense or sparse, when the checkpoint
\* has the indexers its types speak of (src/model_gpu.cpp:1821-1839).
TransfersMatch == Complete => HopsAgree

\* What layer l attends to in a run on a single stage.
Serial(l, sparse) ==
  LET before == {k \in cfg.keys : k <= l}
  IN IF ~sparse THEN Dense ELSE IF before = {} THEN Window ELSE Max(before)

\* Every product of a pair of linears is in the sum of r's stage exactly once, with
\* its own scale, and so is the bias.
SumsWhole(r) ==
  /\ \A i \in 0 .. cfg.inter - 1 :
       LET whole == [up |-> i, down |-> i, scale |-> Group(i)]
       IN Cardinality({x \in Stage(r) \X (1 .. Slice) : part[x[1]].rows[x[2]] = whole}) = 1
  /\ Cardinality({q \in Stage(r) : part[q].bias}) = 1

\* The head is given a hidden state of this pass that went through every layer
\* once and in order, each layer having summed whole linears over the shards of its
\* stage and attended to what it attends to when one process runs them all
\* (tests/test_pp_forward.cpp, tests/test_tp_forward.cpp compare one prompt).
AttendsAsSerial ==
  Complete /\ OneStream =>
    \A r \in Rank : pc[r] = "head" =>
      /\ \A q \in Rank : Count(q) > 0 => SumsWhole(q)
      /\ hid[r].toks = toks[r]
      /\ hid[r].done = [i \in 1 .. cfg.layers |-> Serial(i - 1, Sparse(r))]

\* Every rank of the last stage takes the first largest logit over the whole
\* vocabulary, however the shards' results are combined (src/model_gpu.cpp:1601-1606).
HeadsAgree ==
  Complete /\ OneStream =>
    \A r \in Rank : Last(r) /\ pc[r] = "sample" =>
      pick[r] = FirstMax([t \in Token |-> Score(SubSeq(toks[r], 1, rows[r]), t)])

\* The ranks of a stage decode one sequence, drawn at random or not: their
\* all-reduces are over the same rows (src/server.cpp:507-511).
StageInLockstep ==
  \A r \in Rank : \A q \in Stage(r) :
    \A i \in DOMAIN toks[r] \cap DOMAIN toks[q] : toks[r][i] = toks[q][i]

\* The passes come to an end on every rank, whatever order the stages run in.
PassesEnd ==
  Complete /\ Splits /\ OneStream =>
    <>(\A r \in Rank : pc[r] = "end")

\* A comment in run() says the sampled token is broadcast so that every rank
\* decodes the same sequence (src/server.cpp:507-511).
DecodesSameSequence ==
  \A r, q \in Rank : \A i \in DOMAIN toks[r] \cap DOMAIN toks[q] : toks[r][i] = toks[q][i]

=============================================================================
