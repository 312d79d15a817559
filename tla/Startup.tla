------------------------------- MODULE Startup -------------------------------
(***************************************************************************)
(* The ranks of a tensor-parallel launch, from the rendezvous to the first *)
(* all-reduce of the first forward pass: the communicator and its          *)
(* collectives (src/nccl_comm.cpp), loading a GGUF checkpoint in turns     *)
(* (src/server.cpp, src/model_glm52.cpp), the upload with its packing      *)
(* workers, prefetch thread and eviction (src/model_gpu.cpp), and the vote *)
(* on the peer-to-peer all-reduce (init_custom_ar, src/cuda/custom_ar.cu). *)
(*                                                                         *)
(* A rank is a process; all share one node's page cache, kept here by      *)
(* layers.  Weights are modelled by the layer they belong to.  Any rank    *)
(* may die of an exception; nothing in the program restarts it.            *)
(***************************************************************************)
EXTENDS Integers, Sequences, FiniteSets

CONSTANTS
  N,         \* world_size: ranks 0 .. N - 1
  L,         \* layers
  Rows,      \* rows of a layer's matrix in the staging buffer
  Threads,   \* upload_pack_threads
  Ahead,     \* GLMSERVE_UPLOAD_PREFETCH, 0 for no prefetch thread
  EvictLag,  \* GLMSERVE_EVICT_LAG, negative for no eviction
  Serial,    \* GLMSERVE_SERIAL_GGUF_LOAD
  Prefault   \* unless GLMSERVE_NO_PREFAULT

ASSUME ParamAssumption ==
  /\ N \in Nat /\ N >= 2
  /\ L \in Nat \ {0}
  /\ Rows \in Nat \ {0}
  /\ Threads \in Nat \ {0}
  /\ Ahead \in Nat
  /\ EvictLag \in Int
  /\ Serial \in BOOLEAN
  /\ Prefault \in BOOLEAN

Rank == 0 .. N - 1
Layer == 0 .. L - 1
Worker == 0 .. Threads - 1
NoLayer == -1

VARIABLES
  file,      \* the rendezvous file
  id,        \* the ncclUniqueId a rank has
  pc,        \* where the rank is
  turn,      \* whose turn it is to load, as the rank counts
  coll,      \* the collectives the rank has entered, in order
  read,      \* has the rank prefaulted its stripe of the checkpoint?
  cache,     \* layers in the page cache
  up,        \* layers uploaded: pf_uploaded
  stage,     \* what each row of the staging buffer was packed from
  packed,    \* packing workers that are done
  device,    \* the rows copied to the device, by layer
  pf,        \* next layer of the prefetch thread
  pfOn,      \* the prefetch thread: "off", "run" or "done"
  stop,      \* pf_stop
  created,   \* has the rank a staging allocation for peers?
  opened,    \* peers whose staging allocation the rank has mapped
  mode       \* car_state: "unset", "nccl" or "custom"

vars == <<file, id, pc, turn, coll, read, cache, up, stage, packed, device, pf, pfOn,
          stop, created, opened, mode>>

meeting == <<file, id>>
loading == <<turn, read>>
upload == <<up, stage, packed, device>>
thread == <<pf, pfOn, stop>>
peers == <<created, opened, mode>>

Init ==
  /\ file \in {"absent", "stale"}
  /\ id = [r \in Rank |-> "none"]
  /\ pc = [r \in Rank |-> "config"]
  /\ turn = [r \in Rank |-> 0]
  /\ coll = [r \in Rank |-> <<>>]
  /\ read = [r \in Rank |-> FALSE]
  /\ cache \in {{}, Layer}
  /\ up = [r \in Rank |-> 0]
  /\ stage = [r \in Rank |-> [i \in 0 .. Rows - 1 |-> NoLayer]]
  /\ packed = [r \in Rank |-> {}]
  /\ device = [r \in Rank |-> [l \in Layer |-> {}]]
  /\ pf = [r \in Rank |-> 0]
  /\ pfOn = [r \in Rank |-> "off"]
  /\ stop = [r \in Rank |-> FALSE]
  /\ created = [r \in Rank |-> FALSE]
  /\ opened = [r \in Rank |-> {}]
  /\ mode = [r \in Rank |-> "unset"]

Goto(r, there) == pc' = [pc EXCEPT ![r] = there]

\* The n-th collective of a rank meets the n-th of every other rank.
Enter(r, kind) == coll' = [coll EXCEPT ![r] = Append(@, kind)]

\* Mutant of Met: a rank does not wait in a collective.
MetAtOnce(r) == TRUE

Met(r) == \A q \in Rank : Len(coll[q]) >= Len(coll[r])

-----------------------------------------------------------------------------
(* Rendezvous *)

\* Before it meets the others each rank reads the architecture from the
\* checkpoint: it parses the tensor directories, all ranks at once.
Configure(r) ==
  /\ pc[r] = "config"
  /\ Goto(r, "meet")
  /\ UNCHANGED <<meeting, loading, coll, cache, upload, thread, peers>>

\* Rank 0 truncates the file as it opens it ...
Truncate ==
  /\ pc[0] = "meet"
  /\ file' = "empty"
  /\ Goto(0, "write")
  /\ UNCHANGED <<id, loading, coll, cache, upload, thread, peers>>

\* ... and the id is there when it closes it.
Write ==
  /\ pc[0] = "write"
  /\ file' = "new"
  /\ id' = [id EXCEPT ![0] = "new"]
  /\ Goto(0, "join")
  /\ UNCHANGED <<loading, coll, cache, upload, thread, peers>>

\* The others poll for a file with a line that parses, of this launch or not.
Read(r) ==
  /\ pc[r] = "meet"
  /\ r # 0
  /\ file \in {"stale", "new"}
  /\ id' = [id EXCEPT ![r] = file]
  /\ Goto(r, "join")
  /\ UNCHANGED <<file, loading, coll, cache, upload, thread, peers>>

PollTimeout(r) ==
  /\ pc[r] = "meet"
  /\ r # 0
  /\ file \in {"absent", "empty"}
  /\ Goto(r, "dead")
  /\ UNCHANGED <<meeting, loading, coll, cache, upload, thread, peers>>

\* ncclCommInitRank returns when every rank has come with the same id.
Join(r) ==
  /\ pc[r] = "join"
  /\ \A q \in Rank : id[q] = id[r]
  /\ Goto(r, IF Serial THEN "turn" ELSE "parse")
  /\ UNCHANGED <<meeting, loading, coll, cache, upload, thread, peers>>

-----------------------------------------------------------------------------
(* Loading: one rank at a time, each turn closed by a barrier *)

Loaded(r) == turn[r] = N

Turn(r) ==
  /\ pc[r] = "turn"
  /\ turn[r] = r
  /\ Goto(r, "parse")
  /\ UNCHANGED <<meeting, loading, coll, cache, upload, thread, peers>>

OtherTurn(r) ==
  /\ pc[r] = "turn"
  /\ ~Loaded(r)
  /\ turn[r] # r
  /\ Enter(r, "barrier")
  /\ Goto(r, "endturn")
  /\ UNCHANGED <<meeting, loading, cache, upload, thread, peers>>

\* The tensor directories are parsed; the payloads are not touched.
Parse(r) ==
  /\ pc[r] = "parse"
  /\ Goto(r, IF Prefault THEN "prefault" ELSE "build")
  /\ UNCHANGED <<meeting, loading, coll, cache, upload, thread, peers>>

\* load_gguf reads every N-th chunk, then meets the other ranks in a barrier.
PrefaultStripe(r) ==
  /\ pc[r] = "prefault"
  /\ read' = [read EXCEPT ![r] = TRUE]
  /\ cache' = cache \cup {l \in Layer : l % N = r}
  /\ Enter(r, "barrier")
  /\ Goto(r, "prefaulted")
  /\ UNCHANGED <<meeting, turn, upload, thread, peers>>

Prefaulted(r) ==
  /\ pc[r] = "prefaulted"
  /\ Met(r)
  /\ Goto(r, "build")
  /\ UNCHANGED <<meeting, loading, coll, cache, upload, thread, peers>>

\* Mutant of Build: the rank whose turn it was does not close it.
BuildNoBarrier(r) ==
  /\ pc[r] = "build"
  /\ IF Serial
     THEN Goto(r, "turn") /\ turn' = [turn EXCEPT ![r] = @ + 1]
     ELSE Goto(r, "begin") /\ UNCHANGED turn
  /\ UNCHANGED <<meeting, coll, read, cache, upload, thread, peers>>

\* The rest of load_gguf reads scattered parts of the payloads.
Build(r) ==
  /\ pc[r] = "build"
  /\ IF Serial
     THEN Enter(r, "barrier") /\ Goto(r, "endturn")
     ELSE Goto(r, "begin") /\ UNCHANGED coll
  /\ UNCHANGED <<meeting, loading, cache, upload, thread, peers>>

EndTurn(r) ==
  /\ pc[r] = "endturn"
  /\ Met(r)
  /\ turn' = [turn EXCEPT ![r] = @ + 1]
  /\ Goto(r, IF turn[r] + 1 = N THEN "begin" ELSE "turn")
  /\ UNCHANGED <<meeting, coll, read, cache, upload, thread, peers>>

-----------------------------------------------------------------------------
(* Upload *)

\* evict_all drops every shard from the page cache all ranks share.
ColdDrop == IF EvictLag >= 0 THEN {} ELSE cache

\* The cold drop, then embeddings and head, then the prefetch thread starts.
BeginUpload(r) ==
  /\ pc[r] = "begin"
  /\ cache' = ColdDrop
  /\ pfOn' = [pfOn EXCEPT ![r] = IF Ahead > 0 THEN "run" ELSE "off"]
  /\ Goto(r, "pack")
  /\ UNCHANGED <<meeting, loading, coll, upload, pf, stop, peers>>

\* Mutant of Share: the remainder of the division is packed by nobody.
ShareFloor(w) == (w * (Rows \div Threads)) .. (w + 1) * (Rows \div Threads) - 1

\* Rows that worker w packs.
Share(w) == (Rows * w) \div Threads .. (Rows * (w + 1)) \div Threads - 1

\* A worker copies its share of the layer from the mapping to the staging buffer.
Pack(r, w) ==
  /\ pc[r] = "pack"
  /\ w \notin packed[r]
  /\ packed' = [packed EXCEPT ![r] = @ \cup {w}]
  /\ stage' = [stage EXCEPT ![r] =
                 [i \in 0 .. Rows - 1 |-> IF i \in Share(w) THEN up[r] ELSE @[i]]]
  /\ cache' = cache \cup {up[r]}
  /\ UNCHANGED <<meeting, pc, loading, coll, up, device, thread, peers>>

\* The workers are joined, one bulk copy is made, and the rank meets the others.
CopyLayer(r) ==
  /\ pc[r] = "pack"
  /\ packed[r] = Worker
  /\ device' = [device EXCEPT ![r][up[r]] = {stage[r][i] : i \in 0 .. Rows - 1}]
  /\ packed' = [packed EXCEPT ![r] = {}]
  /\ up' = [up EXCEPT ![r] = @ + 1]
  /\ Enter(r, "barrier")
  /\ Goto(r, "uploaded")
  /\ UNCHANGED <<meeting, loading, cache, stage, thread, peers>>

\* Mutant of Evicted: the lag is counted from the other side.
EvictedAhead(r) ==
  IF EvictLag >= 0 /\ up[r] - 1 >= EvictLag THEN {up[r] - 1 + EvictLag} ELSE {}

\* The layer that leaves the window.
Evicted(r) ==
  IF EvictLag >= 0 /\ up[r] - 1 >= EvictLag THEN {up[r] - 1 - EvictLag} ELSE {}

\* Mutant of NextLayer: one layer too many.
NextLayerPastEnd(r) ==
  /\ pc[r] = "uploaded"
  /\ Met(r)
  /\ cache' = cache \ Evicted(r)
  /\ Goto(r, IF up[r] > L THEN "alloc" ELSE "pack")
  /\ UNCHANGED <<meeting, loading, coll, upload, thread, peers>>

\* Between two layers: the barrier, then this rank's part of the eviction.
NextLayer(r) ==
  /\ pc[r] = "uploaded"
  /\ Met(r)
  /\ cache' = cache \ Evicted(r)
  /\ Goto(r, IF up[r] = L THEN "alloc" ELSE "pack")
  /\ UNCHANGED <<meeting, loading, coll, upload, thread, peers>>

\* Mutant of Touch: the thread does not pace itself.
TouchUnpaced(r) ==
  /\ pfOn[r] = "run"
  /\ ~stop[r]
  /\ pf[r] < L
  /\ cache' = cache \cup {pf[r]}
  /\ pf' = [pf EXCEPT ![r] = @ + 1]
  /\ UNCHANGED <<meeting, pc, loading, coll, upload, pfOn, stop, peers>>

\* The prefetch thread touches the next layer, at most Ahead past the upload.
Touch(r) ==
  /\ pfOn[r] = "run"
  /\ ~stop[r]
  /\ pf[r] < L
  /\ pf[r] <= up[r] + Ahead
  /\ cache' = cache \cup {pf[r]}
  /\ pf' = [pf EXCEPT ![r] = @ + 1]
  /\ UNCHANGED <<meeting, pc, loading, coll, upload, pfOn, stop, peers>>

ThreadEnds(r) ==
  /\ pfOn[r] = "run"
  /\ stop[r] \/ pf[r] = L
  /\ pfOn' = [pfOn EXCEPT ![r] = "done"]
  /\ UNCHANGED <<meeting, pc, loading, coll, cache, upload, pf, stop, peers>>

\* The caches and the MTP block; then PfJoin stops the thread ...
Alloc(r) ==
  /\ pc[r] = "alloc"
  /\ stop' = [stop EXCEPT ![r] = TRUE]
  /\ Goto(r, "joining")
  /\ UNCHANGED <<meeting, loading, coll, cache, upload, pf, pfOn, peers>>

\* ... and waits for it, on the way out of the upload or of an exception.
JoinThread(r) ==
  /\ pc[r] \in {"joining", "unwind"}
  /\ pfOn[r] # "run"
  /\ Goto(r, IF pc[r] = "unwind" THEN "dead" ELSE "reduce")
  /\ UNCHANGED <<meeting, loading, coll, cache, upload, thread, peers>>

-----------------------------------------------------------------------------
(* The first all-reduce of the first pass decides how all-reduces are done *)

\* custom_ar_create, which may fail; the rank takes part in the exchange anyhow.
Create(r) ==
  /\ pc[r] = "reduce"
  /\ created' \in {created, [created EXCEPT ![r] = TRUE]}
  /\ Enter(r, "gather")
  /\ Goto(r, "gathered")
  /\ UNCHANGED <<meeting, loading, cache, upload, thread, opened, mode>>

Others(r) == Rank \ {r}

\* Mutant of Vote: a rank whose allocation failed does not vote.
VoteIfCreated(r) ==
  /\ pc[r] = "gathered"
  /\ Met(r)
  /\ opened' = [opened EXCEPT ![r] =
                   IF created[r] THEN {q \in Others(r) : created[q]} ELSE {}]
  /\ IF created[r] THEN Enter(r, "vote") /\ Goto(r, "voted") /\ UNCHANGED mode
     ELSE /\ mode' = [mode EXCEPT ![r] = "nccl"]
          /\ Enter(r, "nccl")
          /\ Goto(r, "serve")
  /\ UNCHANGED <<meeting, loading, cache, upload, thread, created>>

\* custom_ar_open maps the peers in turn until one fails: one without an
\* allocation always does. Then all ranks vote.
Vote(r) ==
  /\ pc[r] = "gathered"
  /\ Met(r)
  /\ \E n \in 0 .. N - 1 :
       LET mapped == {q \in Others(r) : q < n}
       IN /\ \A q \in mapped : created[q]
          /\ ~created[r] => n = 0
          /\ opened' = [opened EXCEPT ![r] = mapped]
  /\ Enter(r, "vote")
  /\ Goto(r, "voted")
  /\ UNCHANGED <<meeting, loading, cache, upload, thread, created, mode>>

Ok(r) == created[r] /\ opened[r] = Others(r)

\* Mutant of Decide: a rank goes by its own vote.
DecideAlone(r) ==
  /\ pc[r] = "voted"
  /\ Met(r)
  /\ LET all == Ok(r)
     IN /\ mode' = [mode EXCEPT ![r] = IF all THEN "custom" ELSE "nccl"]
        /\ created' = [created EXCEPT ![r] = all]
        /\ opened' = [opened EXCEPT ![r] = IF all THEN @ ELSE {}]
        /\ Enter(r, IF all THEN "custom" ELSE "nccl")
  /\ Goto(r, "serve")
  /\ UNCHANGED <<meeting, loading, cache, upload, thread>>

\* The outcome of the vote for all ranks: the minimum of what they said.
Elected == \A q \in Rank : Ok(q) \/ mode[q] = "custom"

\* The minimum of the votes decides; a rank that loses frees its memory. Then
\* the all-reduce itself is done.
Decide(r) ==
  /\ pc[r] = "voted"
  /\ Met(r)
  /\ LET all == Elected
     IN /\ mode' = [mode EXCEPT ![r] = IF all THEN "custom" ELSE "nccl"]
        /\ created' = [created EXCEPT ![r] = all]
        /\ opened' = [opened EXCEPT ![r] = IF all THEN @ ELSE {}]
        /\ Enter(r, IF all THEN "custom" ELSE "nccl")
  /\ Goto(r, "serve")
  /\ UNCHANGED <<meeting, loading, cache, upload, thread>>

-----------------------------------------------------------------------------
\* A GLM_CHECK, a device or a communicator error ends the rank's process.
Die(r) ==
  /\ pc[r] \in {"config", "parse", "prefault", "build", "begin", "pack", "alloc", "reduce"}
  /\ IF pfOn[r] = "run"
     THEN Goto(r, "unwind") /\ stop' = [stop EXCEPT ![r] = TRUE]
     ELSE Goto(r, "dead") /\ UNCHANGED stop
  /\ UNCHANGED <<meeting, loading, coll, cache, upload, pf, pfOn, peers>>

Step(r) ==
  \/ r = 0 /\ (Truncate \/ Write)
  \/ Configure(r) \/ Read(r) \/ Join(r)
  \/ Turn(r) \/ OtherTurn(r) \/ Parse(r) \/ PrefaultStripe(r) \/ Prefaulted(r)
  \/ Build(r) \/ EndTurn(r)
  \/ BeginUpload(r) \/ CopyLayer(r) \/ NextLayer(r) \/ Alloc(r) \/ JoinThread(r)
  \/ Create(r) \/ Vote(r) \/ Decide(r)

Prefetch(r) == Touch(r) \/ ThreadEnds(r)

Next ==
  \E r \in Rank :
    \/ Step(r)
    \/ \E w \in Worker : Pack(r, w)
    \/ Prefetch(r)
    \/ PollTimeout(r)
    \/ Die(r)

Spec == Init /\ [][Next]_vars

\* Threads are scheduled and collectives return when all ranks are in them;
\* timeouts and errors may happen but need not.
FairSpec ==
  /\ Spec
  /\ \A r \in Rank :
       /\ WF_vars(Step(r))
       /\ WF_vars(Prefetch(r))
       /\ \A w \in Worker : WF_vars(Pack(r, w))

-----------------------------------------------------------------------------
(* Properties *)

TypeOK ==
  /\ file \in {"absent", "stale", "empty", "new"}
  /\ id \in [Rank -> {"none", "stale", "new"}]
  /\ pc \in [Rank -> {"config", "meet", "write", "join", "turn", "parse", "prefault",
                      "prefaulted", "build", "endturn", "begin", "pack", "uploaded",
                      "alloc", "joining", "unwind", "reduce", "gathered", "voted", "serve", "dead"}]
  /\ turn \in [Rank -> 0 .. N]
  /\ coll \in [Rank -> Seq({"barrier", "gather", "vote", "nccl", "custom"})]
  /\ read \in [Rank -> BOOLEAN]
  /\ cache \subseteq Layer
  /\ up \in [Rank -> 0 .. L]
  /\ stage \in [Rank -> [0 .. Rows - 1 -> Layer \cup {NoLayer}]]
  /\ packed \in [Rank -> SUBSET Worker]
  /\ device \in [Rank -> [Layer -> SUBSET (Layer \cup {NoLayer})]]
  /\ pf \in [Rank -> 0 .. L]
  /\ pfOn \in [Rank -> {"off", "run", "done"}]
  /\ stop \in [Rank -> BOOLEAN]
  /\ created \in [Rank -> BOOLEAN]
  /\ opened \in [Rank -> SUBSET Rank]
  /\ mode \in [Rank -> {"unset", "nccl", "custom"}]

\* The n-th collective of two ranks is the same operation, in the turns of the
\* load, the upload and the handshake, whichever rank's staging memory fails:
\* NCCL matches calls by their order only (src/nccl_comm.cpp:240-268).
CollectivesMatch ==
  \A r, q \in Rank : \A n \in DOMAIN coll[r] \cap DOMAIN coll[q] : coll[r][n] = coll[q][n]

\* With serial loading two ranks are never in load_gguf's parse of the tensor
\* directories at once, although load_gguf has a barrier of its own inside a turn
\* (src/server.cpp:192-206). The parse in Configure is outside the turns.
OneRankParses ==
  Serial => \A r, q \in Rank : pc[r] = "parse" /\ pc[q] = "parse" => r = q

\* A layer is dropped from the page cache the ranks share only when every rank
\* has uploaded it; the cold drop before the upload aside (src/model_gpu.cpp:1013-1022).
EvictsOnlyUploaded ==
  [][\A l \in cache \ cache' :
       \/ \A q \in Rank : up[q] > l
       \/ \E r \in Rank : pc[r] = "begin" /\ pc'[r] = "pack"]_vars

\* After a cold drop nothing is read further ahead than the prefetch of the
\* slowest rank plus the one layer the ranks may be apart (src/model_gpu.cpp:872-882).
WindowBounded ==
  EvictLag >= 0 /\ (\E r \in Rank : pfOn[r] # "off") =>
    \A l \in cache, q \in Rank : l <= up[q] + Ahead + 1

\* The device holds the rows of the right layer everywhere, however the packing
\* workers interleave and whatever the reused buffer held (src/model_gpu.cpp:189-233).
DeviceHoldsLayers ==
  \A r \in Rank : \A l \in Layer : l < up[r] => device[r][l] = {l}

\* A rank sums through peers' memory only if all ranks do and all of it is mapped
\* (src/nccl_comm.cpp:225-227).
AllOrNone ==
  \A r \in Rank : mode[r] = "custom" =>
    \A q \in Rank : mode[q] \in {"custom", "unset"} /\ created[q] /\ opened[q] = Others(q)

\* If no rank dies and none has read the id of another launch, every rank gets to
\* serve: no barrier of the turns, the upload or the handshake is left waiting.
AllServe ==
  \/ <>(\A r \in Rank : pc[r] = "serve")
  \/ <>(\E r \in Rank : pc[r] \in {"dead", "unwind"} \/ id[r] = "stale")

=============================================================================
