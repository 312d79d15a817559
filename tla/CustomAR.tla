------------------------------ MODULE CustomAR ------------------------------
(***************************************************************************)
(* The one-shot peer-to-peer all-reduce (cuda/custom_ar.cu).  Every rank   *)
(* pushes its data into a slot of every peer, raises a flag there, waits   *)
(* for the flags of all writers and sums the slots.  Slots and flags are   *)
(* double-buffered by the parity of a 32-bit call counter; each block of   *)
(* the kernel pushes, flags, waits and sums its own tiles.                 *)
(*                                                                         *)
(* Data is modelled by the number of the call it was contributed to.       *)
(***************************************************************************)
EXTENDS Integers, Sequences

CONSTANTS
  Rank,       \* the ranks of the tensor-parallel group
  MaxTiles,   \* kArMaxFloats, in units of one block's grid-stride step
  MaxBlocks,  \* kArMaxBlocks
  SeqMod,     \* the counter wraps here (2^32 in the code)
  MaxCalls    \* bound on the number of calls

ASSUME CustomARAssumption ==
  /\ Rank # {}
  /\ MaxTiles \in Nat \ {0}
  /\ MaxBlocks \in Nat \ {0}
  /\ SeqMod \in Nat \ {0} /\ SeqMod % 2 = 0
  /\ MaxCalls \in Nat

Tile == 0 .. MaxTiles - 1
Block == 0 .. MaxBlocks - 1
Parity == {0, 1}

VARIABLES
  call,    \* calls a rank has launched
  seq,     \* CustomAr::seq of a rank
  width,   \* width of each call so far, in tiles: the same on every rank
  phase,   \* where each block of a rank's kernel is
  toPush,  \* peers a block has not pushed its tiles to yet
  toFlag,  \* peers a block has not raised its flag on yet
  toSee,   \* writers whose flag a block has not seen yet
  slot,    \* slot[p][par][w][t]: the call the data in rank p's slot belongs to
  flag,    \* flag[p][par][w][b]: the flags on rank p
  out      \* out[r][t][w]: the call whose data of w was summed into tile t

vars == <<call, seq, width, phase, toPush, toFlag, toSee, slot, flag, out>>

Blocks(c) == IF c < MaxBlocks THEN c ELSE MaxBlocks     \* nb of custom_ar_run
TilesOf(n, b) == {t \in Tile : t < width[n] /\ t % Blocks(width[n]) = b}

\* Mutant of Par: one buffer only.
SingleBuffer(r) == 0

Par(r) == seq[r] % 2
Running(r) == \E b \in Block : phase[r][b] # "off"

\* Mutant of Init: the staging memory is not zeroed.
InitNotZeroed ==
  /\ call = [r \in Rank |-> 0]
  /\ seq = [r \in Rank |-> 0]
  /\ width = <<>>
  /\ phase = [r \in Rank |-> [b \in Block |-> "off"]]
  /\ toPush = [r \in Rank |-> [b \in Block |-> {}]]
  /\ toFlag = [r \in Rank |-> [b \in Block |-> {}]]
  /\ toSee = [r \in Rank |-> [b \in Block |-> {}]]
  /\ slot = [p \in Rank |-> [q \in Parity |-> [w \in Rank |-> [t \in Tile |-> 0]]]]
  /\ flag = [p \in Rank |-> [q \in Parity |-> [w \in Rank |-> [b \in Block |-> SeqMod - 1]]]]
  /\ out = [r \in Rank |-> [t \in Tile |-> [w \in Rank |-> 0]]]

Init ==
  /\ call = [r \in Rank |-> 0]
  /\ seq = [r \in Rank |-> 0]
  /\ width = <<>>
  /\ phase = [r \in Rank |-> [b \in Block |-> "off"]]
  /\ toPush = [r \in Rank |-> [b \in Block |-> {}]]
  /\ toFlag = [r \in Rank |-> [b \in Block |-> {}]]
  /\ toSee = [r \in Rank |-> [b \in Block |-> {}]]
  /\ slot = [p \in Rank |-> [q \in Parity |-> [w \in Rank |-> [t \in Tile |-> 0]]]]
  /\ flag = [p \in Rank |-> [q \in Parity |-> [w \in Rank |-> [b \in Block |-> 0]]]]
  /\ out = [r \in Rank |-> [t \in Tile |-> [w \in Rank |-> 0]]]

\* custom_ar_run: the kernel starts when the rank's last one is complete (stream
\* order). The first rank to make a call fixes its width.
Launch(r, c) ==
  /\ ~Running(r)
  /\ call[r] < MaxCalls
  /\ IF call[r] < Len(width)
     THEN c = width[call[r] + 1] /\ UNCHANGED width
     ELSE width' = Append(width, c)
  /\ call' = [call EXCEPT ![r] = @ + 1]
  /\ seq' = [seq EXCEPT ![r] = IF @ = SeqMod - 1 THEN 0 ELSE @ + 1]
  /\ phase' = [phase EXCEPT ![r] =
                 [b \in Block |-> IF b < Blocks(c) THEN "push" ELSE "off"]]
  /\ toPush' = [toPush EXCEPT ![r] = [b \in Block |-> Rank]]
  /\ UNCHANGED <<toFlag, toSee, slot, flag, out>>

\* A block writes its tiles into its slot on one peer.
Push(r, b, p) ==
  /\ phase[r][b] = "push"
  /\ p \in toPush[r][b]
  /\ slot' = [slot EXCEPT ![p][Par(r)][r] =
                [t \in Tile |-> IF t \in TilesOf(call[r], b) THEN call[r] ELSE @[t]]]
  /\ toPush' = [toPush EXCEPT ![r][b] = @ \ {p}]
  /\ UNCHANGED <<call, seq, width, phase, toFlag, toSee, flag, out>>

\* __threadfence_system, __syncthreads: all tiles of the block are visible.
Fence(r, b) ==
  /\ phase[r][b] = "push"
  /\ toPush[r][b] = {}
  /\ phase' = [phase EXCEPT ![r][b] = "sync"]
  /\ toFlag' = [toFlag EXCEPT ![r][b] = Rank]
  /\ toSee' = [toSee EXCEPT ![r][b] = Rank]
  /\ UNCHANGED <<call, seq, width, toPush, slot, flag, out>>

\* Mutant of Raise: the flag announces the next call.
RaiseNext(r, b, p) ==
  /\ phase[r][b] = "sync"
  /\ p \in toFlag[r][b]
  /\ flag' = [flag EXCEPT ![p][Par(r)][r][b] = seq[r] + 1]
  /\ toFlag' = [toFlag EXCEPT ![r][b] = @ \ {p}]
  /\ UNCHANGED <<call, seq, width, phase, toPush, toSee, slot, out>>

\* Lane p of the block raises the block's flag on peer p.
Raise(r, b, p) ==
  /\ phase[r][b] = "sync"
  /\ p \in toFlag[r][b]
  /\ flag' = [flag EXCEPT ![p][Par(r)][r][b] = seq[r]]
  /\ toFlag' = [toFlag EXCEPT ![r][b] = @ \ {p}]
  /\ UNCHANGED <<call, seq, width, phase, toPush, toSee, slot, out>>

\* Mutant of See: the wait is for a flag above the call's own number.
SeeAbove(r, b, w) ==
  /\ phase[r][b] = "sync"
  /\ w \in toSee[r][b] \ toFlag[r][b]
  /\ flag[r][Par(r)][w][b] > seq[r]
  /\ toSee' = [toSee EXCEPT ![r][b] = @ \ {w}]
  /\ UNCHANGED <<call, seq, width, phase, toPush, toFlag, slot, flag, out>>

\* Lane w, its own flag raised, finds the flag of writer w up.
See(r, b, w) ==
  /\ phase[r][b] = "sync"
  /\ w \in toSee[r][b] \ toFlag[r][b]
  /\ flag[r][Par(r)][w][b] >= seq[r]
  /\ toSee' = [toSee EXCEPT ![r][b] = @ \ {w}]
  /\ UNCHANGED <<call, seq, width, phase, toPush, toFlag, slot, flag, out>>

\* Mutant of Pass: the barrier after the wait is missing.
PassAtOnce(r, b) ==
  /\ phase[r][b] = "sync"
  /\ toFlag[r][b] = {}
  /\ phase' = [phase EXCEPT ![r][b] = "reduce"]
  /\ UNCHANGED <<call, seq, width, toPush, toFlag, toSee, slot, flag, out>>

\* __syncthreads: every lane has seen its flag.
Pass(r, b) ==
  /\ phase[r][b] = "sync"
  /\ toSee[r][b] = {}
  /\ phase' = [phase EXCEPT ![r][b] = "reduce"]
  /\ UNCHANGED <<call, seq, width, toPush, toFlag, toSee, slot, flag, out>>

\* Mutant of Reduce: the sum is over the other buffer.
ReduceOtherParity(r, b) ==
  /\ phase[r][b] = "reduce"
  /\ out' = [out EXCEPT ![r] =
               [t \in Tile |-> IF t \in TilesOf(call[r], b)
                               THEN [w \in Rank |-> slot[r][1 - Par(r)][w][t]]
                               ELSE @[t]]]
  /\ phase' = [phase EXCEPT ![r][b] = "off"]
  /\ UNCHANGED <<call, seq, width, toPush, toFlag, toSee, slot, flag>>

\* The block sums its tiles over all writers.
Reduce(r, b) ==
  /\ phase[r][b] = "reduce"
  /\ out' = [out EXCEPT ![r] =
               [t \in Tile |-> IF t \in TilesOf(call[r], b)
                               THEN [w \in Rank |-> slot[r][Par(r)][w][t]]
                               ELSE @[t]]]
  /\ phase' = [phase EXCEPT ![r][b] = "off"]
  /\ UNCHANGED <<call, seq, width, toPush, toFlag, toSee, slot, flag>>

Step(r, b) ==
  \/ \E p \in Rank : Push(r, b, p) \/ Raise(r, b, p) \/ See(r, b, p)
  \/ Fence(r, b)
  \/ Pass(r, b)
  \/ Reduce(r, b)

\* All calls of the bound are made and complete.
Drained ==
  /\ \A r \in Rank : call[r] = MaxCalls /\ ~Running(r)
  /\ UNCHANGED vars

Next ==
  \/ \E r \in Rank : \E c \in 1 .. MaxTiles : Launch(r, c)
  \/ \E r \in Rank : \E b \in Block : Step(r, b)
  \/ Drained

\* The blocks of a running kernel are resident and keep running, and every
\* rank goes on to make the calls the others make.
Fairness ==
  \A r \in Rank :
    /\ WF_vars(\E c \in 1 .. MaxTiles : Launch(r, c))
    /\ \A b \in Block : WF_vars(Step(r, b))

Spec == Init /\ [][Next]_vars
FairSpec == Spec /\ Fairness

-----------------------------------------------------------------------------
(* Properties *)

TypeOK ==
  /\ call \in [Rank -> 0 .. MaxCalls]
  /\ seq \in [Rank -> 0 .. SeqMod - 1]
  /\ width \in Seq(1 .. MaxTiles)
  /\ phase \in [Rank -> [Block -> {"off", "push", "sync", "reduce"}]]
  /\ toPush \in [Rank -> [Block -> SUBSET Rank]]
  /\ toFlag \in [Rank -> [Block -> SUBSET Rank]]
  /\ toSee \in [Rank -> [Block -> SUBSET Rank]]
  /\ slot \in [Rank -> [Parity -> [Rank -> [Tile -> 0 .. MaxCalls]]]]
  /\ flag \in [Rank -> [Parity -> [Rank -> [Block -> 0 .. SeqMod - 1]]]]
  /\ out \in [Rank -> [Tile -> [Rank -> 0 .. MaxCalls]]]

\* A block that has passed its wait finds, for as long as it sums, the data of
\* its own call in every slot: nothing older, nothing newer
\* (cuda/custom_ar.cu:13-18).
ReadsThisCall ==
  \A r \in Rank : \A b \in Block : phase[r][b] = "reduce" =>
    \A w \in Rank : \A t \in TilesOf(call[r], b) : slot[r][Par(r)][w][t] = call[r]

\* Why two buffers are enough: no rank is ever two calls ahead of another.
SkewAtMostOne == \A r, p \in Rank : call[r] <= call[p] + 1

\* A slot's data is overwritten only when the rank that owns the slot is
\* through with the call the data was for.
OverwritesOnlyReadData ==
  [][\A p, w \in Rank : \A q \in Parity : \A t \in Tile :
       LET old == slot[p][q][w][t]
       IN slot'[p][q][w][t] # old /\ old > 0 =>
            call[p] > old \/ (call[p] = old /\ ~Running(p))]_vars

\* Calls that have returned on a rank.
Done(r) == IF Running(r) THEN call[r] - 1 ELSE call[r]

\* What block b of rank w contributes to call n has arrived at rank p.
Arrived(p, w, n, b) == \A t \in TilesOf(n, b) : slot[p][n % 2][w][t] = n

\* The counter has not wrapped, and a running block belongs to a launched call.
CountersAgree ==
  /\ seq = call
  /\ \A r \in Rank : call[r] <= Len(width)
  /\ \A r \in Rank : Running(r) => call[r] > 0

\* A rank's call returns only when every rank has made it.
InStep == \A r, p \in Rank : Done(r) <= call[p]

\* Flags and slots hold calls of their own parity that their writer has made,
\* and a flag of a call that has not returned vouches for the data.
FlagsVouch ==
  \A p, w \in Rank : \A q \in Parity :
    /\ \A t \in Tile : slot[p][q][w][t] <= call[w] /\
                        (slot[p][q][w][t] > 0 => slot[p][q][w][t] % 2 = q)
    /\ \A b \in Block : flag[p][q][w][b] <= call[w] /\
                         (flag[p][q][w][b] > 0 => flag[p][q][w][b] % 2 = q) /\
                         (flag[p][q][w][b] > Done(p) => Arrived(p, w, flag[p][q][w][b], b))

\* What a block knows at each phase.
PushedArrived ==
  \A w, p \in Rank : \A b \in Block :
    phase[w][b] # "off" /\ p \notin toPush[w][b] => Arrived(p, w, call[w], b)

SeenArrived ==
  \A r, w \in Rank : \A b \in Block :
    phase[r][b] \in {"sync", "reduce"} /\ w \notin toSee[r][b] =>
      call[w] >= call[r] /\ Arrived(r, w, call[r], b)

PhasesInOrder ==
  \A r \in Rank : \A b \in Block :
    /\ phase[r][b] \in {"sync", "reduce"} => toPush[r][b] = {}
    /\ phase[r][b] = "reduce" => toSee[r][b] = {}

\* A block that is through has summed its tiles.
SumsDone ==
  \A r, w \in Rank : \A b \in Block :
    call[r] > 0 /\ phase[r][b] = "off" =>
      \A t \in TilesOf(call[r], b) : out[r][t][w] = call[r]

\* The inductive invariant behind the safety properties, below the wrap.
IndInv ==
  /\ TypeOK
  /\ CountersAgree
  /\ InStep
  /\ FlagsVouch
  /\ PushedArrived
  /\ SeenArrived
  /\ PhasesInOrder
  /\ SumsDone

Finished == [r \in Rank |-> Done(r)]

\* The call whose data a rank holds the sum of, 0 in a call or if it is not a sum.
Got ==
  [r \in Rank |->
     IF ~Running(r) /\ call[r] > 0 /\
        \A t \in 0 .. width[call[r]] - 1 : \A w \in Rank : out[r][t][w] = call[r]
     THEN call[r] ELSE 0]

\* Each rank's sums are the all-reduce of its calls.
Sum == INSTANCE AllReduce WITH entered <- call, finished <- Finished, got <- Got

ImplementsAllReduce == Sum!Spec

\* Every call completes on every rank.
AllCallsComplete == <>[](\A r \in Rank : call[r] = MaxCalls /\ ~Running(r))

=============================================================================
