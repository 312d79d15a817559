--------------------------- MODULE CustomARProofs ---------------------------
(***************************************************************************)
(* Proofs about CustomAR, for every number of ranks, tiles, blocks and     *)
(* calls below the wrap of the counter.                                    *)
(***************************************************************************)
EXTENDS CustomAR, SequenceTheorems, TLAPS

\* The counter does not wrap. Without it ReadsThisCall fails.
NoWrap == MaxCalls < SeqMod

-----------------------------------------------------------------------------
(* Parities *)

LEMMA ParityFacts ==
  ASSUME NEW n \in Nat, NEW c \in Nat
  PROVE  /\ c % 2 \in Parity
         /\ n % 2 = c % 2 /\ n < c => n <= c - 2
         /\ n % 2 = c % 2 /\ n \in c .. c + 1 => n = c
BY SMT DEF Parity

-----------------------------------------------------------------------------
(* The state, pointwise *)

LEMMA CallFacts ==
  ASSUME TypeOK, CountersAgree, NEW r \in Rank
  PROVE  /\ call[r] \in Nat
         /\ call[r] <= MaxCalls
         /\ seq[r] = call[r]
         /\ Par(r) = call[r] % 2
         /\ Par(r) \in Parity
         /\ call[r] <= Len(width)
         /\ Done(r) \in Nat
         /\ Done(r) <= call[r]
         /\ call[r] <= Done(r) + 1
         /\ (Running(r) => call[r] > 0 /\ Done(r) = call[r] - 1)
<1>1. call[r] \in Nat /\ call[r] <= MaxCalls /\ seq[r] = call[r]
  BY CustomARAssumption DEF TypeOK, CountersAgree
<1>2. Par(r) = call[r] % 2 /\ Par(r) \in Parity
  BY <1>1, ParityFacts DEF Par
<1>3. call[r] <= Len(width) /\ (Running(r) => call[r] > 0)
  BY DEF CountersAgree
<1>. QED
  BY <1>1, <1>2, <1>3 DEF Done

LEMMA TileFacts ==
  ASSUME TypeOK, NEW n \in 1 .. Len(width)
  PROVE  width[n] \in 1 .. MaxTiles
BY ElementOfSeq DEF TypeOK

LEMMA ExceptTwice ==
  ASSUME NEW S, NEW T, NEW V, NEW f \in [S -> [T -> V]],
         NEW s \in S, NEW t \in T, NEW v \in V
  PROVE  /\ [f EXCEPT ![s][t] = v] \in [S -> [T -> V]]
         /\ \A x \in S : \A y \in T :
              [f EXCEPT ![s][t] = v][x][y] = IF x = s /\ y = t THEN v ELSE f[x][y]
OBVIOUS

-----------------------------------------------------------------------------
(* What a step changes *)

\* Steps that do not start or end a block leave Done alone.
LEMMA SameDone ==
  ASSUME call' = call,
         \A x \in Rank : \A y \in Block : phase'[x][y] = "off" <=> phase[x][y] = "off"
  PROVE  \A x \in Rank : Running(x)' = Running(x) /\ Done(x)' = Done(x)
BY DEF Done, Running

\* Nor do they touch what only calls, widths, slots and flags decide.
LEMMA SameContent ==
  ASSUME CountersAgree, InStep, FlagsVouch,
         UNCHANGED <<call, seq, width, slot, flag>>,
         \A x \in Rank : Running(x)' = Running(x) /\ Done(x)' = Done(x)
  PROVE  CountersAgree' /\ InStep' /\ FlagsVouch'
<1>1. CountersAgree' /\ InStep'
  BY DEF CountersAgree, InStep
<1>2. FlagsVouch'
  <2> SUFFICES ASSUME NEW p \in Rank, NEW w \in Rank, NEW q \in Parity
      PROVE  (/\ \A t \in Tile : slot[p][q][w][t] <= call[w] /\
                    (slot[p][q][w][t] > 0 => slot[p][q][w][t] % 2 = q)
              /\ \A b \in Block : flag[p][q][w][b] <= call[w] /\
                    (flag[p][q][w][b] > 0 => flag[p][q][w][b] % 2 = q) /\
                    (flag[p][q][w][b] > Done(p) => Arrived(p, w, flag[p][q][w][b], b)))'
    BY DEF FlagsVouch
  <2>1. /\ \A t \in Tile : slot[p][q][w][t] <= call[w] /\
              (slot[p][q][w][t] > 0 => slot[p][q][w][t] % 2 = q)
        /\ \A b \in Block : flag[p][q][w][b] <= call[w] /\
              (flag[p][q][w][b] > 0 => flag[p][q][w][b] % 2 = q) /\
              (flag[p][q][w][b] > Done(p) => Arrived(p, w, flag[p][q][w][b], b))
    BY DEF FlagsVouch
  <2>. QED
    BY <2>1, SMTT(30) DEF Arrived, TilesOf
<1>. QED
  BY <1>1, <1>2

-----------------------------------------------------------------------------
(* One lemma per action: it preserves the inductive invariant *)

LEMMA PushStep ==
  ASSUME IndInv, NEW r \in Rank, NEW b \in Block, NEW p \in Rank, Push(r, b, p)
  PROVE  IndInv'
<1>0. TypeOK /\ CountersAgree /\ InStep /\ FlagsVouch /\ PushedArrived /\ SeenArrived
      /\ PhasesInOrder /\ SumsDone
  BY DEF IndInv
<1>. USE <1>0
<1>1. /\ slot' \in [Rank -> [Parity -> [Rank -> [Tile -> 0 .. MaxCalls]]]]
      /\ \A x, w \in Rank : \A q \in Parity : \A t \in Tile :
           slot'[x][q][w][t] =
             IF x = p /\ q = Par(r) /\ w = r /\ t \in TilesOf(call[r], b)
             THEN call[r] ELSE slot[x][q][w][t]
      /\ toPush' \in [Rank -> [Block -> SUBSET Rank]]
      /\ \A x \in Rank : \A y \in Block :
           toPush'[x][y] = IF x = r /\ y = b THEN toPush[r][b] \ {p} ELSE toPush[x][y]
  <2>1. call[r] \in 0 .. MaxCalls /\ Par(r) \in Parity
    BY CallFacts DEF TypeOK
  <2>2. slot \in [Rank -> [Parity -> [Rank -> [Tile -> 0 .. MaxCalls]]]]
    BY DEF TypeOK
  <2> DEFINE new == [t \in Tile |-> IF t \in TilesOf(call[r], b) THEN call[r]
                                    ELSE slot[p][Par(r)][r][t]]
  <2>3. slot[p][Par(r)][r] \in [Tile -> 0 .. MaxCalls]
    BY <2>1, <2>2
  <2>4. new \in [Tile -> 0 .. MaxCalls]
    BY <2>1, <2>3
  <2>5. slot' = [slot EXCEPT ![p][Par(r)][r] = new]
    BY DEF Push
  <2> HIDE DEF new
  <2>6. slot' \in [Rank -> [Parity -> [Rank -> [Tile -> 0 .. MaxCalls]]]]
    BY <2>1, <2>2, <2>4, <2>5
  <2>7. \A x, w \in Rank : \A q \in Parity :
          slot'[x][q][w] = IF x = p /\ q = Par(r) /\ w = r THEN new ELSE slot[x][q][w]
    BY <2>1, <2>2, <2>4, <2>5
  <2>8. \A t \in Tile : new[t] = IF t \in TilesOf(call[r], b) THEN call[r]
                                 ELSE slot[p][Par(r)][r][t]
    BY DEF new
  <2>9. toPush' = [toPush EXCEPT ![r][b] = toPush[r][b] \ {p}]
    BY DEF Push
  <2>10. toPush \in [Rank -> [Block -> SUBSET Rank]] /\ toPush[r][b] \ {p} \in SUBSET Rank
    BY DEF TypeOK
  <2>11. /\ toPush' \in [Rank -> [Block -> SUBSET Rank]]
         /\ \A x \in Rank : \A y \in Block :
              toPush'[x][y] = IF x = r /\ y = b THEN toPush[r][b] \ {p} ELSE toPush[x][y]
    BY <2>9, <2>10, ExceptTwice
  <2>12. ASSUME NEW x \in Rank, NEW w \in Rank, NEW q \in Parity, NEW t \in Tile
         PROVE  slot'[x][q][w][t] =
                  IF x = p /\ q = Par(r) /\ w = r /\ t \in TilesOf(call[r], b)
                  THEN call[r] ELSE slot[x][q][w][t]
    <3>1. CASE x = p /\ q = Par(r) /\ w = r
      BY <2>7, <2>8, <3>1
    <3>2. CASE ~(x = p /\ q = Par(r) /\ w = r)
      BY <2>7, <3>2
    <3>. QED
      BY <3>1, <3>2
  <2>. QED
    BY <2>6, <2>11, <2>12
<1>2. UNCHANGED <<call, seq, width, phase, toFlag, toSee, flag, out>> /\ phase[r][b] = "push"
  BY DEF Push
<1>3. Running(r)
  BY <1>2 DEF Running
<1>4. /\ call[r] \in Nat /\ call[r] > 0 /\ call[r] <= Len(width)
      /\ Par(r) = call[r] % 2 /\ Par(r) \in Parity /\ Done(r) = call[r] - 1
  BY <1>3, CallFacts
<1>5. \A x \in Rank : Running(x)' = Running(x) /\ Done(x)' = Done(x)
  BY <1>2, SameDone
\* What has arrived of a call stays, unless a later call of its parity is pushed.
<1>7. ASSUME NEW x \in Rank, NEW w \in Rank, NEW n \in 1 .. Len(width), NEW y \in Block,
             Arrived(x, w, n, y),
             ~(x = p /\ w = r /\ n % 2 = call[r] % 2 /\ n # call[r])
      PROVE  \A t \in TilesOf(n, y) : slot'[x][n % 2][w][t] = n
  <2>1. TilesOf(n, y) \subseteq Tile /\ n % 2 \in Parity
    BY ParityFacts DEF TilesOf
  <2>2. \A t \in TilesOf(n, y) : slot[x][n % 2][w][t] = n
    BY <1>7 DEF Arrived
  <2>3. SUFFICES ASSUME NEW t \in TilesOf(n, y) PROVE slot'[x][n % 2][w][t] = n
    OBVIOUS
  <2>4. t \in Tile /\ slot[x][n % 2][w][t] = n
    BY <2>1, <2>2
  <2>5. slot'[x][n % 2][w][t] =
          IF x = p /\ n % 2 = Par(r) /\ w = r /\ t \in TilesOf(call[r], b)
          THEN call[r] ELSE slot[x][n % 2][w][t]
    BY <1>1, <2>1, <2>4
  <2>. QED
    BY <1>4, <1>7, <2>4, <2>5
<1>8. TypeOK'
  BY <1>1, <1>2 DEF TypeOK
<1>9. CountersAgree' /\ InStep'
  BY <1>2, <1>5 DEF CountersAgree, InStep
<1>10. FlagsVouch'
  <2> SUFFICES ASSUME NEW x \in Rank, NEW w \in Rank, NEW q \in Parity
      PROVE  (/\ \A t \in Tile : slot[x][q][w][t] <= call[w] /\
                    (slot[x][q][w][t] > 0 => slot[x][q][w][t] % 2 = q)
              /\ \A y \in Block : flag[x][q][w][y] <= call[w] /\
                    (flag[x][q][w][y] > 0 => flag[x][q][w][y] % 2 = q) /\
                    (flag[x][q][w][y] > Done(x) => Arrived(x, w, flag[x][q][w][y], y)))'
    BY DEF FlagsVouch
  <2>1. \A t \in Tile : slot'[x][q][w][t] <= call[w] /\
                        (slot'[x][q][w][t] > 0 => slot'[x][q][w][t] % 2 = q)
    <3>1. SUFFICES ASSUME NEW t \in Tile, NEW v, v = slot'[x][q][w][t]
          PROVE  v <= call[w] /\ (v > 0 => v % 2 = q)
      OBVIOUS
    <3>2. v = IF x = p /\ q = Par(r) /\ w = r /\ t \in TilesOf(call[r], b)
              THEN call[r] ELSE slot[x][q][w][t]
      BY <1>1, <3>1
    <3>3. slot[x][q][w][t] <= call[w] /\ (slot[x][q][w][t] > 0 => slot[x][q][w][t] % 2 = q)
      BY DEF FlagsVouch
    <3>. QED
      BY <1>4, <3>2, <3>3
  <2>2. ASSUME NEW y \in Block, NEW n, n = flag[x][q][w][y]
        PROVE  /\ n <= call[w]
               /\ n > 0 => n % 2 = q
               /\ n > Done(x) => \A t \in TilesOf(n, y) : slot'[x][n % 2][w][t] = n
    <3>1. n <= call[w] /\ (n > 0 => n % 2 = q) /\ (n > Done(x) => Arrived(x, w, n, y))
      BY <2>2 DEF FlagsVouch
    <3>2. SUFFICES ASSUME n > Done(x)
          PROVE  \A t \in TilesOf(n, y) : slot'[x][n % 2][w][t] = n
      BY <3>1
    <3>3. Done(x) \in Nat /\ call[w] \in Nat /\ call[w] <= Len(width)
      BY CallFacts
    <3>4. n \in Nat
      BY <2>2, CustomARAssumption DEF TypeOK
    <3>5. n \in 1 .. Len(width)
      BY <3>1, <3>2, <3>3, <3>4, LenProperties DEF TypeOK
    <3>6. ~(x = p /\ w = r /\ n % 2 = call[r] % 2 /\ n # call[r])
      <4> SUFFICES ASSUME x = p, w = r, n % 2 = call[r] % 2, n # call[r] PROVE FALSE
        OBVIOUS
      <4>1. n < call[r]
        BY <1>4, <3>1, <3>4
      <4>2. n <= call[r] - 2
        BY <1>4, <3>4, <4>1, ParityFacts
      <4>3. Done(r) <= call[p] /\ call[p] <= Done(p) + 1 /\ call[p] \in Nat /\ Done(p) \in Nat
        BY CallFacts DEF InStep
      <4>. QED
        BY <1>4, <3>2, <3>4, <4>2, <4>3
    <3>. QED
      BY <1>7, <3>1, <3>2, <3>5, <3>6
  <2>. QED
    BY <1>2, <1>5, <2>1, <2>2, SMTT(30) DEF Arrived, TilesOf
<1>11. PushedArrived'
  <2> SUFFICES ASSUME NEW w \in Rank, NEW x \in Rank, NEW y \in Block,
                      phase[w][y] # "off", x \notin toPush'[w][y],
                      NEW n, n = call[w]
      PROVE  \A t \in TilesOf(n, y) : slot'[x][n % 2][w][t] = n
    BY <1>2 DEF PushedArrived, Arrived, TilesOf
  <2>1. Running(w)
    BY DEF Running
  <2>2. n \in 1 .. Len(width)
    BY <2>1, CallFacts, LenProperties DEF TypeOK
  <2>3. CASE x \notin toPush[w][y]
    BY <1>7, <2>2, <2>3 DEF PushedArrived
  <2>4. CASE x \in toPush[w][y]
    <3>1. w = r /\ y = b /\ x = p
      BY <1>1, <2>4
    <3>2. TilesOf(n, y) \subseteq Tile
      BY DEF TilesOf
    <3>. QED
      BY <1>1, <1>4, <3>1, <3>2
  <2>. QED
    BY <2>3, <2>4
<1>12. SeenArrived'
  <2> SUFFICES ASSUME NEW x \in Rank, NEW w \in Rank, NEW y \in Block,
                      phase[x][y] \in {"sync", "reduce"}, w \notin toSee[x][y],
                      NEW n, n = call[x]
      PROVE  call[w] >= n /\ \A t \in TilesOf(n, y) : slot'[x][n % 2][w][t] = n
    BY <1>2 DEF SeenArrived, Arrived, TilesOf
  <2>1. Running(x)
    BY DEF Running
  <2>2. n \in 1 .. Len(width) /\ n \in Nat
    <3>1. n \in Nat /\ n > 0 /\ n <= Len(width)
      BY <2>1, CallFacts
    <3>2. Len(width) \in Nat
      BY LenProperties DEF TypeOK
    <3>. QED
      BY <3>1, <3>2
  <2>3. call[w] >= n /\ Arrived(x, w, n, y)
    BY DEF SeenArrived
  <2>4. ~(x = p /\ w = r /\ n % 2 = call[r] % 2 /\ n # call[r])
    <3> SUFFICES ASSUME x = p, w = r, n % 2 = call[r] % 2, n # call[r] PROVE FALSE
      OBVIOUS
    <3>1. n < call[r]
      BY <1>4, <2>2, <2>3
    <3>2. n <= call[r] - 2
      BY <1>4, <2>2, <3>1, ParityFacts
    <3>3. Done(r) <= call[p]
      BY DEF InStep
    <3>. QED
      BY <1>4, <2>2, <3>2, <3>3
  <2>5. \A t \in TilesOf(n, y) : slot'[x][n % 2][w][t] = n
    BY <1>7, <2>2, <2>3, <2>4
  <2>. QED
    BY <2>3, <2>5
<1>13. PhasesInOrder'
  <2>1. \A x \in Rank : \A y \in Block : toPush'[x][y] \subseteq toPush[x][y]
    BY <1>1
  <2>. QED
    BY <1>2, <2>1 DEF PhasesInOrder
<1>14. SumsDone'
  BY <1>2 DEF SumsDone, TilesOf
<1>. QED
  BY <1>8, <1>9, <1>10, <1>11, <1>12, <1>13, <1>14 DEF IndInv

LEMMA RaiseStep ==
  ASSUME IndInv, NEW r \in Rank, NEW b \in Block, NEW p \in Rank, Raise(r, b, p)
  PROVE  IndInv'
<1>0. TypeOK /\ CountersAgree /\ InStep /\ FlagsVouch /\ PushedArrived /\ SeenArrived
      /\ PhasesInOrder /\ SumsDone
  BY DEF IndInv
<1>. USE <1>0
<1>1. /\ flag' \in [Rank -> [Parity -> [Rank -> [Block -> 0 .. SeqMod - 1]]]]
      /\ \A x, w \in Rank : \A q \in Parity : \A y \in Block :
           flag'[x][q][w][y] =
             IF x = p /\ q = Par(r) /\ w = r /\ y = b
             THEN call[r] ELSE flag[x][q][w][y]
      /\ toFlag' \in [Rank -> [Block -> SUBSET Rank]]
  <2>1. seq[r] \in 0 .. SeqMod - 1 /\ seq[r] = call[r] /\ Par(r) \in Parity
    BY CallFacts DEF TypeOK
  <2>2. flag \in [Rank -> [Parity -> [Rank -> [Block -> 0 .. SeqMod - 1]]]]
    BY DEF TypeOK
  <2> DEFINE new == [flag[p][Par(r)][r] EXCEPT ![b] = seq[r]]
  <2>3. flag[p][Par(r)][r] \in [Block -> 0 .. SeqMod - 1]
    BY <2>1, <2>2
  <2>4. new \in [Block -> 0 .. SeqMod - 1]
    BY <2>1, <2>3
  <2>5. flag' = [flag EXCEPT ![p][Par(r)][r] = new]
    BY DEF Raise
  <2>6. \A y \in Block : new[y] = IF y = b THEN seq[r] ELSE flag[p][Par(r)][r][y]
    BY <2>3
  <2> HIDE DEF new
  <2>7. flag' \in [Rank -> [Parity -> [Rank -> [Block -> 0 .. SeqMod - 1]]]]
    BY <2>1, <2>2, <2>4, <2>5
  <2>8. \A x, w \in Rank : \A q \in Parity :
          flag'[x][q][w] = IF x = p /\ q = Par(r) /\ w = r THEN new ELSE flag[x][q][w]
    BY <2>1, <2>2, <2>4, <2>5
  <2>9. toFlag' = [toFlag EXCEPT ![r][b] = toFlag[r][b] \ {p}]
    BY DEF Raise
  <2>10. toFlag \in [Rank -> [Block -> SUBSET Rank]] /\ toFlag[r][b] \ {p} \in SUBSET Rank
    BY DEF TypeOK
  <2>11. toFlag' \in [Rank -> [Block -> SUBSET Rank]]
    BY <2>9, <2>10, ExceptTwice
  <2>. QED
    BY <2>1, <2>6, <2>7, <2>8, <2>11
<1>2. UNCHANGED <<call, seq, width, phase, toPush, toSee, slot, out>> /\ phase[r][b] = "sync"
  BY DEF Raise
<1>3. \A x \in Rank : Running(x)' = Running(x) /\ Done(x)' = Done(x)
  BY <1>2, SameDone
<1>4. call[r] \in Nat /\ Par(r) = call[r] % 2
  BY CallFacts
<1>5. Arrived(p, r, call[r], b)
  BY <1>2 DEF PushedArrived, PhasesInOrder
<1>6. TypeOK'
  BY <1>1, <1>2 DEF TypeOK
<1>7. CountersAgree' /\ InStep'
  BY <1>2, <1>3 DEF CountersAgree, InStep
<1>8. FlagsVouch'
  <2> SUFFICES ASSUME NEW x \in Rank, NEW w \in Rank, NEW q \in Parity, NEW y \in Block,
                      NEW n, n = flag'[x][q][w][y]
      PROVE  n <= call[w] /\ (n > 0 => n % 2 = q) /\ (n > Done(x) => Arrived(x, w, n, y))
    BY <1>2, <1>3, SMTT(30) DEF FlagsVouch, Arrived, TilesOf
  <2>1. CASE x = p /\ q = Par(r) /\ w = r /\ y = b
    BY <1>1, <1>4, <1>5, <2>1
  <2>2. CASE ~(x = p /\ q = Par(r) /\ w = r /\ y = b)
    <3>1. n = flag[x][q][w][y]
      BY <1>1, <2>2
    <3>. QED
      BY <3>1 DEF FlagsVouch
  <2>. QED
    BY <2>1, <2>2
<1>9. PushedArrived' /\ SeenArrived'
  BY <1>2, SMTT(30) DEF PushedArrived, SeenArrived, Arrived, TilesOf
<1>10. PhasesInOrder' /\ SumsDone'
  BY <1>2 DEF PhasesInOrder, SumsDone, TilesOf
<1>. QED
  BY <1>6, <1>7, <1>8, <1>9, <1>10 DEF IndInv

LEMMA SeeStep ==
  ASSUME IndInv, NEW r \in Rank, NEW b \in Block, NEW w \in Rank, See(r, b, w)
  PROVE  IndInv'
<1>0. TypeOK /\ CountersAgree /\ InStep /\ FlagsVouch /\ PushedArrived /\ SeenArrived
      /\ PhasesInOrder /\ SumsDone
  BY DEF IndInv
<1>. USE <1>0
<1>1. /\ UNCHANGED <<call, seq, width, phase, toPush, toFlag, slot, flag, out>>
      /\ phase[r][b] = "sync"
      /\ flag[r][Par(r)][w][b] >= seq[r]
      /\ toSee' = [toSee EXCEPT ![r][b] = toSee[r][b] \ {w}]
  BY DEF See
<1>2. /\ toSee' \in [Rank -> [Block -> SUBSET Rank]]
      /\ \A x \in Rank : \A y \in Block :
           toSee'[x][y] = IF x = r /\ y = b THEN toSee[r][b] \ {w} ELSE toSee[x][y]
  <2>1. toSee \in [Rank -> [Block -> SUBSET Rank]] /\ toSee[r][b] \ {w} \in SUBSET Rank
    BY DEF TypeOK
  <2>. QED
    BY <1>1, <2>1, ExceptTwice
<1>3. \A x \in Rank : Running(x)' = Running(x) /\ Done(x)' = Done(x)
  BY <1>1, SameDone
\* The flag seen is the flag of this very call, and it vouches for the data.
<1>4. call[w] >= call[r] /\ Arrived(r, w, call[r], b)
  <2>1. Running(r)
    BY <1>1 DEF Running
  <2>2. /\ call[r] \in Nat /\ call[r] > 0 /\ Done(r) = call[r] - 1 /\ seq[r] = call[r]
        /\ Par(r) = call[r] % 2 /\ Par(r) \in Parity
    BY <2>1, CallFacts
  <2>3. call[w] \in Nat /\ Done(w) \in Nat /\ call[w] <= Done(w) + 1 /\ Done(w) <= call[r]
    BY CallFacts DEF InStep
  <2> DEFINE n == flag[r][Par(r)][w][b]
  <2>4. n \in Nat
    BY <2>2, CustomARAssumption DEF TypeOK
  <2>5. n <= call[w] /\ (n > 0 => n % 2 = Par(r)) /\ (n > Done(r) => Arrived(r, w, n, b))
    BY <2>2 DEF FlagsVouch
  <2> HIDE DEF n
  <2>6. n >= call[r]
    BY <1>1, <2>2 DEF n
  <2>7. n \in call[r] .. call[r] + 1 /\ n % 2 = call[r] % 2
    BY <2>2, <2>3, <2>4, <2>5, <2>6
  <2>8. n = call[r]
    BY <2>2, <2>4, <2>7, ParityFacts
  <2>. QED
    BY <2>2, <2>3, <2>5, <2>8
<1>5. TypeOK'
  BY <1>1, <1>2 DEF TypeOK
<1>6. CountersAgree' /\ InStep' /\ FlagsVouch'
  BY <1>1, <1>3, SameContent
<1>7. PushedArrived'
  BY <1>1 DEF PushedArrived, Arrived, TilesOf
<1>8. SeenArrived'
  <2> SUFFICES ASSUME NEW x \in Rank, NEW u \in Rank, NEW y \in Block,
                      phase[x][y] \in {"sync", "reduce"}, u \notin toSee'[x][y]
      PROVE  call[u] >= call[x] /\ Arrived(x, u, call[x], y)
    BY <1>1 DEF SeenArrived, Arrived, TilesOf
  <2>1. CASE x = r /\ y = b /\ u = w
    BY <1>4, <2>1
  <2>2. CASE ~(x = r /\ y = b /\ u = w)
    BY <1>2, <2>2 DEF SeenArrived
  <2>. QED
    BY <2>1, <2>2
<1>9. PhasesInOrder'
  BY <1>1, <1>2 DEF PhasesInOrder
<1>10. SumsDone'
  BY <1>1 DEF SumsDone, TilesOf
<1>. QED
  BY <1>5, <1>6, <1>7, <1>8, <1>9, <1>10 DEF IndInv

LEMMA FenceStep ==
  ASSUME IndInv, NEW r \in Rank, NEW b \in Block, Fence(r, b)
  PROVE  IndInv'
<1>0. TypeOK /\ CountersAgree /\ InStep /\ FlagsVouch /\ PushedArrived /\ SeenArrived
      /\ PhasesInOrder /\ SumsDone
  BY DEF IndInv
<1>. USE <1>0
<1>1. /\ UNCHANGED <<call, seq, width, toPush, slot, flag, out>>
      /\ phase[r][b] = "push" /\ toPush[r][b] = {}
      /\ phase' = [phase EXCEPT ![r][b] = "sync"]
      /\ toFlag' = [toFlag EXCEPT ![r][b] = Rank]
      /\ toSee' = [toSee EXCEPT ![r][b] = Rank]
  BY DEF Fence
<1>2. /\ phase' \in [Rank -> [Block -> {"off", "push", "sync", "reduce"}]]
      /\ \A x \in Rank : \A y \in Block :
           phase'[x][y] = IF x = r /\ y = b THEN "sync" ELSE phase[x][y]
  <2>1. /\ phase \in [Rank -> [Block -> {"off", "push", "sync", "reduce"}]]
        /\ "sync" \in {"off", "push", "sync", "reduce"}
    BY DEF TypeOK
  <2>. QED
    BY <1>1, <2>1, ExceptTwice
<1>3. /\ toFlag' \in [Rank -> [Block -> SUBSET Rank]]
      /\ toSee' \in [Rank -> [Block -> SUBSET Rank]]
      /\ \A x \in Rank : \A y \in Block :
           toSee'[x][y] = IF x = r /\ y = b THEN Rank ELSE toSee[x][y]
  <2>1. toSee \in [Rank -> [Block -> SUBSET Rank]] /\ toFlag \in [Rank -> [Block -> SUBSET Rank]]
        /\ Rank \in SUBSET Rank
    BY DEF TypeOK
  <2>. QED
    BY <1>1, <2>1, ExceptTwice
<1>4. \A x \in Rank : \A y \in Block : phase'[x][y] = "off" <=> phase[x][y] = "off"
  BY <1>1, <1>2
<1>5. \A x \in Rank : Running(x)' = Running(x) /\ Done(x)' = Done(x)
  BY <1>1, <1>4, SameDone
<1>6. TypeOK'
  BY <1>1, <1>2, <1>3 DEF TypeOK
<1>7. CountersAgree' /\ InStep' /\ FlagsVouch'
  BY <1>1, <1>5, SameContent
<1>8. PushedArrived'
  BY <1>1, <1>4 DEF PushedArrived, Arrived, TilesOf
<1>9. SeenArrived'
  <2> SUFFICES ASSUME NEW x \in Rank, NEW u \in Rank, NEW y \in Block,
                      phase'[x][y] \in {"sync", "reduce"}, u \notin toSee'[x][y]
      PROVE  call[u] >= call[x] /\ Arrived(x, u, call[x], y)
    BY <1>1 DEF SeenArrived, Arrived, TilesOf
  <2>1. ~(x = r /\ y = b)
    BY <1>3
  <2>. QED
    BY <1>2, <1>3, <2>1 DEF SeenArrived
<1>10. PhasesInOrder'
  BY <1>1, <1>2, <1>3 DEF PhasesInOrder
<1>11. SumsDone'
  BY <1>1, <1>4 DEF SumsDone, TilesOf
<1>. QED
  BY <1>6, <1>7, <1>8, <1>9, <1>10, <1>11 DEF IndInv

LEMMA PassStep ==
  ASSUME IndInv, NEW r \in Rank, NEW b \in Block, Pass(r, b)
  PROVE  IndInv'
<1>0. TypeOK /\ CountersAgree /\ InStep /\ FlagsVouch /\ PushedArrived /\ SeenArrived
      /\ PhasesInOrder /\ SumsDone
  BY DEF IndInv
<1>. USE <1>0
<1>1. /\ UNCHANGED <<call, seq, width, toPush, toFlag, toSee, slot, flag, out>>
      /\ phase[r][b] = "sync" /\ toSee[r][b] = {}
      /\ phase' = [phase EXCEPT ![r][b] = "reduce"]
  BY DEF Pass
<1>2. /\ phase' \in [Rank -> [Block -> {"off", "push", "sync", "reduce"}]]
      /\ \A x \in Rank : \A y \in Block :
           phase'[x][y] = IF x = r /\ y = b THEN "reduce" ELSE phase[x][y]
  <2>1. /\ phase \in [Rank -> [Block -> {"off", "push", "sync", "reduce"}]]
        /\ "reduce" \in {"off", "push", "sync", "reduce"}
    BY DEF TypeOK
  <2>. QED
    BY <1>1, <2>1, ExceptTwice
<1>3. \A x \in Rank : \A y \in Block : phase'[x][y] = "off" <=> phase[x][y] = "off"
  BY <1>1, <1>2
<1>4. \A x \in Rank : Running(x)' = Running(x) /\ Done(x)' = Done(x)
  BY <1>1, <1>3, SameDone
<1>5. TypeOK'
  BY <1>1, <1>2 DEF TypeOK
<1>6. CountersAgree' /\ InStep' /\ FlagsVouch'
  BY <1>1, <1>4, SameContent
<1>7. PushedArrived'
  BY <1>1, <1>3 DEF PushedArrived, Arrived, TilesOf
<1>8. SeenArrived'
  <2> SUFFICES ASSUME NEW x \in Rank, NEW u \in Rank, NEW y \in Block,
                      phase'[x][y] \in {"sync", "reduce"}, u \notin toSee[x][y]
      PROVE  call[u] >= call[x] /\ Arrived(x, u, call[x], y)
    BY <1>1 DEF SeenArrived, Arrived, TilesOf
  <2>1. phase[x][y] \in {"sync", "reduce"}
    BY <1>1, <1>2
  <2>. QED
    BY <2>1 DEF SeenArrived
<1>9. PhasesInOrder'
  BY <1>1, <1>2 DEF PhasesInOrder
<1>10. SumsDone'
  BY <1>1, <1>3 DEF SumsDone, TilesOf
<1>. QED
  BY <1>5, <1>6, <1>7, <1>8, <1>9, <1>10 DEF IndInv

LEMMA ReduceStep ==
  ASSUME IndInv, NEW r \in Rank, NEW b \in Block, Reduce(r, b)
  PROVE  IndInv'
<1>0. TypeOK /\ CountersAgree /\ InStep /\ FlagsVouch /\ PushedArrived /\ SeenArrived
      /\ PhasesInOrder /\ SumsDone
  BY DEF IndInv
<1>. USE <1>0
<1>1. /\ UNCHANGED <<call, seq, width, toPush, toFlag, toSee, slot, flag>>
      /\ phase[r][b] = "reduce"
      /\ phase' = [phase EXCEPT ![r][b] = "off"]
  BY DEF Reduce
<1>2. /\ phase' \in [Rank -> [Block -> {"off", "push", "sync", "reduce"}]]
      /\ \A x \in Rank : \A y \in Block :
           phase'[x][y] = IF x = r /\ y = b THEN "off" ELSE phase[x][y]
  <2>1. /\ phase \in [Rank -> [Block -> {"off", "push", "sync", "reduce"}]]
        /\ "off" \in {"off", "push", "sync", "reduce"}
    BY DEF TypeOK
  <2>. QED
    BY <1>1, <2>1, ExceptTwice
<1>3. Running(r)
  BY <1>1 DEF Running
<1>4. /\ call[r] \in 0 .. MaxCalls /\ call[r] \in Nat
      /\ Par(r) = call[r] % 2 /\ Done(r) = call[r] - 1
  BY <1>3, CallFacts DEF TypeOK
<1>5. \A w \in Rank : call[w] >= call[r] /\ Arrived(r, w, call[r], b)
  BY <1>1 DEF SeenArrived, PhasesInOrder
\* The sums are over this call's data.
<1>6. /\ out' \in [Rank -> [Tile -> [Rank -> 0 .. MaxCalls]]]
      /\ \A x, w \in Rank : \A t \in Tile :
           out'[x][t][w] = IF x = r /\ t \in TilesOf(call[r], b) THEN call[r] ELSE out[x][t][w]
  <2> DEFINE sum == [t \in Tile |-> IF t \in TilesOf(call[r], b)
                                   THEN [w \in Rank |-> slot[r][Par(r)][w][t]]
                                   ELSE out[r][t]]
  <2>1. out \in [Rank -> [Tile -> [Rank -> 0 .. MaxCalls]]]
    BY DEF TypeOK
  <2>2. out' = [out EXCEPT ![r] = sum]
    BY DEF Reduce
  <2>3. \A t \in TilesOf(call[r], b) : \A w \in Rank : slot[r][Par(r)][w][t] = call[r]
    <3> SUFFICES ASSUME NEW t \in TilesOf(call[r], b), NEW w \in Rank
        PROVE  slot[r][Par(r)][w][t] = call[r]
      OBVIOUS
    <3>1. Arrived(r, w, call[r], b)
      BY <1>5
    <3>2. slot[r][call[r] % 2][w][t] = call[r]
      BY <3>1 DEF Arrived
    <3>. QED
      BY <1>4, <3>2
  <2>4. ASSUME NEW t \in Tile
        PROVE  /\ sum[t] \in [Rank -> 0 .. MaxCalls]
               /\ \A w \in Rank :
                    sum[t][w] = IF t \in TilesOf(call[r], b) THEN call[r] ELSE out[r][t][w]
    <3>1. CASE t \in TilesOf(call[r], b)
      <4>1. sum[t] = [w \in Rank |-> slot[r][Par(r)][w][t]]
        BY <3>1
      <4>. QED
        BY <1>4, <2>3, <3>1, <4>1
    <3>2. CASE t \notin TilesOf(call[r], b)
      <4>1. sum[t] = out[r][t]
        BY <3>2
      <4>. QED
        BY <2>1, <3>2, <4>1
    <3>. QED
      BY <3>1, <3>2
  <2>5. sum \in [Tile -> [Rank -> 0 .. MaxCalls]]
    <3>1. sum = [t \in Tile |-> sum[t]]
      OBVIOUS
    <3> HIDE DEF sum
    <3>. QED
      BY <2>4, <3>1
  <2> HIDE DEF sum
  <2>6. out' \in [Rank -> [Tile -> [Rank -> 0 .. MaxCalls]]]
    BY <2>1, <2>2, <2>5
  <2>7. \A x \in Rank : out'[x] = IF x = r THEN sum ELSE out[x]
    BY <2>1, <2>2
  <2>. QED
    BY <2>4, <2>6, <2>7
<1>7. ASSUME NEW x \in Rank
      PROVE  /\ Running(x)' => Running(x)
             /\ Done(x)' \in Nat /\ Done(x) <= Done(x)'
             /\ \A p \in Rank : Done(x)' <= call[p]
  <2>1. Running(x)' => Running(x)
    BY <1>2 DEF Running
  <2>2. call[x] \in Nat /\ Done(x) \in Nat /\ Done(x) <= call[x]
    BY CallFacts
  <2>3. \A p \in Rank : call[p] \in Nat /\ Done(x) <= call[p]
    BY CallFacts DEF InStep
  <2>4. CASE x = r
    <3>1. Done(x)' = call[r] \/ Done(x)' = call[r] - 1
      BY <1>1, <2>4 DEF Done
    <3>2. call[r] > 0 /\ \A p \in Rank : call[p] \in Nat /\ call[p] >= call[r]
      BY <1>3, <1>5, CallFacts
    <3>3. Done(x) = call[r] - 1
      BY <1>4, <2>4
    <3>4. Done(x)' \in Nat /\ Done(x) <= Done(x)' /\ Done(x)' <= call[r]
      BY <1>4, <3>1, <3>2, <3>3
    <3>. QED
      BY <1>4, <2>1, <3>2, <3>4
  <2>5. CASE x # r
    <3>1. Running(x)' = Running(x)
      BY <1>2, <2>5 DEF Running
    <3>2. Done(x)' = Done(x)
      BY <1>1, <3>1 DEF Done
    <3>. QED
      BY <2>1, <2>2, <2>3, <3>2
  <2>. QED
    BY <2>4, <2>5
<1>8. TypeOK'
  BY <1>1, <1>2, <1>6 DEF TypeOK
<1>9. CountersAgree' /\ InStep'
  BY <1>1, <1>7 DEF CountersAgree, InStep
<1>10. FlagsVouch'
  <2> SUFFICES ASSUME NEW p \in Rank, NEW w \in Rank, NEW q \in Parity
      PROVE  (/\ \A t \in Tile : slot[p][q][w][t] <= call[w] /\
                    (slot[p][q][w][t] > 0 => slot[p][q][w][t] % 2 = q)
              /\ \A y \in Block : flag[p][q][w][y] <= call[w] /\
                    (flag[p][q][w][y] > 0 => flag[p][q][w][y] % 2 = q) /\
                    (flag[p][q][w][y] > Done(p) => Arrived(p, w, flag[p][q][w][y], y)))'
    BY DEF FlagsVouch
  <2>1. \A t \in Tile : slot[p][q][w][t] <= call[w] /\
                        (slot[p][q][w][t] > 0 => slot[p][q][w][t] % 2 = q)
    BY DEF FlagsVouch
  <2>2. ASSUME NEW y \in Block
        PROVE  /\ flag[p][q][w][y] <= call[w]
               /\ flag[p][q][w][y] > 0 => flag[p][q][w][y] % 2 = q
               /\ flag[p][q][w][y] > Done(p)' => Arrived(p, w, flag[p][q][w][y], y)
    <3>1. /\ flag[p][q][w][y] <= call[w]
          /\ flag[p][q][w][y] > 0 => flag[p][q][w][y] % 2 = q
          /\ flag[p][q][w][y] > Done(p) => Arrived(p, w, flag[p][q][w][y], y)
      BY DEF FlagsVouch
    <3>2. flag[p][q][w][y] \in Nat
      BY CustomARAssumption DEF TypeOK
    <3>3. Done(p) \in Nat /\ Done(p)' \in Nat /\ Done(p) <= Done(p)'
      BY <1>7, CallFacts
    <3>. QED
      BY <3>1, <3>2, <3>3
  <2>. QED
    BY <1>1, <2>1, <2>2, SMTT(30) DEF Arrived, TilesOf
<1>11. \A x \in Rank : \A y \in Block : phase'[x][y] # "off" => phase[x][y] = phase'[x][y]
  BY <1>2
<1>12. PushedArrived'
  <2> SUFFICES ASSUME NEW w \in Rank, NEW p \in Rank, NEW y \in Block,
                      phase'[w][y] # "off", p \notin toPush[w][y]
      PROVE  Arrived(p, w, call[w], y)
    BY <1>1 DEF PushedArrived, Arrived, TilesOf
  <2>. QED
    BY <1>11 DEF PushedArrived
<1>13. SeenArrived'
  <2> SUFFICES ASSUME NEW x \in Rank, NEW u \in Rank, NEW y \in Block,
                      phase'[x][y] \in {"sync", "reduce"}, u \notin toSee[x][y]
      PROVE  call[u] >= call[x] /\ Arrived(x, u, call[x], y)
    BY <1>1 DEF SeenArrived, Arrived, TilesOf
  <2>. QED
    BY <1>11 DEF SeenArrived
<1>14. PhasesInOrder'
  BY <1>1, <1>2 DEF PhasesInOrder
<1>15. SumsDone'
  <2> SUFFICES ASSUME NEW x \in Rank, NEW w \in Rank, NEW y \in Block,
                      call[x] > 0, phase'[x][y] = "off", NEW t \in TilesOf(call[x], y)
      PROVE  out'[x][t][w] = call[x]
    BY <1>1 DEF SumsDone, TilesOf
  <2>1. t \in Tile
    BY DEF TilesOf
  <2>2. CASE x = r /\ y = b
    BY <1>6, <2>1, <2>2
  <2>3. CASE ~(x = r /\ y = b)
    <3>1. phase[x][y] = "off"
      BY <1>2, <2>3
    <3>2. out[x][t][w] = call[x]
      BY <3>1 DEF SumsDone
    <3>. QED
      BY <1>6, <2>1, <3>2
  <2>. QED
    BY <2>2, <2>3
<1>. QED
  BY <1>8, <1>9, <1>10, <1>12, <1>13, <1>14, <1>15 DEF IndInv

\* What a launch does: the rank's blocks start on a call of width c.
LEMMA LaunchEffect ==
  ASSUME NoWrap, IndInv, NEW r \in Rank, NEW c \in 1 .. MaxTiles, Launch(r, c)
  PROVE  /\ ~Running(r) /\ Running(r)'
         /\ call' = [call EXCEPT ![r] = call[r] + 1] /\ seq' = call' /\ call[r] < MaxCalls
         /\ width' \in Seq(1 .. MaxTiles)
         /\ Len(width') \in Nat /\ Len(width) \in Nat /\ Len(width) <= Len(width')
         /\ \A n \in 1 .. Len(width) : width'[n] = width[n]
         /\ call[r] + 1 <= Len(width') /\ width'[call[r] + 1] = c
<1>0. TypeOK /\ CountersAgree
  BY DEF IndInv
<1>1. /\ ~Running(r) /\ call[r] < MaxCalls
      /\ call' = [call EXCEPT ![r] = call[r] + 1]
      /\ seq' = [seq EXCEPT ![r] = IF seq[r] = SeqMod - 1 THEN 0 ELSE seq[r] + 1]
      /\ phase' = [phase EXCEPT ![r] = [b \in Block |-> IF b < Blocks(c) THEN "push" ELSE "off"]]
      /\ IF call[r] < Len(width) THEN c = width[call[r] + 1] /\ width' = width
         ELSE width' = Append(width, c)
  BY DEF Launch
<1>2. call[r] \in Nat /\ call[r] <= Len(width) /\ seq = call
  BY <1>0, CallFacts DEF CountersAgree
<1>3. seq' = call'
  <2>1. seq[r] # SeqMod - 1
    BY <1>1, <1>2, CustomARAssumption DEF NoWrap
  <2>2. seq' = [seq EXCEPT ![r] = seq[r] + 1]
    BY <1>1, <2>1
  <2>. QED
    BY <1>1, <1>2, <2>2
<1>4. Running(r)'
  <2>1. 0 \in Block /\ 0 < Blocks(c)
    BY CustomARAssumption DEF Block, Blocks
  <2>2. phase'[r] = [b \in Block |-> IF b < Blocks(c) THEN "push" ELSE "off"]
    BY <1>0, <1>1 DEF TypeOK
  <2>3. phase'[r][0] # "off"
    BY <2>1, <2>2
  <2>. QED
    BY <2>1, <2>3 DEF Running
<1>5. width \in Seq(1 .. MaxTiles) /\ Len(width) \in Nat
  BY <1>0, LenProperties DEF TypeOK
<1>6. /\ width' \in Seq(1 .. MaxTiles)
      /\ Len(width') \in Nat /\ Len(width) <= Len(width')
      /\ \A n \in 1 .. Len(width) : width'[n] = width[n]
      /\ call[r] + 1 <= Len(width') /\ width'[call[r] + 1] = c
  <2>1. CASE call[r] < Len(width)
    BY <1>1, <1>2, <1>5, <2>1
  <2>2. CASE ~(call[r] < Len(width))
    <3>1. width' = Append(width, c) /\ call[r] = Len(width)
      BY <1>1, <1>2, <1>5, <2>2
    <3>2. /\ Append(width, c) \in Seq(1 .. MaxTiles)
          /\ Len(Append(width, c)) = Len(width) + 1
          /\ \A n \in 1 .. Len(width) : Append(width, c)[n] = width[n]
          /\ Append(width, c)[Len(width) + 1] = c
      BY <1>5, AppendProperties
    <3>. QED
      BY <1>5, <3>1, <3>2
  <2>. QED
    BY <2>1, <2>2
<1>. QED
  BY <1>1, <1>3, <1>4, <1>5, <1>6

LEMMA LaunchStep ==
  ASSUME NoWrap, IndInv, NEW r \in Rank, NEW c \in 1 .. MaxTiles, Launch(r, c)
  PROVE  IndInv'
<1>0. TypeOK /\ CountersAgree /\ InStep /\ FlagsVouch /\ PushedArrived /\ SeenArrived
      /\ PhasesInOrder /\ SumsDone
  BY DEF IndInv
<1>. USE <1>0
<1>1. /\ UNCHANGED <<toFlag, toSee, slot, flag, out>>
      /\ phase' = [phase EXCEPT ![r] = [b \in Block |-> IF b < Blocks(c) THEN "push" ELSE "off"]]
      /\ toPush' = [toPush EXCEPT ![r] = [b \in Block |-> Rank]]
  BY DEF Launch
<1>2. /\ ~Running(r) /\ Running(r)'
      /\ call' = [call EXCEPT ![r] = call[r] + 1] /\ seq' = call' /\ call[r] < MaxCalls
      /\ width' \in Seq(1 .. MaxTiles)
      /\ Len(width') \in Nat /\ Len(width) \in Nat /\ Len(width) <= Len(width')
      /\ \A n \in 1 .. Len(width) : width'[n] = width[n]
      /\ call[r] + 1 <= Len(width') /\ width'[call[r] + 1] = c
  BY LaunchEffect
<1>3. /\ phase' \in [Rank -> [Block -> {"off", "push", "sync", "reduce"}]]
      /\ \A y \in Block : phase'[r][y] = IF y < Blocks(c) THEN "push" ELSE "off"
      /\ \A x \in Rank \ {r} : phase'[x] = phase[x]
  <2>1. [b \in Block |-> IF b < Blocks(c) THEN "push" ELSE "off"]
          \in [Block -> {"off", "push", "sync", "reduce"}]
    OBVIOUS
  <2>2. phase \in [Rank -> [Block -> {"off", "push", "sync", "reduce"}]]
    BY DEF TypeOK
  <2>. QED
    BY <1>1, <2>1, <2>2
<1>4. /\ toPush' \in [Rank -> [Block -> SUBSET Rank]]
      /\ \A y \in Block : toPush'[r][y] = Rank
      /\ \A x \in Rank \ {r} : toPush'[x] = toPush[x]
  <2>1. [b \in Block |-> Rank] \in [Block -> SUBSET Rank]
    OBVIOUS
  <2>2. toPush \in [Rank -> [Block -> SUBSET Rank]]
    BY DEF TypeOK
  <2>. QED
    BY <1>1, <2>1, <2>2
<1>5. /\ call' \in [Rank -> 0 .. MaxCalls] /\ call'[r] = call[r] + 1
      /\ \A x \in Rank : call[x] \in Nat /\ call'[x] \in Nat /\ call[x] <= call'[x]
      /\ \A x \in Rank \ {r} : call'[x] = call[x]
  <2>1. call \in [Rank -> 0 .. MaxCalls] /\ MaxCalls \in Nat
    BY CustomARAssumption DEF TypeOK
  <2>. QED
    BY <1>2, <2>1
<1>6. ASSUME NEW x \in Rank
      PROVE  Done(x)' = Done(x) /\ (x # r => Running(x)' = Running(x))
  <2>1. CASE x = r
    BY <1>2, <1>5, <2>1 DEF Done
  <2>2. CASE x # r
    <3>1. Running(x)' = Running(x)
      BY <1>3, <2>2 DEF Running
    <3>. QED
      BY <1>5, <2>2, <3>1 DEF Done
  <2>. QED
    BY <2>1, <2>2
<1>7. TypeOK'
  <2>1. seq' \in [Rank -> 0 .. SeqMod - 1]
    BY <1>2, <1>5, CustomARAssumption DEF NoWrap
  <2>. QED
    BY <1>1, <1>2, <1>3, <1>4, <1>5, <2>1 DEF TypeOK
<1>8. CountersAgree'
  <2>1. ASSUME NEW x \in Rank
        PROVE  call'[x] <= Len(width') /\ (Running(x)' => call'[x] > 0)
    BY <1>2, <1>5, <1>6, CallFacts
  <2>. QED
    BY <1>2, <2>1 DEF CountersAgree
<1>9. InStep'
  <2>1. ASSUME NEW x \in Rank, NEW p \in Rank
        PROVE  Done(x)' <= call'[p]
    <3>1. Done(x) <= call[p] /\ Done(x) \in Nat
      BY CallFacts DEF InStep
    <3>. QED
      BY <1>5, <1>6, <3>1
  <2>. QED
    BY <2>1 DEF InStep
\* What has arrived of an earlier call is not touched.
<1>10. ASSUME NEW p \in Rank, NEW w \in Rank, NEW y \in Block, NEW n \in 1 .. Len(width),
              Arrived(p, w, n, y)
       PROVE  \A t \in Tile : t < width'[n] /\ t % Blocks(width'[n]) = y => slot[p][n % 2][w][t] = n
  BY <1>2, <1>10, SMTT(30) DEF Arrived, TilesOf
<1>11. FlagsVouch'
  <2> SUFFICES ASSUME NEW p \in Rank, NEW w \in Rank, NEW q \in Parity
      PROVE  (/\ \A t \in Tile : slot[p][q][w][t] <= call[w] /\
                    (slot[p][q][w][t] > 0 => slot[p][q][w][t] % 2 = q)
              /\ \A y \in Block : flag[p][q][w][y] <= call[w] /\
                    (flag[p][q][w][y] > 0 => flag[p][q][w][y] % 2 = q) /\
                    (flag[p][q][w][y] > Done(p) => Arrived(p, w, flag[p][q][w][y], y)))'
    BY DEF FlagsVouch
  <2>1. ASSUME NEW t \in Tile
        PROVE  slot[p][q][w][t] <= call'[w] /\ (slot[p][q][w][t] > 0 => slot[p][q][w][t] % 2 = q)
    <3>1. slot[p][q][w][t] <= call[w] /\ (slot[p][q][w][t] > 0 => slot[p][q][w][t] % 2 = q)
      BY DEF FlagsVouch
    <3>2. slot[p][q][w][t] \in 0 .. MaxCalls
      BY DEF TypeOK
    <3>. QED
      BY <1>5, <3>1, <3>2, CustomARAssumption
  <2>2. ASSUME NEW y \in Block, NEW n, n = flag[p][q][w][y]
        PROVE  n <= call'[w] /\ (n > 0 => n % 2 = q) /\
               (n > Done(p) => \A t \in Tile : t < width'[n] /\ t % Blocks(width'[n]) = y =>
                                  slot[p][n % 2][w][t] = n)
    <3>1. n <= call[w] /\ (n > 0 => n % 2 = q) /\ (n > Done(p) => Arrived(p, w, n, y))
      BY <2>2 DEF FlagsVouch
    <3>2. n \in Nat
      BY <2>2, CustomARAssumption DEF TypeOK
    <3>3. n <= call'[w]
      BY <1>5, <3>1, <3>2
    <3>4. n > Done(p) => n \in 1 .. Len(width)
      BY <1>2, <1>5, <3>1, <3>2, CallFacts
    <3>. QED
      BY <1>10, <3>1, <3>3, <3>4
  <2>. QED
    BY <1>1, <1>6, <2>1, <2>2, SMTT(30) DEF Arrived, TilesOf
<1>12. PushedArrived'
  <2> SUFFICES ASSUME NEW w \in Rank, NEW p \in Rank, NEW y \in Block,
                      phase'[w][y] # "off", p \notin toPush'[w][y],
                      NEW n, n = call'[w]
      PROVE  \A t \in Tile : t < width'[n] /\ t % Blocks(width'[n]) = y => slot[p][n % 2][w][t] = n
    BY <1>1 DEF PushedArrived, Arrived, TilesOf
  <2>1. w # r
    BY <1>4
  <2>2. n = call[w] /\ phase[w][y] # "off" /\ p \notin toPush[w][y]
    BY <1>3, <1>4, <1>5, <2>1
  <2>3. Running(w)
    BY <2>2 DEF Running
  <2>4. n \in 1 .. Len(width)
    <3>1. n \in Nat /\ n > 0 /\ n <= Len(width)
      BY <2>2, <2>3, CallFacts
    <3>. QED
      BY <1>2, <3>1
  <2>. QED
    BY <1>10, <2>2, <2>4 DEF PushedArrived
<1>13. SeenArrived'
  <2> SUFFICES ASSUME NEW x \in Rank, NEW w \in Rank, NEW y \in Block,
                      phase'[x][y] \in {"sync", "reduce"}, w \notin toSee[x][y],
                      NEW n, n = call'[x]
      PROVE  call'[w] >= n /\
             \A t \in Tile : t < width'[n] /\ t % Blocks(width'[n]) = y => slot[x][n % 2][w][t] = n
    BY <1>1 DEF SeenArrived, Arrived, TilesOf
  <2>1. x # r
    BY <1>3
  <2>2. n = call[x] /\ phase[x][y] \in {"sync", "reduce"}
    BY <1>3, <1>5, <2>1
  <2>3. Running(x)
    BY <2>2 DEF Running
  <2>4. n \in 1 .. Len(width)
    <3>1. n \in Nat /\ n > 0 /\ n <= Len(width)
      BY <2>2, <2>3, CallFacts
    <3>. QED
      BY <1>2, <3>1
  <2>5. call[w] >= n /\ Arrived(x, w, n, y)
    BY <2>2 DEF SeenArrived
  <2>. QED
    BY <1>5, <1>10, <2>2, <2>4, <2>5
<1>14. PhasesInOrder'
  <2> SUFFICES ASSUME NEW x \in Rank, NEW y \in Block
      PROVE  /\ phase'[x][y] \in {"sync", "reduce"} => toPush'[x][y] = {}
             /\ phase'[x][y] = "reduce" => toSee[x][y] = {}
    BY <1>1 DEF PhasesInOrder
  <2>. QED
    BY <1>3, <1>4 DEF PhasesInOrder
<1>15. SumsDone'
  <2> SUFFICES ASSUME NEW x \in Rank, NEW w \in Rank, NEW y \in Block,
                      NEW n, n = call'[x], n > 0, phase'[x][y] = "off",
                      NEW t \in Tile, t < width'[n], t % Blocks(width'[n]) = y
      PROVE  out[x][t][w] = n
    BY <1>1 DEF SumsDone, TilesOf
  <2>1. CASE x = r
    <3>1. width'[n] = c
      BY <1>2, <1>5, <2>1
    <3>2. Blocks(c) \in Nat \ {0} /\ t \in Nat /\ y \in Nat
      BY CustomARAssumption DEF Blocks, Tile, Block
    <3>3. t % Blocks(c) < Blocks(c)
      BY <3>2
    <3>4. ~(y < Blocks(c))
      BY <1>3, <2>1
    <3>. QED
      BY <3>1, <3>3, <3>4
  <2>2. CASE x # r
    <3>1. n = call[x] /\ phase[x][y] = "off"
      BY <1>3, <1>5, <2>2
    <3>2. n \in 1 .. Len(width)
      BY <1>2, <1>5, <3>1, CallFacts
    <3>3. t \in TilesOf(n, y)
      BY <1>2, <3>2 DEF TilesOf
    <3>. QED
      BY <3>1, <3>3 DEF SumsDone
  <2>. QED
    BY <2>1, <2>2
<1>. QED
  BY <1>7, <1>8, <1>9, <1>11, <1>12, <1>13, <1>14, <1>15 DEF IndInv

-----------------------------------------------------------------------------
(* The invariant *)

LEMMA InitInv == Init => IndInv
<1> SUFFICES ASSUME Init PROVE IndInv
  OBVIOUS
<1>1. TypeOK
  <2>1. 0 \in 0 .. MaxCalls /\ 0 \in 0 .. SeqMod - 1
    BY CustomARAssumption
  <2>2. width \in Seq(1 .. MaxTiles)
    BY EmptySeq DEF Init
  <2>. QED
    BY <2>1, <2>2 DEF Init, TypeOK
<1>2. \A r \in Rank : ~Running(r) /\ call[r] = 0 /\ Done(r) = 0
  BY DEF Init, Running, Done
<1>3. CountersAgree
  <2>1. Len(width) = 0
    BY EmptySeq DEF Init
  <2>2. seq = call
    BY DEF Init
  <2>. QED
    BY <1>2, <2>1, <2>2 DEF CountersAgree
<1>4. InStep
  BY <1>2 DEF InStep
<1>5. FlagsVouch
  <2> SUFFICES ASSUME NEW p \in Rank, NEW w \in Rank, NEW q \in Parity
      PROVE  /\ \A t \in Tile : slot[p][q][w][t] = 0
             /\ \A b \in Block : flag[p][q][w][b] = 0
    BY <1>2 DEF FlagsVouch
  <2>. QED
    BY DEF Init
<1>6. PushedArrived /\ SeenArrived /\ PhasesInOrder
  BY DEF Init, PushedArrived, SeenArrived, PhasesInOrder
<1>7. SumsDone
  BY <1>2 DEF SumsDone
<1>. QED
  BY <1>1, <1>3, <1>4, <1>5, <1>6, <1>7 DEF IndInv

LEMMA StutterStep ==
  ASSUME IndInv, UNCHANGED vars
  PROVE  IndInv'
<1>. USE DEF IndInv
<1>1. UNCHANGED <<call, seq, width, phase, toPush, toFlag, toSee, slot, flag, out>>
  BY DEF vars
<1>2. TypeOK'
  BY <1>1 DEF TypeOK
<1>3. \A x \in Rank : Running(x)' = Running(x) /\ Done(x)' = Done(x)
  BY <1>1 DEF Done, Running
<1>4. CountersAgree' /\ InStep' /\ FlagsVouch'
  BY <1>1, <1>3, SameContent
<1>5. PushedArrived' /\ SeenArrived' /\ PhasesInOrder' /\ SumsDone'
  BY <1>1, SMTT(30) DEF PushedArrived, SeenArrived, PhasesInOrder, SumsDone, Arrived, TilesOf
<1>. QED
  BY <1>2, <1>4, <1>5

LEMMA NextInv ==
  ASSUME NoWrap, IndInv, [Next]_vars
  PROVE  IndInv'
<1>1. CASE UNCHANGED vars
  BY <1>1, StutterStep
<1>2. ASSUME NEW r \in Rank, NEW c \in 1 .. MaxTiles, Launch(r, c) PROVE IndInv'
  BY <1>2, LaunchStep
<1>3. ASSUME NEW r \in Rank, NEW b \in Block, Step(r, b) PROVE IndInv'
  <2>1. ASSUME NEW p \in Rank, Push(r, b, p) PROVE IndInv'
    BY <2>1, PushStep
  <2>2. ASSUME NEW p \in Rank, Raise(r, b, p) PROVE IndInv'
    BY <2>2, RaiseStep
  <2>3. ASSUME NEW p \in Rank, See(r, b, p) PROVE IndInv'
    BY <2>3, SeeStep
  <2>4. CASE Fence(r, b)
    BY <2>4, FenceStep
  <2>5. CASE Pass(r, b)
    BY <2>5, PassStep
  <2>6. CASE Reduce(r, b)
    BY <2>6, ReduceStep
  <2>. QED
    BY <1>3, <2>1, <2>2, <2>3, <2>4, <2>5, <2>6 DEF Step
<1>4. CASE Drained
  BY <1>4, StutterStep DEF Drained
<1>. QED
  BY <1>1, <1>2, <1>3, <1>4 DEF Next

LEMMA Inductive == ASSUME NoWrap PROVE Spec => []IndInv
<1>1. Init => IndInv
  BY InitInv
<1>2. IndInv /\ [Next]_vars => IndInv'
  BY NextInv
<1>. QED
  BY <1>1, <1>2, PTL DEF Spec

-----------------------------------------------------------------------------
(* What the invariant says of the all-reduce *)

\* Below the wrap, counters, phases, slots, flags and sums stay in their ranges.
THEOREM TypeCorrect == ASSUME NoWrap PROVE Spec => []TypeOK
<1>1. IndInv => TypeOK
  BY DEF IndInv
<1>. QED
  BY <1>1, Inductive, PTL

\* Below the wrap, a block that sums finds only data of its own call in every
\* slot, however far the other ranks are (cuda/custom_ar.cu:73-92).
THEOREM SumsReadThisCall == ASSUME NoWrap PROVE Spec => []ReadsThisCall
<1>1. IndInv => ReadsThisCall
  <2> SUFFICES ASSUME IndInv, NEW r \in Rank, NEW b \in Block, phase[r][b] = "reduce",
                      NEW w \in Rank, NEW t \in TilesOf(call[r], b)
      PROVE  slot[r][Par(r)][w][t] = call[r]
    BY DEF ReadsThisCall
  <2>1. Par(r) = call[r] % 2
    BY CallFacts DEF IndInv
  <2>2. Arrived(r, w, call[r], b)
    BY DEF IndInv, SeenArrived, PhasesInOrder
  <2>. QED
    BY <2>1, <2>2 DEF Arrived
<1>. QED
  BY <1>1, Inductive, PTL

\* Below the wrap, no rank is two calls ahead of another: two buffers are enough
\* (cuda/custom_ar.cu:16-18).
THEOREM SkewIsAtMostOne == ASSUME NoWrap PROVE Spec => []SkewAtMostOne
<1>1. IndInv => SkewAtMostOne
  <2> SUFFICES ASSUME IndInv, NEW r \in Rank, NEW p \in Rank
      PROVE  call[r] <= call[p] + 1
    BY DEF SkewAtMostOne
  <2>1. call[r] \in Nat /\ call[p] \in Nat /\ Done(r) \in Nat /\ call[r] <= Done(r) + 1
    BY CallFacts DEF IndInv
  <2>2. Done(r) <= call[p]
    BY DEF IndInv, InStep
  <2>. QED
    BY <2>1, <2>2
<1>. QED
  BY <1>1, Inductive, PTL

\* Below the wrap, data is overwritten only when the rank that owns the slot is
\* through with the call it was for, whatever the ranks' speeds.
THEOREM SlotsAreRead == ASSUME NoWrap PROVE Spec => OverwritesOnlyReadData
<1>1. IndInv /\ [Next]_vars =>
        [\A p, w \in Rank : \A q \in Parity : \A t \in Tile :
           LET old == slot[p][q][w][t]
           IN slot'[p][q][w][t] # old /\ old > 0 =>
                call[p] > old \/ (call[p] = old /\ ~Running(p))]_vars
  <2> SUFFICES ASSUME IndInv, Next,
                      NEW p \in Rank, NEW w \in Rank, NEW q \in Parity, NEW t \in Tile,
                      NEW old, old = slot[p][q][w][t], slot'[p][q][w][t] # old, old > 0
      PROVE  call[p] > old
    OBVIOUS
  <2>1. TypeOK /\ CountersAgree /\ InStep /\ FlagsVouch
    BY DEF IndInv
  <2>2. PICK r \in Rank, b \in Block, x \in Rank : Push(r, b, x)
    BY DEF Next, Step, Launch, Raise, See, Fence, Pass, Reduce, Drained, vars
  <2>3. call[r] \in 0 .. MaxCalls /\ Par(r) \in Parity
    BY <2>1, CallFacts DEF TypeOK
  <2>4. slot \in [Rank -> [Parity -> [Rank -> [Tile -> 0 .. MaxCalls]]]]
    BY <2>1 DEF TypeOK
  <2> DEFINE new == [u \in Tile |-> IF u \in TilesOf(call[r], b) THEN call[r]
                                   ELSE slot[x][Par(r)][r][u]]
  <2>5. slot' = [slot EXCEPT ![x][Par(r)][r] = new]
    BY <2>2 DEF Push
  <2>6. new[t] = call[r] \/ new[t] = slot[x][Par(r)][r][t]
    OBVIOUS
  <2> HIDE DEF new
  <2>7. slot'[p][q][w] = IF p = x /\ q = Par(r) /\ w = r THEN new ELSE slot[p][q][w]
    BY <2>3, <2>4, <2>5
  <2>8. p = x /\ q = Par(r) /\ w = r /\ old # call[r]
    BY <2>6, <2>7
  <2>9. old \in Nat /\ old <= call[r] /\ old % 2 = Par(r)
    <3>1. old <= call[w] /\ old % 2 = q
      BY <2>1 DEF FlagsVouch
    <3>2. old \in 0 .. MaxCalls
      BY <2>4
    <3>. QED
      BY <2>8, <3>1, <3>2, CustomARAssumption
  <2>10. /\ call[r] \in Nat /\ Par(r) = call[r] % 2 /\ call[r] <= Done(r) + 1
         /\ Done(r) \in Nat /\ Done(r) <= call[p] /\ call[p] \in Nat
    BY <2>1, CallFacts DEF InStep
  <2>11. old <= call[r] - 2
    BY <2>8, <2>9, <2>10, ParityFacts
  <2>. QED
    BY <2>9, <2>10, <2>11
<1>. QED
  BY <1>1, Inductive, PTL DEF Spec, OverwritesOnlyReadData

-----------------------------------------------------------------------------
(* The kernel implements the all-reduce *)

\* The sum a rank holds between calls is that of its last call.
GotLast == Got = [r \in Rank |-> IF Running(r) THEN 0 ELSE call[r]]

LEMMA GotFact == IndInv => GotLast
<1> SUFFICES ASSUME IndInv, NEW r \in Rank, ~Running(r), call[r] > 0,
                    NEW t \in 0 .. width[call[r]] - 1, NEW w \in Rank
    PROVE  out[r][t][w] = call[r]
  <2>1. ASSUME IndInv, NEW r \in Rank
        PROVE  call[r] \in Nat
    BY <2>1, CallFacts DEF IndInv
  <2>. QED
    BY <2>1 DEF GotLast, Got
<1>1. TypeOK /\ CountersAgree /\ SumsDone
  BY DEF IndInv
<1>2. call[r] \in 1 .. Len(width)
  <2>1. call[r] \in Nat /\ call[r] <= Len(width)
    BY <1>1, CallFacts
  <2>2. Len(width) \in Nat
    BY <1>1, LenProperties DEF TypeOK
  <2>. QED
    BY <2>1, <2>2
<1>3. width[call[r]] \in 1 .. MaxTiles
  BY <1>1, <1>2, TileFacts
<1> DEFINE nb == Blocks(width[call[r]])
<1>4. nb \in Nat \ {0} /\ nb <= MaxBlocks /\ t \in Tile /\ t \in Nat /\ t < width[call[r]]
  BY <1>3, CustomARAssumption DEF Blocks, Tile
<1> HIDE DEF nb
<1>5. t % nb \in 0 .. nb - 1
  BY <1>4
<1>6. t % nb \in Block
  BY <1>4, <1>5, CustomARAssumption DEF Block
<1>7. t \in TilesOf(call[r], t % nb)
  BY <1>4 DEF TilesOf, nb
<1>8. phase[r][t % nb] = "off"
  BY <1>6 DEF Running
<1>. QED
  BY <1>1, <1>6, <1>7, <1>8 DEF SumsDone

LEMMA GotFactNext == IndInv' => GotLast'
BY GotFact, PTL

\* Steps of a running block that do not end the call map to stutters.
LEMMA QuietStep ==
  ASSUME IndInv, IndInv', call' = call,
         \A x \in Rank : Running(x)' <=> Running(x)
  PROVE  UNCHANGED Sum!vars
<1>1. Finished' = Finished
  BY DEF Finished, Done
<1>2. Got' = Got
  BY GotFact, GotFactNext DEF GotLast
<1>. QED
  BY <1>1, <1>2 DEF Sum!vars

LEMMA LaunchEnters ==
  ASSUME NoWrap, IndInv, IndInv', NEW r \in Rank, NEW c \in 1 .. MaxTiles, Launch(r, c)
  PROVE  Sum!Enter(r)
<1>1. TypeOK /\ CountersAgree
  BY DEF IndInv
<1>2. ~Running(r) /\ Running(r)' /\ call' = [call EXCEPT ![r] = call[r] + 1]
  BY LaunchEffect
<1>3. \A x \in Rank \ {r} : Running(x)' = Running(x)
  <2>1. \A x \in Rank \ {r} : phase'[x] = phase[x]
    BY <1>1 DEF Launch, TypeOK
  <2>. QED
    BY <2>1 DEF Running
<1>4. call[r] \in Nat /\ call \in [Rank -> 0 .. MaxCalls]
  BY <1>1, CallFacts DEF TypeOK
<1>5. call[r] = Finished[r]
  BY <1>2 DEF Finished, Done
<1>6. Finished' = Finished
  <2>1. ASSUME NEW x \in Rank
        PROVE  Done(x)' = Done(x)
    BY <1>2, <1>3, <1>4 DEF Done
  <2>. QED
    BY <2>1 DEF Finished
<1>7. Got' = [Got EXCEPT ![r] = 0]
  <2>1. /\ Got = [x \in Rank |-> IF Running(x) THEN 0 ELSE call[x]]
        /\ Got' = [x \in Rank |-> IF Running(x)' THEN 0 ELSE call'[x]]
    BY GotFact, GotFactNext DEF GotLast
  <2>. QED
    BY <1>2, <1>3, <1>4, <2>1
<1>. QED
  BY <1>2, <1>5, <1>6, <1>7 DEF Sum!Enter

LEMMA ReduceReturns ==
  ASSUME NoWrap, IndInv, IndInv', NEW r \in Rank, NEW b \in Block, Reduce(r, b)
  PROVE  Sum!Return(r) \/ UNCHANGED Sum!vars
<1>1. TypeOK /\ CountersAgree /\ SeenArrived /\ PhasesInOrder
  BY DEF IndInv
<1>2. call' = call /\ phase[r][b] = "reduce" /\ Running(r)
  BY DEF Reduce, Running
<1>3. \A x \in Rank \ {r} : Running(x)' = Running(x)
  <2>1. \A x \in Rank \ {r} : phase'[x] = phase[x]
    BY <1>1 DEF Reduce, TypeOK
  <2>. QED
    BY <2>1 DEF Running
<1>4. CASE Running(r)'
  <2>1. \A x \in Rank : Running(x)' <=> Running(x)
    BY <1>2, <1>3, <1>4
  <2>. QED
    BY <1>2, <2>1, QuietStep
<1>5. CASE ~Running(r)'
  <2>1. call[r] \in Nat /\ Finished[r] = call[r] - 1
    BY <1>1, <1>2, CallFacts DEF Finished
  <2>2. \A p \in Rank : call[p] >= call[r]
    BY <1>1, <1>2 DEF SeenArrived, PhasesInOrder
  <2>3. Finished' = [Finished EXCEPT ![r] = Finished[r] + 1]
    <3>1. Finished' = [x \in Rank |-> IF x = r THEN call[r] ELSE Done(x)]
      <4>1. ASSUME NEW x \in Rank
            PROVE  Done(x)' = IF x = r THEN call[r] ELSE Done(x)
        BY <1>2, <1>3, <1>5 DEF Done
      <4>. QED
        BY <4>1 DEF Finished
    <3>2. Finished[r] + 1 = call[r]
      BY <2>1
    <3>. QED
      BY <3>1, <3>2 DEF Finished
  <2>4. Got' = [Got EXCEPT ![r] = call[r]]
    <3>1. /\ Got = [x \in Rank |-> IF Running(x) THEN 0 ELSE call[x]]
          /\ Got' = [x \in Rank |-> IF Running(x)' THEN 0 ELSE call'[x]]
      BY GotFact, GotFactNext DEF GotLast
    <3>. QED
      BY <1>2, <1>3, <1>5, <3>1
  <2>. QED
    BY <1>2, <2>1, <2>2, <2>3, <2>4 DEF Sum!Return
<1>. QED
  BY <1>4, <1>5

LEMMA StepImplements ==
  ASSUME NoWrap, IndInv, IndInv', [Next]_vars
  PROVE  [Sum!Next]_(Sum!vars)
<1>1. ASSUME NEW r \in Rank, NEW c \in 1 .. MaxTiles, Launch(r, c)
      PROVE  [Sum!Next]_(Sum!vars)
  BY <1>1, LaunchEnters DEF Sum!Next
<1>2. ASSUME NEW r \in Rank, NEW b \in Block, Reduce(r, b)
      PROVE  [Sum!Next]_(Sum!vars)
  BY <1>2, ReduceReturns DEF Sum!Next
<1>3. ASSUME NEW r \in Rank, NEW b \in Block, Fence(r, b) \/ Pass(r, b)
      PROVE  UNCHANGED Sum!vars
  <2>1. phase \in [Rank -> [Block -> {"off", "push", "sync", "reduce"}]]
    BY DEF IndInv, TypeOK
  <2>2. PICK f \in {"sync", "reduce"} : phase' = [phase EXCEPT ![r][b] = f]
    BY <1>3 DEF Fence, Pass
  <2>3. \A x \in Rank : \A y \in Block :
          phase'[x][y] = IF x = r /\ y = b THEN f ELSE phase[x][y]
    BY <2>1, <2>2, ExceptTwice
  <2>4. call' = call /\ phase[r][b] # "off"
    BY <1>3 DEF Fence, Pass
  <2>5. \A x \in Rank : Running(x)' <=> Running(x)
    BY <2>3, <2>4 DEF Running
  <2>. QED
    BY <2>4, <2>5, QuietStep
<1>4. ASSUME NEW r \in Rank, NEW b \in Block, NEW p \in Rank,
             Push(r, b, p) \/ Raise(r, b, p) \/ See(r, b, p)
      PROVE  UNCHANGED Sum!vars
  <2>1. call' = call /\ phase' = phase
    BY <1>4 DEF Push, Raise, See
  <2>. QED
    BY <2>1, QuietStep DEF Running
<1>5. CASE Drained \/ UNCHANGED vars
  <2>1. call' = call /\ phase' = phase
    BY <1>5 DEF Drained, vars
  <2>. QED
    BY <2>1, QuietStep DEF Running
<1>. QED
  BY <1>1, <1>2, <1>3, <1>4, <1>5 DEF Next, Step

\* Below the wrap, the kernel is an all-reduce: a call returns on a rank only when
\* all ranks have made it, and with the data every rank gave to that call.
THEOREM KernelImplementsAllReduce == ASSUME NoWrap PROVE Spec => ImplementsAllReduce
<1>1. Init => Sum!Init
  <2> SUFFICES ASSUME Init PROVE Sum!Init
    OBVIOUS
  <2>1. \A r \in Rank : ~Running(r)
    BY DEF Init, Running
  <2>2. Finished = [r \in Rank |-> 0]
    BY <2>1 DEF Init, Finished, Done
  <2>3. Got = [r \in Rank |-> 0]
    BY DEF Init, Got
  <2>. QED
    BY <2>2, <2>3 DEF Init, Sum!Init
<1>2. IndInv /\ IndInv' /\ [Next]_vars => [Sum!Next]_(Sum!vars)
  BY StepImplements
<1>. QED
  BY <1>1, <1>2, Inductive, PTL DEF Spec, ImplementsAllReduce, Sum!Spec

=============================================================================
