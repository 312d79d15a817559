--------------------------- MODULE CpuEngineProofs ---------------------------
(***************************************************************************)
(* Proofs about CpuEngine, for every vocabulary, model, set of requests,   *)
(* block size, pool and index_topk.                                        *)
(***************************************************************************)
EXTENDS CpuEngine, StreamLemmas

-----------------------------------------------------------------------------
(* The inductive invariant *)

Cap == NumBlocks * BlockSize

\* What a slot can hold: no stream is longer than the pool.
Held == {s \in Stream : Len(s) <= Cap}
Memory == [Block -> [Offset -> [kv : Held, key : Held]]]

\* The free list and the block table are a permutation of the blocks.
Permutation(owned) ==
  /\ owned \in Seq(Block)
  /\ Len(owned) = NumBlocks
  /\ \A i, j \in 1 .. Len(owned) : i # j => owned[i] # owned[j]
  /\ \A b \in Block : \E i \in 1 .. Len(owned) : owned[i] = b

\* The rows below n hold stream s; the index keys too if no pass was ever dense.
Rows(tab, m, s, n) ==
  \A p \in 0 .. n - 1 :
    /\ ~Crossed(p + 1) => Slot(tab, m, p).kv = SubSeq(s, 1, p + 1)
    /\ plen > IndexTopk => Slot(tab, m, p).key = SubSeq(s, 1, p + 1)

\* The stream whose rows are in the cache: in a group, with the drafts to compare.
Running == IF pc = "verify" THEN all \o draft ELSE all

Types ==
  /\ TypeOK
  /\ mem \in Memory
  /\ logits \in Held
  /\ free \in Seq(Block) /\ table \in Seq(Block)
  /\ len <= Len(table) * BlockSize
  /\ plen <= Len(all)

\* Where the request is and how long the cache.
Lengths ==
  /\ active = IF pc \in {"idle", "admit"} THEN 0 ELSE 1
  /\ pc \in {"idle", "admit", "prefill"} => len = 0 /\ table = <<>>
  /\ pc \in {"admit", "prefill"} => plen = Len(all)
  /\ pc \in {"loop", "redo"} => len = Len(all)
  /\ pc = "decode" => len = Len(all) - 1 /\ ~Speculates
  /\ pc = "verify" => len = oldLen + Len(draft) /\ oldLen = Len(all) /\ draft # <<>> /\ oldLen > 0
  /\ pc \in {"loop", "decode", "verify", "redo"} => len > 0
  /\ pc \in {"verify", "redo"} => Speculates

\* What the cache and the logits in hand were computed from.
Computes ==
  /\ pc \in {"loop", "decode", "verify", "redo"} => Rows(table, mem, Running, len)
  /\ pc \in {"loop", "verify", "redo"} /\ ~Crossed(Len(all)) => logits = all
  /\ pc = "redo" => draft = <<Greedy(logits)>>

IndInv ==
  /\ Types
  /\ Permutation(free \o table)
  /\ Lengths
  /\ Computes
  /\ EmittedGreedy
  /\ PoolFitsContext

-----------------------------------------------------------------------------
(* Blocks and rows *)

LEMMA DivBounds ==
  ASSUME NEW a \in Nat, NEW b \in Nat \ {0}
  PROVE  /\ a \div b \in Nat /\ a % b \in 0 .. b - 1
         /\ a = b * (a \div b) + (a % b)
<1>1. a \div b \in Nat
  OBVIOUS
<1>2. a % b \in 0 .. b - 1
  OBVIOUS
<1>3. a = b * (a \div b) + (a % b)
  <2>1. a % b = a - b * (a \div b)
    OBVIOUS
  <2>2. b * (a \div b) \in Int /\ a % b \in Int
    BY <1>1, <1>2
  <2>. QED
    BY <2>1, <2>2
<1>. QED
  BY <1>1, <1>2, <1>3

\* BlocksFor(n) blocks are enough for n tokens, and no fewer are.
LEMMA BlocksEnough ==
  ASSUME NEW n \in Nat
  PROVE  /\ BlocksFor(n) \in Nat
         /\ n <= BlocksFor(n) * BlockSize
         /\ \A k \in Nat : n <= k * BlockSize => BlocksFor(n) <= k
<1>. DEFINE a == n + BlockSize - 1
            w == BlocksFor(n)
<1>0. BlockSize \in Nat \ {0}
  BY ParamAssumption
<1>1. a \in Nat /\ w = a \div BlockSize
  BY <1>0 DEF BlocksFor
<1>2. w \in Nat /\ a % BlockSize \in 0 .. BlockSize - 1 /\ a = BlockSize * w + (a % BlockSize)
  BY <1>0, <1>1, DivBounds
<1>. HIDE DEF w
<1>3. BlockSize * w \in Nat /\ w * BlockSize = BlockSize * w
  BY <1>0, <1>2
<1>4. n <= w * BlockSize
  BY <1>0, <1>2, <1>3
<1>5. ASSUME NEW k \in Nat, n <= k * BlockSize
      PROVE  w <= k
  <2>1. k * BlockSize \in Nat /\ (k + 1) * BlockSize = k * BlockSize + BlockSize
    BY <1>0
  <2>2. BlockSize * w < (k + 1) * BlockSize
    <3>1. BlockSize * w <= n + BlockSize - 1
      <4>1. BlockSize * w <= a
        BY <1>0, <1>1, <1>2, <1>3
      <4>. QED
        BY <4>1
    <3>. QED
      BY <1>0, <1>3, <1>5, <2>1, <3>1
  <2>. QED
    BY <1>0, <1>2, <2>2
<1>. QED
  BY <1>2, <1>4, <1>5 DEF w

LEMMA PoolSize ==
  /\ NumBlocks \in Nat /\ Cap \in Nat
  /\ BlocksFor(MaxCtx) <= NumBlocks
<1>1. BlocksFor(MaxCtx) \in Nat
  BY BlocksEnough, ParamAssumption
<1>2. /\ BlocksFor(MaxCtx) * MaxConcurrent \in Nat
      /\ BlocksFor(MaxCtx) <= BlocksFor(MaxCtx) * MaxConcurrent
  BY <1>1, ParamAssumption
<1>3. NumBlocks \in Nat /\ BlocksFor(MaxCtx) <= NumBlocks
  BY <1>1, <1>2, ParamAssumption DEF NumBlocks
<1>. QED
  BY <1>3, ParamAssumption DEF Cap

\* The block and the offset of a position, and that no other position has them.
LEMMA Position ==
  ASSUME NEW k \in Nat, NEW p \in Nat, p < k * BlockSize
  PROVE  /\ p \div BlockSize \in Nat /\ p \div BlockSize + 1 \in 1 .. k
         /\ p % BlockSize \in Offset
         /\ p = BlockSize * (p \div BlockSize) + (p % BlockSize)
<1>. DEFINE d == p \div BlockSize
            m == p % BlockSize
<1>0. BlockSize \in Nat \ {0}
  BY ParamAssumption
<1>1. d \in Nat /\ m \in 0 .. BlockSize - 1 /\ p = BlockSize * d + m
  BY <1>0, DivBounds
<1>. HIDE DEF d, m
<1>2. d < k
  <2>1. BlockSize * d < k * BlockSize
    BY <1>0, <1>1
  <2>. QED
    BY <1>0, <1>1, <2>1
<1>3. d + 1 \in 1 .. k
  BY <1>1, <1>2
<1>4. m \in Offset
  BY <1>1 DEF Offset
<1>. QED
  BY <1>1, <1>3, <1>4 DEF d, m

-----------------------------------------------------------------------------
(* Taking blocks *)

\* Blocks popped from the free list and pushed on the table: still a permutation.
LEMMA TakePermutes ==
  ASSUME NEW f \in Seq(Block), NEW t \in Seq(Block), Permutation(f \o t), NEW n \in 0 .. Len(f)
  PROVE  LET tk == [i \in 1 .. n |-> f[Len(f) - i + 1]]
         IN  /\ tk \in Seq(Block) /\ Len(tk) = n
             /\ SubSeq(f, 1, Len(f) - n) \in Seq(Block)
             /\ Len(SubSeq(f, 1, Len(f) - n)) = Len(f) - n
             /\ t \o tk \in Seq(Block) /\ Len(t \o tk) = Len(t) + n
             /\ \A i \in 1 .. Len(t) : (t \o tk)[i] = t[i]
             /\ Permutation(SubSeq(f, 1, Len(f) - n) \o (t \o tk))
<1>. DEFINE tk == [i \in 1 .. n |-> f[Len(f) - i + 1]]
            g == SubSeq(f, 1, Len(f) - n)
            u == t \o tk
            m == Len(f) - n
            own == f \o t
            new == g \o u
<1>1. Len(f) \in Nat /\ Len(t) \in Nat /\ n \in Nat /\ m \in 0 .. Len(f) /\ m \in Nat
  BY LenProperties
<1>2. \A i \in 1 .. Len(f) : f[i] \in Block
  BY ElementOfSeq
<1>3. tk \in Seq(Block) /\ Len(tk) = n /\ \A i \in 1 .. n : tk[i] = f[Len(f) - i + 1]
  <2>1. \A i \in 1 .. n : Len(f) - i + 1 \in 1 .. Len(f)
    BY <1>1
  <2>2. tk \in [1 .. n -> Block]
    BY <1>2, <2>1
  <2>. QED
    BY <1>1, <2>2, IsASeq, LenProperties
<1>4. g \in Seq(Block) /\ Len(g) = m /\ \A i \in 1 .. m : g[i] = f[i]
  BY <1>1, PrefixType
<1>. HIDE DEF tk, g, m
<1>5. /\ u \in Seq(Block) /\ Len(u) = Len(t) + n
      /\ \A i \in 1 .. Len(t) + n : u[i] = IF i <= Len(t) THEN t[i] ELSE tk[i - Len(t)]
  BY <1>3, ConcatProperties
<1>6. /\ own \in Seq(Block) /\ Len(own) = Len(f) + Len(t)
      /\ \A i \in 1 .. Len(f) + Len(t) : own[i] = IF i <= Len(f) THEN f[i] ELSE t[i - Len(f)]
  BY ConcatProperties
<1>7. /\ new \in Seq(Block) /\ Len(new) = m + Len(u)
      /\ \A i \in 1 .. m + Len(u) : new[i] = IF i <= m THEN g[i] ELSE u[i - m]
  BY <1>4, <1>5, ConcatProperties
<1>. HIDE DEF u, own, new
<1>8. m + n = Len(f)
  BY <1>1 DEF m
<1>9. Len(new) = Len(own) /\ Len(own) = NumBlocks
  <2>1. Len(own) = NumBlocks
    BY DEF Permutation, own
  <2>2. Len(new) = m + (Len(t) + n)
    BY <1>5, <1>7
  <2>3. Len(own) = Len(f) + Len(t)
    BY <1>6
  <2>4. m + (Len(t) + n) = Len(f) + Len(t)
    BY <1>1, <1>8
  <2>. QED
    BY <2>1, <2>2, <2>3, <2>4
<1>. DEFINE Old(i) == IF i <= m THEN i
                      ELSE IF i <= m + Len(t) THEN i - m + Len(f)
                      ELSE Len(f) - (i - m - Len(t)) + 1
<1>10. ASSUME NEW i \in 1 .. Len(new)
       PROVE  Old(i) \in 1 .. Len(own) /\ new[i] = own[Old(i)]
  <2>0. i \in 1 .. m + Len(t) + n
    BY <1>1, <1>5, <1>7
  <2>1. CASE i <= m
    <3>1. i \in 1 .. m /\ i \in 1 .. Len(f) /\ i \in 1 .. Len(f) + Len(t) /\ i \in 1 .. m + Len(u)
      BY <1>1, <1>5, <2>0, <2>1, <1>8
    <3>2. new[i] = f[i] /\ own[i] = f[i]
      BY <1>4, <1>6, <1>7, <2>1, <3>1
    <3>. QED
      BY <1>1, <1>6, <2>1, <3>1, <3>2
  <2>2. CASE ~(i <= m) /\ i <= m + Len(t)
    <3>1. /\ i - m \in 1 .. Len(t) /\ i - m \in 1 .. Len(t) + n /\ i - m <= Len(t)
          /\ i - m + Len(f) \in 1 .. Len(f) + Len(t) /\ ~(i - m + Len(f) <= Len(f))
          /\ (i - m + Len(f)) - Len(f) = i - m
          /\ i \in 1 .. m + Len(u)
      BY <1>1, <1>5, <2>0, <2>2
    <3>2. new[i] = t[i - m]
      BY <1>5, <1>7, <2>2, <3>1
    <3>3. own[i - m + Len(f)] = t[i - m]
      BY <1>6, <3>1
    <3>. QED
      BY <1>6, <2>2, <3>1, <3>2, <3>3
  <2>3. CASE ~(i <= m) /\ ~(i <= m + Len(t))
    <3>1. /\ i - m - Len(t) \in 1 .. n /\ i - m \in 1 .. Len(t) + n /\ ~(i - m <= Len(t))
          /\ Len(f) - (i - m - Len(t)) + 1 \in 1 .. Len(f)
          /\ i \in 1 .. m + Len(u)
      BY <1>1, <1>5, <1>8, <2>0, <2>3
    <3>2. new[i] = f[Len(f) - (i - m - Len(t)) + 1]
      BY <1>3, <1>5, <1>7, <2>3, <3>1
    <3>3. /\ Len(f) - (i - m - Len(t)) + 1 \in 1 .. Len(f) + Len(t)
          /\ Len(f) - (i - m - Len(t)) + 1 <= Len(f)
      BY <1>1, <3>1
    <3>4. own[Len(f) - (i - m - Len(t)) + 1] = f[Len(f) - (i - m - Len(t)) + 1]
      BY <1>6, <3>3
    <3>. QED
      BY <1>6, <2>3, <3>2, <3>3, <3>4
  <2>. QED
    BY <2>1, <2>2, <2>3
<1>11. ASSUME NEW i \in 1 .. Len(new), NEW j \in 1 .. Len(new), i # j
       PROVE  Old(i) # Old(j)
  <2>1. /\ i \in Int /\ j \in Int /\ i <= m + Len(t) + n /\ j <= m + Len(t) + n /\ i >= 1 /\ j >= 1
    BY <1>1, <1>5, <1>7
  <2>. QED
    BY <1>1, <1>8, <1>11, <2>1
<1>12. ASSUME NEW j \in 1 .. Len(own)
       PROVE  \E i \in 1 .. Len(new) : Old(i) = j
  <2>0. j \in 1 .. Len(f) + Len(t) /\ Len(new) = m + Len(t) + n
    BY <1>1, <1>5, <1>6, <1>7
  <2>1. CASE j <= m
    <3>1. j \in 1 .. Len(new) /\ Old(j) = j
      BY <1>1, <2>0, <2>1
    <3>. QED
      BY <3>1
  <2>2. CASE m < j /\ j <= Len(f)
    <3>. DEFINE i == m + Len(t) + (Len(f) - j + 1)
    <3>1. i \in 1 .. Len(new) /\ Old(i) = j
      BY <1>1, <1>8, <2>0, <2>2
    <3>. QED
      BY <3>1
  <2>3. CASE Len(f) < j
    <3>. DEFINE i == j - Len(f) + m
    <3>1. i \in 1 .. Len(new) /\ Old(i) = j
      BY <1>1, <1>8, <2>0, <2>3
    <3>. QED
      BY <3>1
  <2>. QED
    BY <1>1, <2>0, <2>1, <2>2, <2>3
<1>. HIDE DEF Old
<1>13. Permutation(own)
  BY DEF own
<1>14. Permutation(new)
  <2>1. ASSUME NEW i \in 1 .. Len(new), NEW j \in 1 .. Len(new), i # j
        PROVE  new[i] # new[j]
    BY <1>10, <1>11, <1>13, <2>1 DEF Permutation
  <2>2. ASSUME NEW b \in Block
        PROVE  \E i \in 1 .. Len(new) : new[i] = b
    <3>1. PICK j \in 1 .. Len(own) : own[j] = b
      BY <1>13 DEF Permutation
    <3>2. PICK i \in 1 .. Len(new) : Old(i) = j
      BY <1>12
    <3>. QED
      BY <1>10, <3>1, <3>2
  <2>. QED
    BY <1>7, <1>9, <2>1, <2>2 DEF Permutation
<1>15. \A i \in 1 .. Len(t) : u[i] = t[i]
  BY <1>1, <1>5
<1>. QED
  BY <1>3, <1>4, <1>5, <1>14, <1>15 DEF tk, g, u, m, new

-----------------------------------------------------------------------------
(* Streams and what the slots hold *)

LEMMA StreamLength ==
  /\ <<>> \in Held /\ <<>> \in Stream /\ Len(<<>>) = 0 /\ Dirty = <<>>
  /\ \A s \in Stream : Len(s) \in Nat /\ (s = <<>> <=> Len(s) = 0)
  /\ \A s \in Stream : s \o <<>> = s /\ <<>> \o s = s
<1>1. <<>> \in Stream /\ Len(<<>>) = 0
  BY EmptySeq DEF Stream
<1>2. \A s \in Stream : Len(s) \in Nat /\ (s = <<>> <=> Len(s) = 0)
  BY EmptySeq, LenProperties DEF Stream
<1>3. \A s \in Stream : s \o <<>> = s /\ <<>> \o s = s
  BY ConcatEmptySeq DEF Stream
<1>. QED
  BY <1>1, <1>2, <1>3, PoolSize DEF Held, Dirty

LEMMA GreedyType ==
  ASSUME NEW s \in Held
  PROVE  Greedy(s) \in Token
<1>1. Len(s) \in 0 .. NumBlocks * BlockSize /\ s \in [1 .. Len(s) -> Token]
  BY PoolSize, LenProperties DEF Held, Stream, Cap
<1>. QED
  BY <1>1, GreedyAssumption

LEMMA OneToken ==
  ASSUME NEW t \in Token
  PROVE  <<t>> \in Stream /\ Len(<<t>>) = 1 /\ <<t>>[1] = t /\ Head(<<t>>) = t /\ <<t>> # <<>>
<1>1. <<t>> = Append(<<>>, t) /\ <<>> \in Seq(Token) /\ Len(<<>>) = 0
  BY EmptySeq
<1>. QED
  BY <1>1, AppendProperties, HeadTailProperties DEF Stream

LEMMA OneMore ==
  ASSUME NEW s \in Stream, NEW t \in Token
  PROVE  /\ Append(s, t) \in Stream /\ Len(Append(s, t)) = Len(s) + 1
         /\ Append(s, t) = s \o <<t>>
         /\ SubSeq(Append(s, t), 1, Len(s)) = s
         /\ Append(s, t)[Len(s) + 1] = t
         /\ \A i \in 1 .. Len(s) : /\ Append(s, t)[i] = s[i]
                                   /\ SubSeq(Append(s, t), 1, i) = SubSeq(s, 1, i)
<1>1. Len(s) \in Nat /\ s \in Seq(Token) /\ Len(s) \in 0 .. Len(s)
  BY StreamLength DEF Stream
<1>2. /\ Append(s, t) \in Seq(Token) /\ Len(Append(s, t)) = Len(s) + 1
      /\ \A i \in 1 .. Len(s) : Append(s, t)[i] = s[i]
      /\ Append(s, t)[Len(s) + 1] = t
  BY <1>1, AppendProperties
<1>3. /\ <<t>> \in Seq(Token) /\ Len(<<t>>) = 1 /\ <<t>>[1] = t
  BY OneToken DEF Stream
<1>4. /\ s \o <<t>> \in Seq(Token) /\ Len(s \o <<t>>) = Len(s) + 1
      /\ \A i \in 1 .. Len(s) + 1 :
           (s \o <<t>>)[i] = IF i <= Len(s) THEN s[i] ELSE <<t>>[i - Len(s)]
  BY <1>1, <1>3, ConcatProperties
<1>5. \A i \in 1 .. Len(s) + 1 : Append(s, t)[i] = (s \o <<t>>)[i]
  <2>1. TAKE i \in 1 .. Len(s) + 1
  <2>2. CASE i <= Len(s)
    BY <1>1, <1>2, <1>4, <2>2
  <2>3. CASE ~(i <= Len(s))
    <3>1. i = Len(s) + 1 /\ i - Len(s) = 1
      BY <1>1, <2>3
    <3>. QED
      BY <1>2, <1>3, <1>4, <2>3, <3>1
  <2>. QED
    BY <2>2, <2>3
<1>6. Append(s, t) = s \o <<t>>
  BY <1>2, <1>4, <1>5, SeqEqual
<1>7. \A i \in 0 .. Len(s) : SubSeq(s \o <<t>>, 1, i) = SubSeq(s, 1, i)
  BY <1>1, <1>3, PrefixOfConcat
<1>8. SubSeq(s, 1, Len(s)) = s
  BY <1>1, SubSeqFull
<1>. QED
  BY <1>1, <1>2, <1>6, <1>7, <1>8 DEF Stream

\* A stream is its front and its last token.
LEMMA LastToken ==
  ASSUME NEW s \in Stream, s # <<>>
  PROVE  /\ s[Len(s)] \in Token /\ Len(s) - 1 \in 0 .. Len(s)
         /\ SubSeq(s, 1, Len(s) - 1) \in Stream
         /\ Len(SubSeq(s, 1, Len(s) - 1)) = Len(s) - 1
         /\ SubSeq(s, 1, Len(s) - 1) \o <<s[Len(s)]>> = s
<1>. DEFINE k == Len(s) - 1
            f == SubSeq(s, 1, k)
            t == s[Len(s)]
<1>1. Len(s) \in Nat /\ Len(s) > 0 /\ s \in Seq(Token)
  BY StreamLength DEF Stream
<1>2. k \in 0 .. Len(s) /\ k + 1 = Len(s) /\ k \in Nat /\ Len(s) \in 1 .. Len(s)
  BY <1>1
<1>3. t \in Token
  BY <1>1, <1>2, ElementOfSeq
<1>4. f \in Seq(Token) /\ Len(f) = k /\ \A i \in 1 .. k : f[i] = s[i]
  BY <1>1, <1>2, PrefixType
<1>5. /\ <<t>> \in Seq(Token) /\ Len(<<t>>) = 1 /\ <<t>>[1] = t
  BY <1>3, OneToken DEF Stream
<1>. HIDE DEF k, f
<1>6. /\ f \o <<t>> \in Seq(Token) /\ Len(f \o <<t>>) = k + 1
      /\ \A i \in 1 .. k + 1 : (f \o <<t>>)[i] = IF i <= k THEN f[i] ELSE <<t>>[i - k]
  BY <1>2, <1>4, <1>5, ConcatProperties
<1>7. \A i \in 1 .. k + 1 : (f \o <<t>>)[i] = s[i]
  <2>1. TAKE i \in 1 .. k + 1
  <2>2. CASE i <= k
    BY <1>2, <1>4, <1>6, <2>2
  <2>3. CASE ~(i <= k)
    <3>1. i = k + 1 /\ i - k = 1
      BY <1>2, <2>3
    <3>. QED
      BY <1>2, <1>5, <1>6, <2>3, <3>1
  <2>. QED
    BY <2>2, <2>3
<1>8. f \o <<t>> = s
  BY <1>1, <1>2, <1>6, <1>7, SeqEqual
<1>. QED
  BY <1>2, <1>3, <1>4, <1>8 DEF k, f, Stream

LEMMA SlotHolds ==
  ASSUME NEW m \in Memory, NEW tab \in Seq(Block), NEW p \in Nat, p < Len(tab) * BlockSize
  PROVE  /\ tab[p \div BlockSize + 1] \in Block /\ p % BlockSize \in Offset
         /\ Slot(tab, m, p).kv \in Held /\ Slot(tab, m, p).key \in Held
<1>1. /\ p \div BlockSize + 1 \in 1 .. Len(tab)
      /\ p % BlockSize \in Offset
  BY Position, LenProperties
<1>2. tab[p \div BlockSize + 1] \in Block
  BY <1>1, ElementOfSeq
<1>. QED
  BY <1>1, <1>2 DEF Slot, Memory

-----------------------------------------------------------------------------
(* One forward pass *)

LEMMA TypesFacts ==
  ASSUME Types
  PROVE  /\ table \in Seq(Block) /\ free \in Seq(Block) /\ mem \in Memory /\ all \in Stream
         /\ len \in Nat /\ plen \in Nat /\ len <= Len(table) * BlockSize
         /\ Len(table) \in Nat /\ Len(free) \in Nat /\ Len(all) \in Nat /\ plen <= Len(all)
         /\ logits \in Held /\ logits \in Stream /\ draft \in Stream /\ Len(draft) \in Nat
         /\ oldLen \in Nat /\ req \in Request /\ req.k \in Nat /\ req.max \in Nat
         /\ req.stop \subseteq Token /\ Remaining \in Int /\ req.prompt \in Stream
         /\ req.sampled \in BOOLEAN /\ req.probe \in BOOLEAN
<1>1. /\ table \in Seq(Block) /\ free \in Seq(Block) /\ mem \in Memory /\ all \in Stream
      /\ plen \in Nat /\ len <= Len(table) * BlockSize /\ plen <= Len(all)
      /\ logits \in Held /\ draft \in Stream /\ oldLen \in Nat
  BY DEF Types, TypeOK
<1>2. len \in 0 .. Cap
  BY DEF Types, TypeOK, Cap
<1>3. req \in Request
  BY RequestAssumption DEF Types, TypeOK
<1>4. Len(table) \in Nat /\ Len(free) \in Nat /\ Len(all) \in Nat /\ Len(draft) \in Nat
  BY <1>1, LenProperties DEF Stream
<1>5. /\ req.k \in Nat /\ req.max \in Nat /\ req.stop \subseteq Token /\ req.prompt \in Stream
      /\ req.sampled \in BOOLEAN /\ req.probe \in BOOLEAN
  BY <1>3 DEF Request
<1>6. Remaining \in Int
  BY <1>1, <1>4, <1>5 DEF Remaining
<1>. QED
  BY <1>1, <1>2, <1>3, <1>4, <1>5, <1>6, PoolSize DEF Held

\* What reserve() leaves when it gets its blocks.
LEMMA Reserved ==
  ASSUME Types, Permutation(free \o table), NEW toks \in Stream, Forward(toks)
  PROVE  /\ table' \in Seq(Block) /\ free' \in Seq(Block) /\ Permutation(free' \o table')
         /\ Len(table) <= Len(table') /\ Len(table') <= NumBlocks
         /\ \A i \in 1 .. Len(table) : table'[i] = table[i]
         /\ \A i, j \in 1 .. Len(table') : i # j => table'[i] # table'[j]
         /\ len' = len + Len(toks) /\ len' > len /\ len' <= Len(table') * BlockSize
         /\ mem' = After(table', toks)
<1>0. /\ table \in Seq(Block) /\ free \in Seq(Block) /\ len \in Nat
      /\ Len(table) \in Nat /\ Len(free) \in Nat
  BY TypesFacts
<1>1. Len(toks) \in Nat /\ Len(toks) > 0
  BY StreamLength DEF Forward
<1>. DEFINE n == Len(toks)
            need == IF Missing(n) > 0 THEN Missing(n) ELSE 0
<1>2. /\ BlocksFor(len + n) \in Nat /\ len + n <= BlocksFor(len + n) * BlockSize
  <2>1. len + n \in Nat
    BY <1>0, <1>1
  <2>. QED
    BY <2>1, BlocksEnough
<1>3. /\ need <= Len(free)
      /\ table' = table \o Taken(need)
      /\ free' = SubSeq(free, 1, Len(free) - need)
      /\ mem' = After(table', toks) /\ len' = len + n
  BY DEF Forward
<1>4. /\ Missing(n) \in Int /\ need \in 0 .. Len(free)
      /\ BlocksFor(len + n) <= Len(table) + need
  BY <1>0, <1>2, <1>3 DEF Missing
<1>. HIDE DEF need
<1>5. /\ free' \in Seq(Block) /\ Len(free') = Len(free) - need
      /\ table' \in Seq(Block) /\ Len(table') = Len(table) + need
      /\ \A i \in 1 .. Len(table) : table'[i] = table[i]
      /\ Permutation(free' \o table')
  <2>1. LET tk == [i \in 1 .. need |-> free[Len(free) - i + 1]]
        IN  /\ tk \in Seq(Block) /\ Len(tk) = need
            /\ SubSeq(free, 1, Len(free) - need) \in Seq(Block)
            /\ Len(SubSeq(free, 1, Len(free) - need)) = Len(free) - need
            /\ table \o tk \in Seq(Block) /\ Len(table \o tk) = Len(table) + need
            /\ \A i \in 1 .. Len(table) : (table \o tk)[i] = table[i]
            /\ Permutation(SubSeq(free, 1, Len(free) - need) \o (table \o tk))
    BY <1>0, <1>4, TakePermutes
  <2>. QED
    BY <1>3, <2>1 DEF Taken
<1>6. len + n <= Len(table') * BlockSize
  <2>1. BlocksFor(len + n) <= Len(table') /\ Len(table') \in Nat /\ BlockSize \in Nat
    BY <1>0, <1>4, <1>5, ParamAssumption
  <2>2. /\ BlocksFor(len + n) * BlockSize <= Len(table') * BlockSize
        /\ BlocksFor(len + n) * BlockSize \in Nat /\ Len(table') * BlockSize \in Nat
    BY <1>2, <2>1
  <2>. QED
    BY <1>0, <1>1, <1>2, <2>2
<1>7. /\ Len(table') <= NumBlocks
      /\ \A i, j \in 1 .. Len(table') : i # j => table'[i] # table'[j]
  <2>. DEFINE own == free' \o table'
  <2>1. /\ Len(free') \in Nat /\ Len(table') \in Nat
        /\ Len(own) = Len(free') + Len(table')
        /\ \A i \in 1 .. Len(free') + Len(table') :
             own[i] = IF i <= Len(free') THEN free'[i] ELSE table'[i - Len(free')]
    <3>1. Len(free') \in Nat /\ Len(table') \in Nat
      BY <1>0, <1>4, <1>5
    <3>. QED
      BY <1>5, <3>1, ConcatProperties
  <2>2. Len(own) = NumBlocks /\ \A i, j \in 1 .. Len(own) : i # j => own[i] # own[j]
    BY <1>5 DEF Permutation
  <2>. HIDE DEF own
  <2>3. ASSUME NEW i \in 1 .. Len(table')
        PROVE  /\ i + Len(free') \in 1 .. Len(own) /\ own[i + Len(free')] = table'[i]
    <3>1. /\ i + Len(free') \in 1 .. Len(free') + Len(table')
          /\ ~(i + Len(free') <= Len(free')) /\ i + Len(free') - Len(free') = i
      BY <2>1
    <3>. QED
      BY <2>1, <3>1
  <2>4. ASSUME NEW i \in 1 .. Len(table'), NEW j \in 1 .. Len(table'), i # j
        PROVE  table'[i] # table'[j]
    <3>1. i + Len(free') # j + Len(free')
      BY <2>1, <2>4
    <3>. QED
      BY <2>2, <2>3, <3>1
  <2>. QED
    BY <2>1, <2>2, <2>4
<1>. QED
  <2>1. Len(table) <= Len(table')
    BY <1>0, <1>4, <1>5
  <2>2. len' = len + Len(toks) /\ len' > len /\ len' <= Len(table') * BlockSize
    BY <1>0, <1>1, <1>3, <1>6
  <2>. QED
    BY <1>3, <1>5, <1>7, <2>1, <2>2

\* Through the grown table the rows of before are where they were.
LEMMA OldRows ==
  ASSUME Types, NEW tab \in Seq(Block), Len(table) <= Len(tab),
         \A i \in 1 .. Len(table) : tab[i] = table[i], NEW p \in 0 .. len - 1
  PROVE  Slot(tab, mem, p) = Slot(table, mem, p)
<1>1. p \in Nat /\ p < Len(table) * BlockSize /\ Len(table) \in Nat
  <2>1. /\ len \in Nat /\ len <= Len(table) * BlockSize /\ Len(table) \in Nat
    BY TypesFacts
  <2>2. Len(table) * BlockSize \in Nat
    BY <2>1, ParamAssumption
  <2>. QED
    BY <2>1, <2>2
<1>2. p \div BlockSize + 1 \in 1 .. Len(table)
  BY <1>1, Position
<1>. QED
  BY <1>2 DEF Slot

\* What a pass leaves in a row is of the pass if the row is, and as before if not.
LEMMA PassRow ==
  ASSUME Types, Permutation(free \o table), NEW toks \in Stream, Forward(toks),
         NEW p \in 0 .. len' - 1
  PROVE  Slot(table', mem', p) =
           IF p >= len THEN Computed(table', toks, p) ELSE Slot(table, mem, p)
<1>. DEFINE d == p \div BlockSize + 1
            o == p % BlockSize
            b == table'[d]
            Here(q) == table'[q \div BlockSize + 1] = b /\ q % BlockSize = o
            span == len .. len + Len(toks) - 1
<1>0. /\ len \in Nat /\ Len(toks) \in Nat /\ len' = len + Len(toks)
      /\ table' \in Seq(Block) /\ Len(table') \in Nat /\ len' <= Len(table') * BlockSize
      /\ mem' = After(table', toks)
      /\ \A i, j \in 1 .. Len(table') : i # j => table'[i] # table'[j]
      /\ Len(table) <= Len(table') /\ \A i \in 1 .. Len(table) : table'[i] = table[i]
      /\ Len(table') * BlockSize \in Nat
  <2>1. /\ len' = len + Len(toks)
        /\ table' \in Seq(Block) /\ len' <= Len(table') * BlockSize
        /\ mem' = After(table', toks)
        /\ \A i, j \in 1 .. Len(table') : i # j => table'[i] # table'[j]
        /\ Len(table) <= Len(table') /\ \A i \in 1 .. Len(table) : table'[i] = table[i]
    BY Reserved
  <2>2. len \in Nat /\ Len(toks) \in Nat /\ Len(table') \in Nat
    BY <2>1, TypesFacts, StreamLength, LenProperties
  <2>3. Len(table') * BlockSize \in Nat
    BY <2>2, ParamAssumption
  <2>. QED
    BY <2>1, <2>2, <2>3
<1>1. ASSUME NEW q \in 0 .. len' - 1
      PROVE  /\ q \in Nat /\ q \div BlockSize \in Nat /\ q \div BlockSize + 1 \in 1 .. Len(table')
             /\ q % BlockSize \in Offset
             /\ q = BlockSize * (q \div BlockSize) + (q % BlockSize)
  <2>1. q \in Nat /\ q < Len(table') * BlockSize
    BY <1>0
  <2>. QED
    BY <1>0, <2>1, Position
<1>2. b \in Block /\ o \in Offset
  BY <1>0, <1>1, ElementOfSeq
<1>3. ASSUME NEW q \in 0 .. len' - 1, Here(q)
      PROVE  q = p
  <2>1. q \div BlockSize + 1 = p \div BlockSize + 1
    BY <1>0, <1>1, <1>3
  <2>2. q \div BlockSize = p \div BlockSize /\ q % BlockSize = p % BlockSize
    BY <1>1, <1>3, <2>1
  <2>. QED
    BY <1>1, <2>2
<1>4. Slot(table', mem', p) =
        IF \E q \in span : Here(q)
        THEN Computed(table', toks, CHOOSE q \in span : Here(q))
        ELSE mem[b][o]
  BY <1>0, <1>2 DEF Slot, After
<1>5. span \subseteq 0 .. len' - 1
  BY <1>0
<1>6. CASE p >= len
  <2>1. p \in span /\ Here(p)
    BY <1>0, <1>6
  <2>2. (CHOOSE q \in span : Here(q)) = p
    BY <1>3, <1>5, <2>1
  <2>. QED
    BY <1>4, <1>6, <2>1, <2>2
<1>7. CASE ~(p >= len)
  <2>1. ~ \E q \in span : Here(q)
    <3>1. ASSUME NEW q \in span, Here(q)
          PROVE  FALSE
      <4>1. q = p
        BY <1>3, <1>5, <3>1
      <4>. QED
        BY <1>0, <1>7, <4>1
    <3>. QED
      BY <3>1
  <2>2. Slot(table', mem', p) = Slot(table', mem, p)
    BY <1>4, <2>1 DEF Slot
  <2>3. p \in 0 .. len - 1
    BY <1>0, <1>7
  <2>. QED
    BY <1>0, <1>7, <2>2, <2>3, OldRows
<1>. QED
  BY <1>6, <1>7

\* Everything a pass leaves in the pools is a stream no longer than the pools.
LEMMA PassMemory ==
  ASSUME Types, Permutation(free \o table), NEW toks \in Stream, Forward(toks)
  PROVE  mem' \in Memory /\ len' <= Cap
<1>0. /\ len \in Nat /\ Len(toks) \in Nat /\ len' = len + Len(toks) /\ mem \in Memory
      /\ table' \in Seq(Block) /\ Len(table') \in Nat /\ len' <= Len(table') * BlockSize
      /\ mem' = After(table', toks) /\ Len(table') <= NumBlocks
  <2>1. /\ len' = len + Len(toks) /\ Len(table') <= NumBlocks
        /\ table' \in Seq(Block) /\ len' <= Len(table') * BlockSize
        /\ mem' = After(table', toks)
    BY Reserved
  <2>. QED
    BY <2>1, TypesFacts, StreamLength, LenProperties
<1>1. len' <= Cap /\ Cap \in Nat /\ Len(table') * BlockSize \in Nat
  <2>1. /\ Len(table') * BlockSize <= NumBlocks * BlockSize /\ NumBlocks * BlockSize \in Nat
        /\ Len(table') * BlockSize \in Nat
    BY <1>0, PoolSize, ParamAssumption
  <2>. QED
    BY <1>0, <2>1 DEF Cap
<1>2. ASSUME NEW p \in len .. len + Len(toks) - 1
      PROVE  Computed(table', toks, p) \in [kv : Held, key : Held]
  <2>. DEFINE s == Base(table') \o SubSeq(toks, 1, p - len + 1)
              clean == /\ Len(s) = p + 1
                       /\ HoldsKV(table', mem, s, len)
                       /\ p + 1 > IndexTopk => HoldsKeys(table', mem, s, len)
              new == IF clean THEN s ELSE Dirty
  <2>1. p \in Nat /\ p < Len(table') * BlockSize /\ p + 1 <= Cap
    BY <1>0, <1>1
  <2>2. Slot(table', mem, p).key \in Held
    BY <1>0, <2>1, SlotHolds
  <2>3. Base(table') \in Stream
    <3>1. CASE len = 0
      BY <3>1, StreamLength DEF Base
    <3>2. CASE len # 0
      <4>1. len - 1 \in Nat /\ len - 1 < Len(table') * BlockSize
        BY <1>0, <1>1, <3>2
      <4>2. Slot(table', mem, len - 1).kv \in Held
        BY <1>0, <4>1, SlotHolds
      <4>. QED
        BY <3>2, <4>2 DEF Base, Held
    <3>. QED
      BY <3>1, <3>2
  <2>4. s \in Stream
    <3>1. p - len + 1 \in 0 .. Len(toks)
      BY <1>0
    <3>2. SubSeq(toks, 1, p - len + 1) \in Seq(Token)
      BY <3>1, PrefixType DEF Stream
    <3>. QED
      BY <2>3, <3>2, ConcatProperties DEF Stream
  <2>. HIDE DEF s
  <2>5. new \in Held
    BY <2>1, <2>4, StreamLength DEF Held
  <2>6. Computed(table', toks, p) =
          [kv |-> new, key |-> IF Sparse(Len(toks)) THEN new ELSE Slot(table', mem, p).key]
    BY DEF Computed, s
  <2>. HIDE DEF new
  <2>. QED
    BY <2>2, <2>5, <2>6
<1>3. ASSUME NEW b \in Block, NEW o \in Offset
      PROVE  mem'[b][o] \in [kv : Held, key : Held]
  <2>. DEFINE Here(p) == table'[p \div BlockSize + 1] = b /\ p % BlockSize = o
              span == len .. len + Len(toks) - 1
  <2>1. mem'[b][o] = IF \E p \in span : Here(p)
                     THEN Computed(table', toks, CHOOSE p \in span : Here(p))
                     ELSE mem[b][o]
    BY <1>0 DEF After
  <2>2. mem[b][o] \in [kv : Held, key : Held]
    BY <1>0 DEF Memory
  <2>. HIDE DEF Here
  <2>3. CASE \E p \in span : Here(p)
    <3>1. (CHOOSE p \in span : Here(p)) \in span
      BY <2>3
    <3>. QED
      BY <1>2, <2>1, <2>3, <3>1
  <2>. QED
    BY <2>1, <2>2, <2>3
<1>4. mem' = [b \in Block |-> [o \in Offset |-> mem'[b][o]]]
  BY <1>0 DEF After
<1>. QED
  BY <1>1, <1>3, <1>4 DEF Memory

\* A pass over rows that hold a stream adds the rows of what it runs: the selector
\* of a row past index_topk had own keys, unless the request began dense.
LEMMA PassRows ==
  ASSUME Types, Permutation(free \o table), NEW toks \in Stream, Forward(toks),
         NEW s \in Stream, Len(s) = len, Rows(table, mem, s, len),
         plen > IndexTopk => len' > IndexTopk
  PROVE  Rows(table', mem', s \o toks, len')
<1>0. /\ len \in Nat /\ Len(toks) \in Nat /\ len' = len + Len(toks) /\ plen \in Nat
      /\ table' \in Seq(Block) /\ Len(table) <= Len(table')
      /\ \A i \in 1 .. Len(table) : table'[i] = table[i]
      /\ IndexTopk \in Nat
  BY Reserved, TypesFacts, StreamLength, ParamAssumption
<1>. DEFINE kvs(p) == Slot(table, mem, p).kv
            keys(p) == Slot(table, mem, p).key
<1>1. ASSUME NEW p \in 0 .. len - 1
      PROVE  /\ ~Crossed(p + 1) => kvs(p) = SubSeq(s, 1, p + 1)
             /\ plen > IndexTopk => keys(p) = SubSeq(s, 1, p + 1)
  BY DEF Rows
<1>2. ASSUME NEW t \in Stream, NEW p \in 0 .. len - 1
      PROVE  SubSeq(s \o t, 1, p + 1) = SubSeq(s, 1, p + 1)
  <2>1. p + 1 \in 0 .. Len(s)
    BY <1>0
  <2>. QED
    BY <2>1, PrefixOfConcat DEF Stream
<1>3. ASSUME NEW p \in 0 .. len - 1
      PROVE  /\ ~Crossed(p + 1) => Slot(table', mem', p).kv = SubSeq(s \o toks, 1, p + 1)
             /\ plen > IndexTopk => Slot(table', mem', p).key = SubSeq(s \o toks, 1, p + 1)
  <2>1. p \in 0 .. len' - 1 /\ ~(p >= len)
    BY <1>0
  <2>2. Slot(table', mem', p) = Slot(table, mem, p)
    BY <2>1, PassRow
  <2>. QED
    BY <1>1, <1>2, <2>2
<1>4. ASSUME NEW p \in len .. len' - 1, ~Crossed(p + 1)
      PROVE  /\ Slot(table', mem', p).kv = SubSeq(s \o toks, 1, p + 1)
             /\ plen > IndexTopk => Slot(table', mem', p).key = SubSeq(s \o toks, 1, p + 1)
  <2>. DEFINE j == p - len + 1
              t == SubSeq(toks, 1, j)
              u == s \o t
  <2>0. p \in Nat /\ j \in 0 .. Len(toks) /\ Len(s) + j = p + 1 /\ p \in 0 .. len' - 1 /\ p >= len
    BY <1>0
  <2>1. t \in Stream /\ Len(t) = j
    BY <2>0, PrefixType DEF Stream
  <2>2. SubSeq(s \o toks, 1, p + 1) = u
    <3>1. SubSeq(s \o toks, 1, Len(s) + j) = s \o SubSeq(toks, 1, j)
      BY <2>0, PrefixIntoConcat DEF Stream
    <3>. QED
      BY <2>0, <3>1
  <2>3. u \in Stream /\ Len(u) = p + 1
    BY <2>0, <2>1, ConcatProperties DEF Stream
  <2>4. \A q \in 0 .. len - 1 : ~Crossed(q + 1)
    BY <1>0, <1>4, <2>0 DEF Crossed
  <2>5. p + 1 > IndexTopk => plen > IndexTopk
    BY <1>0, <1>4, <2>0 DEF Crossed
  <2>6. \A q \in 0 .. len - 1 : Slot(table', mem, q) = Slot(table, mem, q)
    BY <1>0, OldRows
  <2>7. Base(table') = s
    <3>1. CASE len = 0
      BY <3>1, StreamLength DEF Base
    <3>2. CASE len # 0
      <4>1. len - 1 \in 0 .. len - 1 /\ len - 1 + 1 = Len(s)
        BY <1>0, <3>2
      <4>2. Slot(table', mem, len - 1).kv = SubSeq(s, 1, Len(s))
        BY <1>1, <2>4, <2>6, <4>1
      <4>3. SubSeq(s, 1, Len(s)) = s
        BY SubSeqFull DEF Stream
      <4>. QED
        BY <3>2, <4>2, <4>3 DEF Base
    <3>. QED
      BY <3>1, <3>2
  <2>. HIDE DEF t, u
  <2>8. HoldsKV(table', mem, u, len)
    <3>1. ASSUME NEW q \in 0 .. len - 1
          PROVE  Slot(table', mem, q).kv = SubSeq(u, 1, q + 1)
      <4>1. SubSeq(u, 1, q + 1) = SubSeq(s, 1, q + 1)
        BY <1>2, <2>1 DEF u
      <4>. QED
        BY <1>1, <2>4, <2>6, <4>1
    <3>. QED
      BY <3>1 DEF HoldsKV
  <2>9. p + 1 > IndexTopk => HoldsKeys(table', mem, u, len)
    <3>1. ASSUME NEW q \in 0 .. len - 1, p + 1 > IndexTopk
          PROVE  Slot(table', mem, q).key = SubSeq(u, 1, q + 1)
      <4>1. SubSeq(u, 1, q + 1) = SubSeq(s, 1, q + 1)
        BY <1>2, <2>1 DEF u
      <4>. QED
        BY <1>1, <2>5, <2>6, <3>1, <4>1
    <3>. QED
      BY <3>1 DEF HoldsKeys
  <2>10. Base(table') \o SubSeq(toks, 1, p - len + 1) = u
    BY <2>7 DEF t, u
  <2>11. /\ Computed(table', toks, p).kv = u
         /\ Sparse(Len(toks)) => Computed(table', toks, p).key = u
    BY <2>3, <2>8, <2>9, <2>10 DEF Computed
  <2>12. plen > IndexTopk => Sparse(Len(toks))
    BY <1>0 DEF Sparse
  <2>13. Slot(table', mem', p) = Computed(table', toks, p)
    BY <2>0, PassRow
  <2>. QED
    BY <2>2, <2>11, <2>12, <2>13
<1>5. ASSUME NEW p \in 0 .. len' - 1
      PROVE  /\ ~Crossed(p + 1) => Slot(table', mem', p).kv = SubSeq(s \o toks, 1, p + 1)
             /\ plen > IndexTopk => Slot(table', mem', p).key = SubSeq(s \o toks, 1, p + 1)
  <2>1. p \in 0 .. len - 1 \/ p \in len .. len' - 1
    BY <1>0
  <2>2. plen > IndexTopk => ~Crossed(p + 1)
    BY <1>0 DEF Crossed
  <2>. QED
    BY <1>3, <1>4, <2>1, <2>2
<1>. QED
  BY <1>5 DEF Rows

\* All that a pass which runs does, and the row whose logits it returns.
LEMMA PassEffect ==
  ASSUME Types, Permutation(free \o table), NEW toks \in Stream, Forward(toks),
         NEW s \in Stream, Len(s) = len, Rows(table, mem, s, len),
         plen > IndexTopk => len' > IndexTopk
  PROVE  /\ table' \in Seq(Block) /\ free' \in Seq(Block) /\ Permutation(free' \o table')
         /\ mem' \in Memory /\ len' \in 0 .. Cap /\ len' = len + Len(toks) /\ len' > 0
         /\ len' <= Len(table') * BlockSize
         /\ Rows(table', mem', s \o toks, len')
         /\ s \o toks \in Stream /\ Len(s \o toks) = len'
         /\ LastRow \in Held
         /\ ~Crossed(len') => LastRow = s \o toks
<1>1. /\ table' \in Seq(Block) /\ free' \in Seq(Block) /\ Permutation(free' \o table')
      /\ len' = len + Len(toks) /\ len' > len /\ len' <= Len(table') * BlockSize
  BY Reserved
<1>2. mem' \in Memory /\ len' <= Cap
  BY PassMemory
<1>3. Rows(table', mem', s \o toks, len')
  BY PassRows
<1>4. len \in Nat /\ Len(toks) \in Nat /\ Cap \in Nat
  BY TypesFacts, StreamLength, PoolSize
<1>5. s \o toks \in Stream /\ Len(s \o toks) = len'
  BY <1>1, ConcatProperties DEF Stream
<1>6. /\ len' - 1 \in 0 .. len' - 1 /\ len' - 1 \in Nat /\ len' - 1 + 1 = len'
      /\ Len(table') * BlockSize \in Nat /\ len' - 1 < Len(table') * BlockSize
      /\ len' \in 0 .. Cap /\ len' > 0
  <2>1. Len(table') * BlockSize \in Nat
    BY <1>1, LenProperties, ParamAssumption
  <2>. QED
    BY <1>1, <1>2, <1>4, <2>1
<1>7. LastRow \in Held
  BY <1>1, <1>2, <1>6, SlotHolds DEF LastRow
<1>8. ~Crossed(len') => LastRow = SubSeq(s \o toks, 1, len')
  BY <1>3, <1>6 DEF Rows, LastRow
<1>9. SubSeq(s \o toks, 1, len') = s \o toks
  BY <1>5, SubSeqFull DEF Stream
<1>. QED
  BY <1>1, <1>2, <1>3, <1>5, <1>6, <1>7, <1>8, <1>9

\* What a reserve() that throws leaves; the pass would have outgrown the context.
LEMMA ExhaustedEffect ==
  ASSUME Types, Permutation(free \o table), NEW toks \in Stream, Exhausted(toks)
  PROVE  /\ table' \in Seq(Block) /\ free' \in Seq(Block) /\ Permutation(free' \o table')
         /\ UNCHANGED <<len, mem>> /\ len' <= Len(table') * BlockSize
         /\ len + Len(toks) > MaxCtx
<1>0. /\ table \in Seq(Block) /\ free \in Seq(Block) /\ len \in Nat
      /\ Len(table) \in Nat /\ Len(free) \in Nat /\ len <= Len(table) * BlockSize
      /\ Len(toks) \in Nat
  BY TypesFacts, StreamLength
<1>1. /\ table' = table \o Taken(Len(free)) /\ free' = <<>> /\ UNCHANGED <<len, mem>>
      /\ Missing(Len(toks)) > Len(free)
  BY DEF Exhausted
<1>2. /\ free' \in Seq(Block) /\ table' \in Seq(Block)
      /\ Len(table') = Len(table) + Len(free)
      /\ Permutation(free' \o table')
  <2>1. LET n == Len(free)
            tk == [i \in 1 .. n |-> free[Len(free) - i + 1]]
        IN  /\ tk \in Seq(Block) /\ Len(tk) = n
            /\ SubSeq(free, 1, Len(free) - n) \in Seq(Block)
            /\ Len(SubSeq(free, 1, Len(free) - n)) = Len(free) - n
            /\ table \o tk \in Seq(Block) /\ Len(table \o tk) = Len(table) + n
            /\ \A i \in 1 .. Len(table) : (table \o tk)[i] = table[i]
            /\ Permutation(SubSeq(free, 1, Len(free) - n) \o (table \o tk))
    BY <1>0, TakePermutes
  <2>2. Len(SubSeq(free, 1, Len(free) - Len(free))) = 0
    BY <1>0, <2>1
  <2>3. SubSeq(free, 1, Len(free) - Len(free)) = <<>>
    BY <2>1, <2>2, EmptySeq
  <2>. QED
    BY <1>1, <2>1, <2>3 DEF Taken
<1>3. len' <= Len(table') * BlockSize
  <2>1. /\ Len(table) * BlockSize <= Len(table') * BlockSize
        /\ Len(table) * BlockSize \in Nat /\ Len(table') * BlockSize \in Nat
    BY <1>0, <1>2, ParamAssumption
  <2>. QED
    BY <1>0, <1>1, <2>1
<1>4. Len(table) + Len(free) = NumBlocks
  BY <1>0, ConcatProperties DEF Permutation
<1>5. BlocksFor(len + Len(toks)) > BlocksFor(MaxCtx)
  <2>1. len + Len(toks) \in Nat
    BY <1>0
  <2>2. BlocksFor(len + Len(toks)) \in Nat /\ BlocksFor(MaxCtx) \in Nat
    BY <2>1, BlocksEnough, ParamAssumption
  <2>3. BlocksFor(len + Len(toks)) - Len(table) > Len(free)
    BY <1>1 DEF Missing
  <2>. QED
    BY <1>0, <1>4, <2>2, <2>3, PoolSize
<1>6. len + Len(toks) > MaxCtx
  <2>1. SUFFICES ASSUME len + Len(toks) <= MaxCtx PROVE FALSE
    BY <1>0, ParamAssumption
  <2>2. len + Len(toks) \in Nat /\ MaxCtx \in Nat /\ BlocksFor(MaxCtx) \in Nat
        /\ MaxCtx <= BlocksFor(MaxCtx) * BlockSize /\ BlocksFor(MaxCtx) * BlockSize \in Nat
    <3>1. len + Len(toks) \in Nat /\ MaxCtx \in Nat
      BY <1>0, ParamAssumption
    <3>2. BlocksFor(MaxCtx) \in Nat /\ MaxCtx <= BlocksFor(MaxCtx) * BlockSize
      BY <3>1, BlocksEnough
    <3>. QED
      BY <3>1, <3>2, ParamAssumption
  <2>3. len + Len(toks) <= BlocksFor(MaxCtx) * BlockSize
    BY <2>1, <2>2
  <2>4. BlocksFor(len + Len(toks)) <= BlocksFor(MaxCtx)
    BY <2>2, <2>3, BlocksEnough
  <2>5. BlocksFor(len + Len(toks)) \in Nat
    BY <2>2, BlocksEnough
  <2>. QED
    BY <1>5, <2>2, <2>4, <2>5
<1>. QED
  BY <1>1, <1>2, <1>3, <1>6

-----------------------------------------------------------------------------
(* The stream of a request *)

\* A token that is the argmax after the stream, or that follows a crossing, keeps
\* the stream greedy.
LEMMA GreedyMore ==
  ASSUME Types, EmittedGreedy, NEW t \in Token, all' = Append(all, t), UNCHANGED <<req, plen>>,
         ~req.sampled /\ ~Crossed(Len(all)) => t = Greedy(all)
  PROVE  EmittedGreedy'
<1>1. /\ all \in Stream /\ Len(all) \in Nat /\ plen \in Nat /\ plen <= Len(all)
  BY TypesFacts
<1>2. /\ Len(all') = Len(all) + 1
      /\ SubSeq(all', 1, Len(all)) = all
      /\ all'[Len(all) + 1] = t
      /\ \A i \in 1 .. Len(all) : all'[i] = all[i] /\ SubSeq(all', 1, i) = SubSeq(all, 1, i)
  BY <1>1, OneMore
<1>3. ASSUME ~req.sampled, NEW i \in plen + 1 .. Len(all'), ~Crossed(i - 1)
      PROVE  all'[i] = Greedy(SubSeq(all', 1, i - 1))
  <2>1. CASE i = Len(all) + 1
    <3>1. i - 1 = Len(all)
      BY <1>1, <2>1
    <3>. QED
      BY <1>2, <1>3, <2>1, <3>1
  <2>2. CASE i # Len(all) + 1
    <3>1. i \in 1 .. Len(all) /\ i \in plen + 1 .. Len(all) /\ i - 1 \in 0 .. Len(all)
      BY <1>1, <1>2, <2>2
    <3>2. all[i] = Greedy(SubSeq(all, 1, i - 1))
      BY <1>3, <3>1 DEF EmittedGreedy
    <3>3. SubSeq(all', 1, i - 1) = SubSeq(all, 1, i - 1)
      <4>1. all' = all \o <<t>> /\ <<t>> \in Stream
        BY <1>1, OneMore, OneToken
      <4>. QED
        BY <1>1, <3>1, <4>1, PrefixOfConcat DEF Stream
    <3>. QED
      BY <1>2, <3>1, <3>2, <3>3
  <2>. QED
    BY <2>1, <2>2
<1>. QED
  BY <1>3 DEF EmittedGreedy, Crossed

LEMMA GreedyKept ==
  ASSUME EmittedGreedy, UNCHANGED <<req, plen, all>>
  PROVE  EmittedGreedy'
BY DEF EmittedGreedy, Crossed

LEMMA ClampedStream ==
  ASSUME NEW s \in Stream
  PROVE  Clamped(s) \in Stream
<1>1. Len(s) \in Nat /\ s \in Seq(Token)
  BY StreamLength DEF Stream
<1>2. CASE Len(s) > MaxCtx - 1
  <2>. DEFINE m == Len(s) - MaxCtx + 2
  <2>1. m \in 1 .. Len(s) /\ m >= 1 /\ MaxCtx \in Nat /\ MaxCtx >= 2
    BY <1>1, <1>2, ParamAssumption
  <2>2. \A i \in m .. Len(s) : s[i] \in Token
    BY <1>1, <2>1, ElementOfSeq
  <2>3. SubSeq(s, m, Len(s)) \in Seq(Token)
    BY <1>1, <2>1, <2>2, SubSeqProperties
  <2>. QED
    BY <1>2, <2>3 DEF Clamped, Stream
<1>3. CASE ~(Len(s) > MaxCtx - 1)
  BY <1>3 DEF Clamped
<1>. QED
  BY <1>2, <1>3

-----------------------------------------------------------------------------
(* The steps: the initial state, admission and every end *)

LEMMA InitInd == Init => IndInv
<1>. SUFFICES ASSUME Init PROVE IndInv
  OBVIOUS
<1>1. /\ <<>> \in Stream /\ <<>> \in Held /\ Dirty = <<>> /\ Len(<<>>) = 0
      /\ NumBlocks \in Nat /\ Cap \in Nat /\ <<>> \in Seq(Block)
  BY StreamLength, PoolSize, EmptySeq
<1>2. mem \in Memory
  BY <1>1 DEF Init, Memory
<1>3. /\ free \in Seq(Block) /\ Len(free) = NumBlocks
      /\ \A i \in 1 .. NumBlocks : free[i] = NumBlocks - i
  <2>1. free \in [1 .. NumBlocks -> Block]
    BY <1>1 DEF Init, Block
  <2>2. \A i \in 1 .. NumBlocks : free[i] = NumBlocks - i
    BY DEF Init
  <2>. QED
    BY <1>1, <2>1, <2>2, IsASeq, LenProperties
<1>4. Permutation(free \o table)
  <2>1. free \o table = free
    BY <1>3, ConcatEmptySeq DEF Init
  <2>2. ASSUME NEW b \in Block
        PROVE  \E i \in 1 .. Len(free) : free[i] = b
    <3>1. NumBlocks - b \in 1 .. NumBlocks /\ NumBlocks - (NumBlocks - b) = b
      BY <1>1 DEF Block
    <3>. QED
      BY <1>3, <3>1
  <2>3. \A i, j \in 1 .. Len(free) : i # j => free[i] # free[j]
    BY <1>1, <1>3
  <2>. QED
    BY <1>3, <2>1, <2>2, <2>3 DEF Permutation
<1>5. Types
  <2>1. TypeOK
    BY <1>1, <1>2, <1>3, ParamAssumption DEF Init, TypeOK, Memory, Held, SlotType, Cap
  <2>2. len <= Len(table) * BlockSize /\ plen <= Len(all)
    BY <1>1, ParamAssumption DEF Init
  <2>. QED
    BY <1>1, <1>2, <1>3, <2>1, <2>2 DEF Init, Types
<1>6. Lengths /\ Computes /\ PoolFitsContext
  BY <1>1 DEF Init, Lengths, Computes, PoolFitsContext
<1>7. EmittedGreedy
  BY <1>1 DEF Init, EmittedGreedy
<1>. QED
  BY <1>4, <1>5, <1>6, <1>7 DEF IndInv

LEMMA BeginInd ==
  ASSUME IndInv, NEW r \in Requests, Begin(r)
  PROVE  IndInv'
<1>1. /\ pc = "idle" /\ req' = r /\ plen' = Len(all') /\ reason' = "none" /\ pc' = "admit"
      /\ all' = (IF r.probe THEN r.prompt ELSE Clamped(r.prompt))
      /\ UNCHANGED <<table, len, mem, free, active, logits, draft, oldLen>>
  BY DEF Begin, kv
<1>2. r \in Request /\ r.prompt \in Stream
  BY RequestAssumption DEF Request
<1>3. all' \in Stream /\ Len(all') \in Nat
  <2>1. Clamped(r.prompt) \in Stream
    BY <1>2, ClampedStream
  <2>. QED
    BY <1>1, <1>2, <2>1, StreamLength
<1>4. Types'
  <2>1. TypeOK'
    BY <1>1, <1>3 DEF IndInv, Types, TypeOK
  <2>. QED
    BY <1>1, <1>3, <2>1 DEF IndInv, Types
<1>5. Permutation(free \o table)'
  <2>1. free' \o table' = free \o table
    BY <1>1
  <2>2. Permutation(free' \o table')
    BY <2>1 DEF IndInv
  <2>. QED
    BY <2>2 DEF Permutation
<1>6. Lengths'
  BY <1>1 DEF IndInv, Lengths
<1>7. Computes' /\ PoolFitsContext'
  BY <1>1 DEF Computes, PoolFitsContext
<1>8. EmittedGreedy'
  BY <1>1, <1>3 DEF EmittedGreedy
<1>. QED
  BY <1>4, <1>5, <1>6, <1>7, <1>8 DEF IndInv

LEMMA AdmitInd ==
  ASSUME IndInv, Admit
  PROVE  IndInv'
<1>1. /\ pc = "admit" /\ pc' = "prefill" /\ active' = active + 1 /\ active < MaxConcurrent
      /\ UNCHANGED <<req, all, plen, table, len, mem, free, logits, draft, oldLen, reason>>
  BY DEF Admit, kv
<1>2. active = 0 /\ active' = 1 /\ active' \in 0 .. MaxConcurrent
  BY <1>1, ParamAssumption DEF IndInv, Lengths
<1>3. Types'
  <2>1. TypeOK'
    BY <1>1, <1>2 DEF IndInv, Types, TypeOK
  <2>. QED
    BY <1>1, <2>1 DEF IndInv, Types
<1>4. Permutation(free \o table)'
  <2>1. free' \o table' = free \o table
    BY <1>1
  <2>2. Permutation(free' \o table')
    BY <2>1 DEF IndInv
  <2>. QED
    BY <2>2 DEF Permutation
<1>5. Lengths'
  BY <1>1, <1>2 DEF IndInv, Lengths
<1>6. Computes' /\ PoolFitsContext'
  BY <1>1 DEF Computes, PoolFitsContext
<1>7. EmittedGreedy'
  BY <1>1, GreedyKept DEF IndInv
<1>. QED
  BY <1>3, <1>4, <1>5, <1>6, <1>7 DEF IndInv

\* What an end of a request, whatever for, has to leave for release.
LEMMA FinishInd ==
  ASSUME IndInv, NEW why \in {"stop", "cancel", "length", "error", "exhausted"}, Finish(why),
         pc \notin {"idle", "admit"}, UNCHANGED <<req, plen, active>>,
         table' \in Seq(Block), free' \in Seq(Block), Permutation(free' \o table'),
         mem' \in Memory, len' \in 0 .. Cap, len' <= Len(table') * BlockSize,
         all' \in Stream, plen <= Len(all'), EmittedGreedy', PoolFitsContext'
  PROVE  IndInv'
<1>1. /\ reason' = why /\ pc' = "release" /\ logits' = Dirty /\ draft' = <<>> /\ oldLen' = 0
  BY DEF Finish
<1>2. active = 1
  BY DEF IndInv, Lengths
<1>3. mem' \in [Block -> [Offset -> SlotType]]
  BY DEF Memory, SlotType, Held
<1>4. Types'
  <2>1. TypeOK'
    BY <1>1, <1>3, StreamLength DEF IndInv, Types, TypeOK, Cap
  <2>. QED
    BY <1>1, <2>1, StreamLength DEF Types
<1>5. Permutation(free \o table)'
  BY DEF Permutation
<1>6. Lengths' /\ Computes'
  BY <1>1, <1>2 DEF Lengths, Computes
<1>. QED
  BY <1>4, <1>5, <1>6 DEF IndInv

LEMMA ReleaseInd ==
  ASSUME IndInv, Release
  PROVE  IndInv'
<1>1. /\ pc = "release" /\ pc' = "idle" /\ free' = free \o table /\ table' = <<>> /\ len' = 0
      /\ active' = active - 1
      /\ UNCHANGED <<req, all, plen, mem, logits, draft, oldLen, reason>>
  BY DEF Release, FreeBlocks, Complete
<1>2. active = 1 /\ active' = 0
  BY <1>1 DEF IndInv, Lengths
<1>3. free' \in Seq(Block) /\ table' \in Seq(Block) /\ Len(table') = 0
  BY <1>1, TypesFacts, EmptySeq, ConcatProperties DEF IndInv
<1>4. Permutation(free' \o table')
  <2>1. free' \o table' = free \o table
    BY <1>1, <1>3, ConcatEmptySeq
  <2>. QED
    BY <2>1 DEF IndInv
<1>5. Types'
  <2>1. TypeOK'
    BY <1>1, <1>2, <1>3, PoolSize, ParamAssumption DEF IndInv, Types, TypeOK, Cap
  <2>2. len' <= Len(table') * BlockSize
    BY <1>1, <1>3, ParamAssumption
  <2>. QED
    BY <1>1, <1>3, <2>1, <2>2 DEF IndInv, Types
<1>6. Lengths' /\ Computes' /\ PoolFitsContext'
  BY <1>1, <1>2 DEF Lengths, Computes, PoolFitsContext
<1>7. EmittedGreedy'
  BY <1>1, GreedyKept DEF IndInv
<1>8. Permutation(free \o table)'
  BY <1>4 DEF Permutation
<1>. QED
  BY <1>5, <1>6, <1>7, <1>8 DEF IndInv

-----------------------------------------------------------------------------
(* The steps: passes of the model *)

\* A step that leaves the cache alone.
LEMMA CacheKept ==
  ASSUME IndInv, UNCHANGED kv
  PROVE  /\ table' = table /\ len' = len /\ mem' = mem /\ free' = free
         /\ table' \in Seq(Block) /\ free' \in Seq(Block) /\ Permutation(free' \o table')
         /\ mem' \in Memory /\ len' \in 0 .. Cap /\ len' <= Len(table') * BlockSize
<1>1. table' = table /\ len' = len /\ mem' = mem /\ free' = free
  BY DEF kv
<1>2. /\ table \in Seq(Block) /\ free \in Seq(Block) /\ mem \in Memory
      /\ len <= Len(table) * BlockSize /\ len \in 0 .. Cap
  BY DEF IndInv, Types, TypeOK, Cap
<1>3. Permutation(free' \o table')
  <2>1. free' \o table' = free \o table
    BY <1>1
  <2>. QED
    BY <2>1 DEF IndInv
<1>. QED
  BY <1>1, <1>2, <1>3

\* Rows of a stream are rows of another that begins with the same tokens.
LEMMA RowsPrefix ==
  ASSUME NEW tab, NEW m, NEW s, NEW u, NEW n, Rows(tab, m, s, n),
         \A p \in 0 .. n - 1 : SubSeq(u, 1, p + 1) = SubSeq(s, 1, p + 1)
  PROVE  Rows(tab, m, u, n)
BY DEF Rows

\* What a step that goes on with the request has to establish.
LEMMA OnwardInd ==
  ASSUME IndInv, pc \notin {"idle", "admit"}, UNCHANGED <<req, plen, active>>,
         pc' \in {"loop", "decode", "verify", "redo"}, reason' = reason,
         table' \in Seq(Block), free' \in Seq(Block), Permutation(free' \o table'),
         mem' \in Memory, len' \in 0 .. Cap, len' <= Len(table') * BlockSize,
         all' \in Stream, plen <= Len(all'), logits' \in Held, draft' \in Stream, oldLen' \in Nat,
         Lengths', Rows(table', mem', Running', len'),
         pc' \in {"loop", "verify", "redo"} /\ ~Crossed(Len(all')) => logits' = all',
         pc' = "redo" => draft' = <<Greedy(logits')>>, EmittedGreedy'
  PROVE  IndInv'
<1>1. mem' \in [Block -> [Offset -> SlotType]]
  BY DEF Memory, SlotType, Held
<1>2. Types'
  <2>1. TypeOK'
    BY <1>1 DEF IndInv, Types, TypeOK, Cap, Held
  <2>. QED
    BY <2>1 DEF Types
<1>3. Permutation(free \o table)'
  BY DEF Permutation
<1>4. Computes'
  <2>1. Rows(table, mem, Running, len)'
    BY DEF Rows, Crossed, Slot
  <2>. QED
    BY <2>1 DEF Computes, Crossed
<1>5. PoolFitsContext'
  BY DEF PoolFitsContext
<1>. QED
  BY <1>2, <1>3, <1>4, <1>5 DEF IndInv

LEMMA PrefillInd ==
  ASSUME IndInv, Prefill
  PROVE  IndInv'
<1>1. /\ pc = "prefill" /\ Forward(all) /\ UNCHANGED <<req, all, plen, active>>
      /\ \/ Finish("error")
         \/ pc' = "loop" /\ logits' = LastRow /\ UNCHANGED <<draft, oldLen, reason>>
  BY DEF Prefill
<1>2. Types /\ Permutation(free \o table) /\ EmittedGreedy
  BY DEF IndInv
<1>3. len = 0 /\ plen = Len(all)
  BY <1>1 DEF IndInv, Lengths
<1>4. /\ all \in Stream /\ Len(all) \in Nat /\ draft \in Stream /\ oldLen \in Nat
      /\ <<>> \in Stream /\ Len(<<>>) = 0 /\ <<>> \o all = all /\ <<>> \o all \in Stream
  BY <1>2, TypesFacts, StreamLength
<1>5. Rows(table, mem, <<>>, len)
  BY <1>3 DEF Rows
<1>6. plen > IndexTopk => len' > IndexTopk
  <2>1. len' = len + Len(all)
    BY <1>1, <1>2, <1>4, Reserved
  <2>. QED
    BY <1>3, <1>4, <2>1
<1>7. /\ table' \in Seq(Block) /\ free' \in Seq(Block) /\ Permutation(free' \o table')
      /\ mem' \in Memory /\ len' \in 0 .. Cap /\ len' = len + Len(all) /\ len' > 0
      /\ len' <= Len(table') * BlockSize
      /\ Rows(table', mem', <<>> \o all, len')
      /\ LastRow \in Held
      /\ ~Crossed(len') => LastRow = <<>> \o all
  BY <1>1, <1>2, <1>3, <1>4, <1>5, <1>6, PassEffect
<1>8. EmittedGreedy'
  BY <1>1, <1>2, GreedyKept
<1>9. all' = all /\ plen <= Len(all') /\ len' = Len(all')
  BY <1>1, <1>3, <1>4, <1>7
<1>10. CASE Finish("error")
  <2>1. PoolFitsContext'
    BY <1>10 DEF Finish, PoolFitsContext
  <2>. QED
    BY <1>1, <1>4, <1>7, <1>8, <1>9, <1>10, <2>1, FinishInd
<1>11. CASE pc' = "loop" /\ logits' = LastRow /\ UNCHANGED <<draft, oldLen, reason>>
  <2>1. Lengths'
    BY <1>1, <1>7, <1>9, <1>11 DEF IndInv, Lengths
  <2>2. Rows(table', mem', Running', len')
    BY <1>4, <1>7, <1>9, <1>11 DEF Running
  <2>3. ~Crossed(Len(all')) => logits' = all'
    BY <1>4, <1>7, <1>9, <1>11
  <2>4. logits' \in Held
    BY <1>7, <1>11
  <2>. QED
    BY <1>1, <1>4, <1>7, <1>8, <1>9, <1>11, <2>1, <2>2, <2>3, <2>4, OnwardInd
<1>. QED
  BY <1>1, <1>10, <1>11

\* A pass that finds no blocks ends the request: it has outgrown the context.
LEMMA ExhaustedInd ==
  ASSUME IndInv, pc \notin {"idle", "admit"}, NEW toks \in Stream, Exhausted(toks),
         Finish("exhausted"), UNCHANGED <<req, all, plen, active>>,
         len + Len(toks) <= Len(all) + (IF Speculates THEN Lesser(req.k, Remaining) ELSE 0)
  PROVE  IndInv'
<1>1. Types /\ Permutation(free \o table) /\ EmittedGreedy
  BY DEF IndInv
<1>2. /\ table' \in Seq(Block) /\ free' \in Seq(Block) /\ Permutation(free' \o table')
      /\ UNCHANGED <<len, mem>> /\ len' <= Len(table') * BlockSize
      /\ len + Len(toks) > MaxCtx
  BY <1>1, ExhaustedEffect
<1>3. /\ mem \in Memory /\ len \in 0 .. Cap /\ all \in Stream /\ plen <= Len(all)
      /\ len \in Nat /\ Len(all) \in Nat /\ req.k \in Nat /\ Remaining \in Int
      /\ Len(toks) \in Nat /\ MaxCtx \in Nat
  <2>1. len \in 0 .. Cap
    BY <1>1 DEF Types, TypeOK, Cap
  <2>. QED
    BY <1>1, <2>1, TypesFacts, StreamLength, ParamAssumption
<1>4. PoolFitsContext'
  <2>. DEFINE spec == IF Speculates THEN Lesser(req.k, Remaining) ELSE 0
  <2>1. spec \in Int
    BY <1>3 DEF Lesser
  <2>2. Len(all) + spec > MaxCtx
    BY <1>2, <1>3, <2>1
  <2>3. spec' = spec /\ all' = all
    BY DEF Speculates, Probing, Remaining, Lesser
  <2>. QED
    BY <2>2, <2>3 DEF PoolFitsContext
<1>5. EmittedGreedy'
  BY <1>1, GreedyKept
<1>. QED
  BY <1>2, <1>3, <1>4, <1>5, FinishInd

LEMMA PrefillThrowsInd ==
  ASSUME IndInv, PrefillThrows
  PROVE  IndInv'
<1>1. /\ pc = "prefill" /\ UNCHANGED <<req, all, plen, active>>
      /\ \/ Finish("error") /\ UNCHANGED kv
         \/ Exhausted(all) /\ Finish("exhausted")
  BY DEF PrefillThrows
<1>2. /\ all \in Stream /\ plen <= Len(all) /\ Len(all) \in Nat /\ plen \in Nat
      /\ req.k \in Nat /\ req.max \in Nat
  BY TypesFacts DEF IndInv
<1>3. CASE Finish("error") /\ UNCHANGED kv
  <2>1. PoolFitsContext'
    BY <1>3 DEF Finish, PoolFitsContext
  <2>2. EmittedGreedy'
    BY <1>1, GreedyKept DEF IndInv
  <2>3. /\ table' \in Seq(Block) /\ free' \in Seq(Block) /\ Permutation(free' \o table')
        /\ mem' \in Memory /\ len' \in 0 .. Cap /\ len' <= Len(table') * BlockSize
    BY <1>3, CacheKept
  <2>4. all' \in Stream /\ plen <= Len(all')
    BY <1>1, <1>2
  <2>. QED
    BY <1>1, <1>3, <2>1, <2>2, <2>3, <2>4, FinishInd
<1>4. CASE Exhausted(all) /\ Finish("exhausted")
  <2>1. len = 0 /\ plen = Len(all)
    BY <1>1 DEF IndInv, Lengths
  <2>2. Lesser(req.k, Remaining) \in Nat
    BY <1>2, <2>1 DEF Lesser, Remaining
  <2>3. len + Len(all) <= Len(all) + (IF Speculates THEN Lesser(req.k, Remaining) ELSE 0)
    BY <1>2, <2>1, <2>2
  <2>. QED
    BY <1>1, <1>2, <1>4, <2>3, ExhaustedInd
<1>. QED
  BY <1>1, <1>3, <1>4

\* A request that ends with the cache, and its stream but for one token, as it was.
LEMMA EndInd ==
  ASSUME IndInv, NEW why \in {"stop", "cancel", "length"}, Finish(why),
         pc \notin {"idle", "admit"}, UNCHANGED <<req, plen, active, table, mem, free>>,
         len' \in 0 .. len, all' \in Stream, plen <= Len(all'), EmittedGreedy'
  PROVE  IndInv'
<1>1. PoolFitsContext'
  BY DEF Finish, PoolFitsContext
<1>2. /\ table \in Seq(Block) /\ free \in Seq(Block) /\ mem \in Memory
      /\ len <= Len(table) * BlockSize /\ len \in 0 .. Cap /\ Len(table) \in Nat
      /\ Len(table) * BlockSize \in Nat /\ Cap \in Nat
  <2>1. len \in 0 .. Cap
    BY DEF IndInv, Types, TypeOK, Cap
  <2>2. /\ table \in Seq(Block) /\ free \in Seq(Block) /\ mem \in Memory
        /\ len <= Len(table) * BlockSize /\ Len(table) \in Nat
    BY TypesFacts DEF IndInv
  <2>. QED
    BY <2>1, <2>2, PoolSize, ParamAssumption
<1>3. /\ table' \in Seq(Block) /\ free' \in Seq(Block) /\ mem' \in Memory
      /\ len' <= Len(table') * BlockSize /\ len' \in 0 .. Cap
  BY <1>2
<1>4. Permutation(free' \o table')
  <2>1. free' \o table' = free \o table
    OBVIOUS
  <2>. QED
    BY <2>1 DEF IndInv
<1>. QED
  BY <1>1, <1>3, <1>4, FinishInd

LEMMA LoopDoneInd ==
  ASSUME IndInv, LoopDone
  PROVE  IndInv'
<1>1. /\ pc = "loop" /\ Finish("length") /\ UNCHANGED kv
      /\ UNCHANGED <<req, all, plen, active, table, len, mem, free>>
  BY DEF LoopDone, kv
<1>2. all' \in Stream /\ plen <= Len(all') /\ len' \in 0 .. len
  BY <1>1, TypesFacts DEF IndInv
<1>3. EmittedGreedy'
  BY <1>1, GreedyKept DEF IndInv
<1>. QED
  BY <1>1, <1>2, <1>3, EndInd

LEMMA StopTokenInd ==
  ASSUME IndInv, StopToken
  PROVE  IndInv'
<1>1. /\ pc = "loop" /\ Finish("stop")
      /\ UNCHANGED <<req, all, plen, active, table, len, mem, free>>
  BY DEF StopToken, kv
<1>2. all' \in Stream /\ plen <= Len(all') /\ len' \in 0 .. len
  BY <1>1, TypesFacts DEF IndInv
<1>3. EmittedGreedy'
  BY <1>1, GreedyKept DEF IndInv
<1>. QED
  BY <1>1, <1>2, <1>3, EndInd

LEMMA SampleInd ==
  ASSUME IndInv, Sample
  PROVE  IndInv'
<1>1. /\ pc = "loop" /\ ~Speculates
      /\ UNCHANGED <<req, plen, active, table, len, mem, free>>
  BY DEF Sample, Record, kv
<1>2. PICK t \in IF req.sampled THEN Token ELSE {Greedy(logits)} :
        Record(t, "decode", UNCHANGED <<logits, draft, oldLen, reason>>)
  BY DEF Sample
<1>3. /\ all' = Append(all, t)
      /\ \/ pc' = "decode" /\ UNCHANGED <<logits, draft, oldLen, reason>>
         \/ \E why \in {"stop", "cancel", "length"} : Finish(why)
  BY <1>2 DEF Record
<1>4. Types /\ EmittedGreedy /\ UNCHANGED kv
  BY <1>1 DEF IndInv, kv
<1>5. /\ len = Len(all) /\ len > 0 /\ (~Crossed(Len(all)) => logits = all)
      /\ Rows(table, mem, all, len)
  BY <1>1 DEF IndInv, Lengths, Computes, Running
<1>6. /\ all \in Stream /\ Len(all) \in Nat /\ plen \in Nat /\ plen <= Len(all)
      /\ logits \in Held /\ draft \in Stream /\ oldLen \in Nat
      /\ req.sampled \in BOOLEAN /\ len \in Nat
  BY <1>4, TypesFacts
<1>7. t \in Token
  BY <1>6, GreedyType
<1>8. /\ all' \in Stream /\ Len(all') = Len(all) + 1
      /\ \A i \in 1 .. Len(all) : SubSeq(all', 1, i) = SubSeq(all, 1, i)
  BY <1>3, <1>6, <1>7, OneMore
<1>9. plen <= Len(all') /\ len' \in 0 .. len
  BY <1>1, <1>6, <1>8
<1>10. EmittedGreedy'
  <2>1. ~req.sampled /\ ~Crossed(Len(all)) => t = Greedy(all)
    BY <1>2, <1>5
  <2>. QED
    BY <1>1, <1>3, <1>4, <1>7, <2>1, GreedyMore
<1>11. CASE \E why \in {"stop", "cancel", "length"} : Finish(why)
  BY <1>1, <1>8, <1>9, <1>10, <1>11, EndInd
<1>12. CASE pc' = "decode" /\ UNCHANGED <<logits, draft, oldLen, reason>>
  <2>1. Lengths'
    <3>1. Speculates' = Speculates
      BY <1>1 DEF Speculates, Probing
    <3>2. len' = Len(all') - 1 /\ len' > 0
      BY <1>1, <1>5, <1>6, <1>8
    <3>3. active' = 1
      BY <1>1 DEF IndInv, Lengths
    <3>. QED
      BY <1>1, <1>12, <3>1, <3>2, <3>3 DEF Lengths
  <2>2. Rows(table', mem', Running', len')
    <3>1. \A p \in 0 .. len - 1 : SubSeq(all', 1, p + 1) = SubSeq(all, 1, p + 1)
      <4>1. \A p \in 0 .. len - 1 : p + 1 \in 1 .. Len(all)
        BY <1>5, <1>6
      <4>. QED
        BY <1>8, <4>1
    <3>2. Rows(table, mem, all', len)
      BY <1>5, <3>1, RowsPrefix
    <3>3. Running' = all' /\ table' = table /\ mem' = mem /\ len' = len
      BY <1>1, <1>12 DEF Running
    <3>. QED
      BY <3>2, <3>3
  <2>3. /\ table' \in Seq(Block) /\ free' \in Seq(Block) /\ Permutation(free' \o table')
        /\ mem' \in Memory /\ len' \in 0 .. Cap /\ len' <= Len(table') * BlockSize
    BY <1>4, CacheKept
  <2>4. logits' \in Held /\ draft' \in Stream /\ oldLen' \in Nat /\ reason' = reason
    BY <1>6, <1>12
  <2>5. pc' \notin {"loop", "verify", "redo"}
    BY <1>12
  <2>. QED
    BY <1>1, <1>8, <1>9, <1>10, <1>12, <2>1, <2>2, <2>3, <2>4, <2>5, OnwardInd
<1>. QED
  BY <1>3, <1>11, <1>12

LEMMA DecodeInd ==
  ASSUME IndInv, Decode
  PROVE  IndInv'
<1>. DEFINE t == all[Len(all)]
            s == SubSeq(all, 1, Len(all) - 1)
<1>1. /\ pc = "decode" /\ Forward(<<t>>) /\ pc' = "loop" /\ logits' = LastRow
      /\ UNCHANGED <<req, all, plen, active, draft, oldLen, reason>>
  BY DEF Decode
<1>2. Types /\ Permutation(free \o table) /\ EmittedGreedy
  BY DEF IndInv
<1>3. len = Len(all) - 1 /\ len > 0 /\ Rows(table, mem, all, len)
  BY <1>1 DEF IndInv, Lengths, Computes, Running
<1>4. /\ all \in Stream /\ Len(all) \in Nat /\ draft \in Stream /\ oldLen \in Nat
      /\ plen \in Nat /\ plen <= Len(all) /\ len \in Nat
  BY <1>2, TypesFacts
<1>5. /\ t \in Token /\ s \in Stream /\ Len(s) = len /\ s \o <<t>> = all
      /\ Len(all) - 1 \in 0 .. Len(all)
  <2>1. all # <<>>
    BY <1>3, <1>4, StreamLength
  <2>. QED
    BY <1>3, <1>4, <2>1, LastToken
<1>6. <<t>> \in Stream /\ Len(<<t>>) = 1
  <2>1. t \in Token
    <3>1. all # <<>>
      BY <1>3, <1>4, StreamLength
    <3>. QED
      BY <1>4, <3>1, LastToken
  <2>. HIDE DEF t
  <2>. QED
    BY <2>1, OneToken
<1>. HIDE DEF t
<1>7. \A p \in 0 .. len - 1 : SubSeq(s, 1, p + 1) = SubSeq(all, 1, p + 1)
  <2>1. TAKE p \in 0 .. len - 1
  <2>2. /\ p + 1 \in 0 .. Len(all) - 1 /\ all \in Seq(Token)
        /\ Len(all) - 1 \in 0 .. Len(all)
    BY <1>3, <1>4 DEF Stream
  <2>3. SubSeq(SubSeq(all, 1, Len(all) - 1), 1, p + 1) = SubSeq(all, 1, p + 1)
    BY <2>2, PrefixOfPrefix
  <2>. QED
    BY <2>3
<1>. HIDE DEF s
<1>16. Rows(table, mem, s, len)
  BY <1>3, <1>7, RowsPrefix
<1>8. plen > IndexTopk => len' > IndexTopk
  <2>1. len' = len + Len(<<t>>)
    BY <1>1, <1>2, <1>6, Reserved
  <2>. QED
    BY <1>3, <1>4, <1>6, <2>1, ParamAssumption
<1>9. /\ table' \in Seq(Block) /\ free' \in Seq(Block) /\ Permutation(free' \o table')
      /\ mem' \in Memory /\ len' \in 0 .. Cap /\ len' = len + Len(<<t>>) /\ len' > 0
      /\ len' <= Len(table') * BlockSize
      /\ Rows(table', mem', s \o <<t>>, len')
      /\ LastRow \in Held
      /\ ~Crossed(len') => LastRow = s \o <<t>>
  BY <1>1, <1>2, <1>5, <1>6, <1>8, <1>16, PassEffect
<1>10. EmittedGreedy'
  BY <1>1, <1>2, GreedyKept
<1>11. all' = all /\ plen <= Len(all') /\ len' = Len(all')
  BY <1>1, <1>3, <1>4, <1>6, <1>9
<1>12. Lengths'
  BY <1>1, <1>9, <1>11 DEF IndInv, Lengths
<1>13. Rows(table', mem', Running', len')
  BY <1>1, <1>5, <1>9, <1>11 DEF Running
<1>14. ~Crossed(Len(all')) => logits' = all'
  BY <1>1, <1>5, <1>9, <1>11
<1>15. logits' \in Held /\ all' \in Stream /\ draft' \in Stream /\ oldLen' \in Nat
  BY <1>1, <1>4, <1>9
<1>. QED
  BY <1>1, <1>9, <1>10, <1>11, <1>12, <1>13, <1>14, <1>15, OnwardInd

LEMMA DecodeThrowsInd ==
  ASSUME IndInv, DecodeThrows
  PROVE  IndInv'
<1>. DEFINE t == all[Len(all)]
<1>1. /\ pc = "decode" /\ Exhausted(<<t>>) /\ Finish("exhausted")
      /\ UNCHANGED <<req, all, plen, active>>
  BY DEF DecodeThrows
<1>2. len = Len(all) - 1 /\ len > 0 /\ ~Speculates
  BY <1>1 DEF IndInv, Lengths
<1>3. all \in Stream /\ Len(all) \in Nat
  BY TypesFacts DEF IndInv
<1>4. t \in Token
  <2>1. all # <<>>
    BY <1>2, <1>3, StreamLength
  <2>. QED
    BY <1>3, <2>1, LastToken
<1>5. <<t>> \in Stream /\ Len(<<t>>) = 1
  BY <1>4, OneToken
<1>. HIDE DEF t
<1>6. len + Len(<<t>>) <= Len(all) + (IF Speculates THEN Lesser(req.k, Remaining) ELSE 0)
  BY <1>2, <1>3, <1>5
<1>. QED
  BY <1>1, <1>5, <1>6, ExhaustedInd

-----------------------------------------------------------------------------
(* The steps: speculative decode *)

LEMMA DraftTokens ==
  ASSUME Types, Speculates, Remaining > 0, NEW d \in Drafts
  PROVE  d \in Stream /\ Len(d) = Lesser(req.k, Remaining) /\ Len(d) > 0 /\ d # <<>>
<1>. DEFINE n == Lesser(req.k, Remaining)
<1>1. /\ req.k \in Nat /\ req.k > 0 /\ Remaining \in Int /\ logits \in Held
  BY TypesFacts DEF Speculates
<1>2. n \in Nat /\ n >= 1 /\ n - 1 \in Nat
  BY <1>1 DEF Lesser
<1>3. PICK ds \in [1 .. n - 1 -> Token] : d = <<Greedy(logits)>> \o ds
  BY DEF Drafts
<1>. HIDE DEF n
<1>4. ds \in Stream /\ Len(ds) = n - 1
  BY <1>2, <1>3, IsASeq, LenProperties DEF Stream
<1>5. <<Greedy(logits)>> \in Stream /\ Len(<<Greedy(logits)>>) = 1
  <2>1. Greedy(logits) \in Token
    BY <1>1, GreedyType
  <2>. QED
    BY <2>1, OneToken
<1>6. d \in Stream /\ Len(d) = 1 + (n - 1)
  BY <1>3, <1>4, <1>5, ConcatProperties DEF Stream
<1>7. Len(d) = n /\ Len(d) > 0
  BY <1>2, <1>6
<1>. QED
  BY <1>6, <1>7, StreamLength DEF n

LEMMA GroupInd ==
  ASSUME IndInv, Group
  PROVE  IndInv'
<1>1. /\ pc = "loop" /\ Speculates /\ Remaining > 0 /\ oldLen' = len /\ pc' = "verify"
      /\ UNCHANGED <<req, all, plen, active, logits, reason>>
  BY DEF Group
<1>2. PICK d \in Drafts : Forward(d) /\ draft' = d
  BY DEF Group
<1>3. Types /\ Permutation(free \o table) /\ EmittedGreedy
  BY DEF IndInv
<1>4. d \in Stream /\ Len(d) > 0 /\ d # <<>>
  BY <1>1, <1>3, DraftTokens
<1>5. /\ len = Len(all) /\ len > 0 /\ (~Crossed(Len(all)) => logits = all)
      /\ Rows(table, mem, all, len)
  BY <1>1 DEF IndInv, Lengths, Computes, Running
<1>6. /\ all \in Stream /\ Len(all) \in Nat /\ plen \in Nat /\ plen <= Len(all)
      /\ logits \in Held /\ len \in Nat /\ Len(d) \in Nat
  BY <1>3, <1>4, TypesFacts, StreamLength
<1>7. plen > IndexTopk => len' > IndexTopk
  <2>1. len' = len + Len(d)
    BY <1>2, <1>3, <1>4, Reserved
  <2>. QED
    BY <1>5, <1>6, <2>1, ParamAssumption
<1>8. /\ table' \in Seq(Block) /\ free' \in Seq(Block) /\ Permutation(free' \o table')
      /\ mem' \in Memory /\ len' \in 0 .. Cap /\ len' = len + Len(d) /\ len' > 0
      /\ len' <= Len(table') * BlockSize
      /\ Rows(table', mem', all \o d, len')
  BY <1>2, <1>3, <1>4, <1>5, <1>6, <1>7, PassEffect
<1>9. EmittedGreedy'
  BY <1>1, <1>3, GreedyKept
<1>10. Lengths'
  <2>1. Speculates'
    BY <1>1 DEF Speculates, Probing
  <2>2. active' = 1
    BY <1>1 DEF IndInv, Lengths
  <2>3. len' = oldLen' + Len(draft') /\ oldLen' = Len(all') /\ draft' # <<>> /\ oldLen' > 0
    BY <1>1, <1>2, <1>4, <1>5, <1>8
  <2>. QED
    BY <1>1, <1>8, <2>1, <2>2, <2>3 DEF Lengths
<1>11. Rows(table', mem', Running', len')
  BY <1>1, <1>2, <1>8 DEF Running
<1>12. ~Crossed(Len(all')) => logits' = all'
  BY <1>1, <1>5
<1>13. /\ all' \in Stream /\ plen <= Len(all') /\ draft' \in Stream /\ oldLen' \in Nat
       /\ logits' \in Held
  BY <1>1, <1>2, <1>4, <1>6
<1>. QED
  BY <1>1, <1>8, <1>9, <1>10, <1>11, <1>12, <1>13, OnwardInd

LEMMA GroupThrowsInd ==
  ASSUME IndInv, GroupThrows
  PROVE  IndInv'
<1>1. /\ pc = "loop" /\ Speculates /\ Remaining > 0 /\ Finish("exhausted")
      /\ UNCHANGED <<req, all, plen, active>>
  BY DEF GroupThrows
<1>2. PICK d \in Drafts : Exhausted(d)
  BY DEF GroupThrows
<1>3. Types
  BY DEF IndInv
<1>4. d \in Stream /\ Len(d) = Lesser(req.k, Remaining) /\ Len(d) \in Nat
  BY <1>1, <1>3, DraftTokens, StreamLength
<1>5. len = Len(all) /\ Len(all) \in Nat
  BY <1>1, <1>3, TypesFacts DEF IndInv, Lengths
<1>6. len + Len(d) <= Len(all) + (IF Speculates THEN Lesser(req.k, Remaining) ELSE 0)
  BY <1>1, <1>4, <1>5
<1>. QED
  BY <1>1, <1>2, <1>4, <1>6, ExhaustedInd

LEMMA AcceptInd ==
  ASSUME IndInv, Accept
  PROVE  IndInv'
<1>. DEFINE t == Head(draft)
            row == Slot(table, mem, oldLen).kv
<1>1. /\ pc = "verify" /\ t = Greedy(logits) /\ UNCHANGED kv
      /\ UNCHANGED <<req, plen, active, table, len, mem, free>>
  BY DEF Accept, Record, kv
<1>2. \/ Finish("stop") /\ all' = all
      \/ all' = Append(all, t) /\ \E why \in {"stop", "cancel", "length"} : Finish(why)
      \/ /\ all' = Append(all, t)
         /\ pc' = (IF Len(draft) = 1 THEN "loop" ELSE "verify")
         /\ logits' = row /\ draft' = Tail(draft) /\ oldLen' = oldLen + 1 /\ UNCHANGED reason
  BY DEF Accept, Record
<1>3. Types /\ EmittedGreedy
  BY DEF IndInv
<1>4. /\ len = oldLen + Len(draft) /\ oldLen = Len(all) /\ draft # <<>> /\ oldLen > 0
      /\ Speculates /\ (~Crossed(Len(all)) => logits = all)
      /\ Rows(table, mem, all \o draft, len)
  BY <1>1 DEF IndInv, Lengths, Computes, Running
<1>5. /\ all \in Stream /\ Len(all) \in Nat /\ plen \in Nat /\ plen <= Len(all)
      /\ draft \in Stream /\ oldLen \in Nat /\ len \in Nat /\ table \in Seq(Block)
      /\ mem \in Memory /\ len <= Len(table) * BlockSize /\ Len(table) * BlockSize \in Nat
  BY <1>3, TypesFacts, ParamAssumption
<1>6. /\ t \in Token /\ Tail(draft) \in Stream /\ Len(Tail(draft)) = Len(draft) - 1
      /\ Len(draft) \in Nat /\ Len(draft) > 0
      /\ Append(all, t) \in Stream
      /\ SubSeq(all \o draft, 1, Len(all) + 1) = Append(all, t)
      /\ Append(all, t) \o Tail(draft) = all \o draft
      /\ Len(draft) = 1 => Append(all, t) = all \o draft
  <2>1. all \in Seq(Token) /\ draft \in Seq(Token) /\ draft # <<>>
    BY <1>4, <1>5 DEF Stream
  <2>2. /\ t \in Token /\ Tail(draft) \in Seq(Token) /\ Len(Tail(draft)) = Len(draft) - 1
        /\ Len(draft) \in Nat /\ Len(draft) > 0
        /\ Append(all, t) \in Seq(Token)
        /\ SubSeq(all \o draft, 1, Len(all) + 1) = Append(all, t)
        /\ Append(all, t) \o Tail(draft) = all \o draft
        /\ Len(draft) = 1 => Append(all, t) = all \o draft
    BY <2>1, HeadOver
  <2>. QED
    BY <2>2 DEF Stream
<1>7. Len(Append(all, t)) = Len(all) + 1
  BY <1>5, <1>6, OneMore
<1>. HIDE DEF t
<1>8. CASE Finish("stop") /\ all' = all
  <2>1. EmittedGreedy'
    BY <1>1, <1>3, <1>8, GreedyKept
  <2>2. all' \in Stream /\ plen <= Len(all') /\ len' \in 0 .. len
    BY <1>1, <1>5, <1>8
  <2>. QED
    BY <1>1, <1>8, <2>1, <2>2, EndInd
<1>9. ASSUME all' = Append(all, t)
      PROVE  EmittedGreedy' /\ all' \in Stream /\ plen <= Len(all') /\ len' \in 0 .. len
             /\ Len(all') = Len(all) + 1
  <2>1. ~req.sampled /\ ~Crossed(Len(all)) => t = Greedy(all)
    BY <1>1, <1>4
  <2>2. EmittedGreedy'
    BY <1>1, <1>3, <1>6, <1>9, <2>1, GreedyMore
  <2>. QED
    BY <1>1, <1>5, <1>6, <1>7, <1>9, <2>2
<1>10. CASE all' = Append(all, t) /\ \E why \in {"stop", "cancel", "length"} : Finish(why)
  BY <1>1, <1>9, <1>10, EndInd
<1>11. CASE /\ all' = Append(all, t)
            /\ pc' = (IF Len(draft) = 1 THEN "loop" ELSE "verify")
            /\ logits' = row /\ draft' = Tail(draft) /\ oldLen' = oldLen + 1 /\ UNCHANGED reason
  <2>1. /\ table' \in Seq(Block) /\ free' \in Seq(Block) /\ Permutation(free' \o table')
        /\ mem' \in Memory /\ len' \in 0 .. Cap /\ len' <= Len(table') * BlockSize
    BY <1>1, CacheKept
  <2>2. row \in Held /\ (~Crossed(Len(all) + 1) => row = Append(all, t))
    <3>1. oldLen \in 0 .. len - 1 /\ oldLen < Len(table) * BlockSize
      BY <1>4, <1>5, <1>6
    <3>2. row \in Held
      BY <1>5, <3>1, SlotHolds
    <3>3. ~Crossed(oldLen + 1) => row = SubSeq(all \o draft, 1, oldLen + 1)
      BY <1>4, <3>1 DEF Rows
    <3>. QED
      BY <1>4, <1>6, <3>2, <3>3
  <2>. HIDE DEF row
  <2>3. Rows(table', mem', Running', len')
    <3>1. Running' = all \o draft
      BY <1>6, <1>11 DEF Running
    <3>. QED
      BY <1>1, <1>4, <3>1
  <2>4. ~Crossed(Len(all')) => logits' = all'
    BY <1>9, <1>11, <2>2
  <2>5. Lengths'
    <3>1. Speculates'
      BY <1>1, <1>4 DEF Speculates, Probing
    <3>2. active' = 1
      BY <1>1 DEF IndInv, Lengths
    <3>. DEFINE n == Len(draft)
                a == Len(all)
    <3>6. /\ len' = oldLen + n /\ oldLen = a /\ oldLen > 0 /\ n \in Nat /\ n > 0 /\ oldLen \in Nat
          /\ oldLen' = oldLen + 1 /\ Len(all') = a + 1
      BY <1>1, <1>4, <1>5, <1>6, <1>9, <1>11
    <3>7. Len(draft') = n - 1 /\ draft' \in Stream
      BY <1>6, <1>11
    <3>. HIDE DEF n, a
    <3>3. len' > 0 /\ oldLen' = Len(all') /\ oldLen' > 0
      BY <3>6
    <3>4. n = 1 => len' = Len(all')
      BY <3>6
    <3>5. n # 1 => len' = oldLen' + Len(draft') /\ draft' # <<>>
      BY <3>6, <3>7, StreamLength
    <3>. QED
      BY <1>11, <3>1, <3>2, <3>3, <3>4, <3>5 DEF Lengths, n
  <2>6. pc' \in {"loop", "verify"}
    BY <1>11
  <2>7. logits' \in Held /\ draft' \in Stream /\ oldLen' \in Nat
    BY <1>5, <1>6, <1>11, <2>2
  <2>. QED
    BY <1>1, <1>9, <1>11, <2>1, <2>3, <2>4, <2>5, <2>6, <2>7, OnwardInd
<1>. QED
  BY <1>2, <1>8, <1>10, <1>11

LEMMA RejectInd ==
  ASSUME IndInv, Reject
  PROVE  IndInv'
<1>1. /\ pc = "verify" /\ len' = oldLen
      /\ UNCHANGED <<req, all, plen, active, table, mem, free>>
      /\ \/ Finish("stop")
         \/ draft' = <<Greedy(logits)>> /\ pc' = "redo" /\ UNCHANGED <<logits, oldLen, reason>>
  BY DEF Reject
<1>2. Types /\ EmittedGreedy
  BY DEF IndInv
<1>3. /\ len = oldLen + Len(draft) /\ oldLen = Len(all) /\ draft # <<>> /\ oldLen > 0
      /\ Speculates /\ (~Crossed(Len(all)) => logits = all)
      /\ Rows(table, mem, all \o draft, len)
  BY <1>1 DEF IndInv, Lengths, Computes, Running
<1>4. /\ all \in Stream /\ Len(all) \in Nat /\ plen \in Nat /\ plen <= Len(all)
      /\ draft \in Stream /\ Len(draft) \in Nat /\ oldLen \in Nat /\ len \in Nat
      /\ logits \in Held /\ len <= Len(table) * BlockSize /\ Len(table) * BlockSize \in Nat
  BY <1>2, TypesFacts, ParamAssumption
<1>5. EmittedGreedy'
  BY <1>1, <1>2, GreedyKept
<1>6. all' \in Stream /\ plen <= Len(all') /\ len' \in 0 .. len
  BY <1>1, <1>3, <1>4
<1>7. CASE Finish("stop")
  BY <1>1, <1>5, <1>6, <1>7, EndInd
<1>8. CASE draft' = <<Greedy(logits)>> /\ pc' = "redo" /\ UNCHANGED <<logits, oldLen, reason>>
  <2>1. /\ table' \in Seq(Block) /\ free' \in Seq(Block) /\ mem' \in Memory
        /\ len' \in 0 .. Cap /\ len' <= Len(table') * BlockSize
    <3>1. table \in Seq(Block) /\ free \in Seq(Block) /\ mem \in Memory
      BY <1>2, TypesFacts
    <3>2. len \in 0 .. Cap
      BY <1>2 DEF Types, TypeOK, Cap
    <3>. QED
      BY <1>1, <1>4, <1>6, <3>1, <3>2, PoolSize
  <2>2. Permutation(free' \o table')
    <3>1. free' \o table' = free \o table
      BY <1>1
    <3>. QED
      BY <3>1 DEF IndInv
  <2>3. Rows(table', mem', Running', len')
    <3>1. ASSUME NEW p \in 0 .. oldLen - 1
          PROVE  SubSeq(all, 1, p + 1) = SubSeq(all \o draft, 1, p + 1)
      <4>1. p + 1 \in 0 .. Len(all)
        BY <1>3, <1>4
      <4>. QED
        BY <1>4, <4>1, PrefixOfConcat DEF Stream
    <3>2. Rows(table, mem, all \o draft, oldLen)
      <4>1. 0 .. oldLen - 1 \subseteq 0 .. len - 1
        BY <1>3, <1>4
      <4>. QED
        BY <1>3, <4>1 DEF Rows
    <3>3. Rows(table, mem, all, oldLen)
      BY <3>1, <3>2, RowsPrefix
    <3>4. Running' = all /\ table' = table /\ mem' = mem /\ len' = oldLen
      BY <1>1, <1>8 DEF Running
    <3>. QED
      BY <3>3, <3>4
  <2>4. Lengths'
    <3>1. Speculates'
      BY <1>1, <1>3 DEF Speculates, Probing
    <3>2. active' = 1
      BY <1>1 DEF IndInv, Lengths
    <3>3. len' = Len(all') /\ len' > 0
      BY <1>1, <1>3
    <3>. QED
      BY <1>8, <3>1, <3>2, <3>3 DEF Lengths
  <2>5. ~Crossed(Len(all')) => logits' = all'
    BY <1>1, <1>3, <1>8
  <2>6. draft' \in Stream
    <3>1. Greedy(logits) \in Token
      BY <1>4, GreedyType
    <3>. QED
      BY <1>8, <3>1, OneToken
  <2>7. logits' \in Held /\ oldLen' \in Nat /\ draft' = <<Greedy(logits')>>
    BY <1>4, <1>8
  <2>. QED
    BY <1>1, <1>5, <1>6, <1>8, <2>1, <2>2, <2>3, <2>4, <2>5, <2>6, <2>7, OnwardInd
<1>. QED
  BY <1>1, <1>7, <1>8

LEMMA RedoInd ==
  ASSUME IndInv, Redo
  PROVE  IndInv'
<1>. DEFINE t == Greedy(logits)
<1>1. /\ pc = "redo" /\ Forward(draft) /\ UNCHANGED <<req, plen, active>>
      /\ all' = Append(all, Head(draft))
      /\ \/ pc' = "loop" /\ logits' = LastRow /\ draft' = <<>> /\ oldLen' = 0 /\ UNCHANGED reason
         \/ \E why \in {"stop", "cancel", "length"} : Finish(why)
  BY DEF Redo, Record
<1>2. Types /\ Permutation(free \o table) /\ EmittedGreedy
  BY DEF IndInv
<1>3. /\ len = Len(all) /\ len > 0 /\ (~Crossed(Len(all)) => logits = all)
      /\ Rows(table, mem, all, len) /\ draft = <<t>>
  BY <1>1 DEF IndInv, Lengths, Computes, Running
<1>4. /\ all \in Stream /\ Len(all) \in Nat /\ plen \in Nat /\ plen <= Len(all)
      /\ logits \in Held /\ len \in Nat /\ draft \in Stream
  BY <1>2, TypesFacts
<1>5. t \in Token
  BY <1>4, GreedyType
<1>. HIDE DEF t
<1>6. Len(draft) = 1 /\ Head(draft) = t
  BY <1>3, <1>5, OneToken
<1>7. all' = Append(all, t) /\ all' = all \o draft /\ all' \in Stream /\ Len(all') = Len(all) + 1
  BY <1>1, <1>3, <1>4, <1>5, <1>6, OneMore
<1>8. plen > IndexTopk => len' > IndexTopk
  <2>1. len' = len + Len(draft)
    BY <1>1, <1>2, <1>4, Reserved
  <2>. QED
    BY <1>3, <1>4, <1>6, <2>1, ParamAssumption
<1>9. /\ table' \in Seq(Block) /\ free' \in Seq(Block) /\ Permutation(free' \o table')
      /\ mem' \in Memory /\ len' \in 0 .. Cap /\ len' = len + Len(draft) /\ len' > 0
      /\ len' <= Len(table') * BlockSize
      /\ Rows(table', mem', all \o draft, len')
      /\ LastRow \in Held
      /\ ~Crossed(len') => LastRow = all \o draft
  BY <1>1, <1>2, <1>3, <1>4, <1>8, PassEffect
<1>10. EmittedGreedy'
  <2>1. ~req.sampled /\ ~Crossed(Len(all)) => t = Greedy(all)
    BY <1>3 DEF t
  <2>. QED
    BY <1>1, <1>2, <1>5, <1>7, <2>1, GreedyMore
<1>11. plen <= Len(all') /\ len' = Len(all')
  BY <1>3, <1>4, <1>6, <1>7, <1>9
<1>12. CASE \E why \in {"stop", "cancel", "length"} : Finish(why)
  <2>1. PICK why \in {"stop", "cancel", "length"} : Finish(why)
    BY <1>12
  <2>2. PoolFitsContext'
    BY <2>1 DEF Finish, PoolFitsContext
  <2>. QED
    BY <1>1, <1>7, <1>9, <1>10, <1>11, <2>1, <2>2, FinishInd
<1>13. CASE pc' = "loop" /\ logits' = LastRow /\ draft' = <<>> /\ oldLen' = 0 /\ UNCHANGED reason
  <2>1. Lengths'
    <3>1. active' = 1
      BY <1>1 DEF IndInv, Lengths
    <3>. QED
      BY <1>9, <1>11, <1>13, <3>1 DEF Lengths
  <2>2. Rows(table', mem', Running', len')
    BY <1>7, <1>9, <1>13 DEF Running
  <2>3. ~Crossed(Len(all')) => logits' = all'
    BY <1>7, <1>9, <1>11, <1>13
  <2>4. logits' \in Held /\ draft' \in Stream /\ oldLen' \in Nat
    BY <1>9, <1>13, StreamLength
  <2>. QED
    BY <1>1, <1>7, <1>9, <1>10, <1>11, <1>13, <2>1, <2>2, <2>3, <2>4, OnwardInd
<1>. QED
  BY <1>1, <1>12, <1>13

-----------------------------------------------------------------------------
(* The theorems *)

LEMMA StutterInd ==
  ASSUME IndInv, UNCHANGED vars
  PROVE  IndInv'
<1>1. UNCHANGED <<pc, req, all, plen, table, len, mem, free, active, logits, draft, oldLen, reason>>
  BY DEF vars
<1>2. Types' /\ Lengths' /\ PoolFitsContext'
  <2>1. TypeOK'
    BY <1>1 DEF IndInv, Types, TypeOK
  <2>. QED
    BY <1>1, <2>1 DEF IndInv, Types, Lengths, Speculates, Probing, PoolFitsContext, Remaining, Lesser
<1>3. Permutation(free \o table)'
  <2>1. free' \o table' = free \o table
    BY <1>1
  <2>2. Permutation(free' \o table')
    BY <2>1 DEF IndInv
  <2>. QED
    BY <2>2 DEF Permutation
<1>4. Computes'
  <2>1. Running' = Running
    BY <1>1 DEF Running
  <2>. QED
    BY <1>1, <2>1 DEF IndInv, Computes, Rows, Crossed, Slot
<1>5. EmittedGreedy'
  BY <1>1, GreedyKept DEF IndInv
<1>. QED
  BY <1>2, <1>3, <1>4, <1>5 DEF IndInv

LEMMA NextInd ==
  ASSUME IndInv, [Next]_vars
  PROVE  IndInv'
<1>1. CASE \E r \in Requests : Begin(r)
  BY <1>1, BeginInd
<1>2. CASE Work
  <2>1. CASE Admit
    BY <2>1, AdmitInd
  <2>2. CASE Prefill
    BY <2>2, PrefillInd
  <2>3. CASE PrefillThrows
    BY <2>3, PrefillThrowsInd
  <2>4. CASE LoopDone
    BY <2>4, LoopDoneInd
  <2>5. CASE StopToken
    BY <2>5, StopTokenInd
  <2>6. CASE Sample
    BY <2>6, SampleInd
  <2>7. CASE Decode
    BY <2>7, DecodeInd
  <2>8. CASE DecodeThrows
    BY <2>8, DecodeThrowsInd
  <2>9. CASE Group
    BY <2>9, GroupInd
  <2>10. CASE GroupThrows
    BY <2>10, GroupThrowsInd
  <2>11. CASE Accept
    BY <2>11, AcceptInd
  <2>12. CASE Reject
    BY <2>12, RejectInd
  <2>13. CASE Redo
    BY <2>13, RedoInd
  <2>14. CASE Release
    BY <2>14, ReleaseInd
  <2>. QED
    BY <1>2, <2>1, <2>2, <2>3, <2>4, <2>5, <2>6, <2>7, <2>8, <2>9, <2>10, <2>11, <2>12, <2>13,
       <2>14 DEF Work
<1>3. CASE UNCHANGED vars
  BY <1>3, StutterInd
<1>. QED
  BY <1>1, <1>2, <1>3 DEF Next

\* Every reachable state of the CPU path satisfies the inductive invariant.
THEOREM Invariant == Spec => []IndInv
<1>1. Init => IndInv
  BY InitInd
<1>2. IndInv /\ [Next]_vars => IndInv'
  BY NextInd
<1>. QED
  BY <1>1, <1>2, PTL DEF Spec

\* The block tables, lengths and slots of the cache stay what their types say,
\* through every request the engine runs (src/kv_cache.cpp, src/server.cpp).
THEOREM TypeCorrect == Spec => []TypeOK
<1>1. IndInv => TypeOK
  BY DEF IndInv, Types
<1>. QED
  BY <1>1, Invariant, PTL

\* No block is lost or in two places, for any pool, block size and way for a
\* request to end, a reserve() that failed half-way included
\* (src/kv_cache.cpp:71-91, src/server.cpp:534-540).
THEOREM BlocksAreConserved == Spec => []BlocksConserved
<1>1. IndInv => BlocksConserved
  <2>. SUFFICES ASSUME IndInv PROVE BlocksConserved
    OBVIOUS
  <2>. DEFINE owned == free \o table
  <2>1. /\ owned \in Seq(Block) /\ Len(owned) = NumBlocks
        /\ \A b \in Block : \E i \in 1 .. Len(owned) : owned[i] = b
    BY DEF IndInv, Permutation
  <2>2. DOMAIN owned = 1 .. Len(owned)
    BY <2>1, LenProperties
  <2>3. Len(owned) = NumBlocks /\ \A b \in Block : \E i \in DOMAIN owned : owned[i] = b
    BY <2>1, <2>2
  <2>. QED
    BY <2>3 DEF BlocksConserved
<1>. QED
  BY <1>1, Invariant, PTL

\* After prefill, decode, accepted drafts and a rewind alike, the cache is as long
\* as the tokens that were run and holds their rows, for every group size and every
\* draft (src/server.cpp:466-523).
THEOREM RowsAreTheStreams == Spec => []RowsFollowStream
<1>1. IndInv => RowsFollowStream
  <2>. SUFFICES ASSUME IndInv PROVE RowsFollowStream
    OBVIOUS
  <2>1. /\ pc = "loop" => len = Len(all)
        /\ pc = "decode" => len = Len(all) - 1
        /\ pc = "verify" => len = oldLen + Len(draft) /\ oldLen = Len(all)
    BY DEF IndInv, Lengths
  <2>2. pc \in {"loop", "verify"} /\ ~Crossed(Len(all)) => logits = all
    BY DEF IndInv, Computes
  <2>3. pc \in {"loop", "decode"} /\ ~Crossed(len) => HoldsKV(table, mem, all, len)
    <3>1. SUFFICES ASSUME pc \in {"loop", "decode"}, ~Crossed(len), NEW p \in 0 .. len - 1
                   PROVE  Slot(table, mem, p).kv = SubSeq(all, 1, p + 1)
      BY DEF HoldsKV
    <3>2. Rows(table, mem, all, len)
      BY <3>1 DEF IndInv, Computes, Running
    <3>3. len \in Nat /\ plen \in Nat
      BY TypesFacts DEF IndInv
    <3>4. ~Crossed(p + 1)
      BY <3>1, <3>3, ParamAssumption DEF Crossed
    <3>. QED
      BY <3>2, <3>4 DEF Rows
  <2>. QED
    BY <2>1, <2>2, <2>3 DEF RowsFollowStream
<1>. QED
  BY <1>1, Invariant, PTL

\* A greedy request is given the model's own argmax tokens whatever is drafted for
\* it, accepted or rejected, for every model and every k (src/server.cpp:466-523).
THEOREM OutputIsGreedy == Spec => []EmittedGreedy
<1>1. IndInv => EmittedGreedy
  BY DEF IndInv
<1>. QED
  BY <1>1, Invariant, PTL

\* The pool of create_paged_kv_cache refuses only a request that has outgrown
\* max_model_len, for every block size and slack (src/server.cpp:224-229).
THEOREM PoolIsLargeEnough == Spec => []PoolFitsContext
<1>1. IndInv => PoolFitsContext
  BY DEF IndInv
<1>. QED
  BY <1>1, Invariant, PTL

=============================================================================
