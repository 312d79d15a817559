--------------------------- MODULE PipelineProofs ---------------------------
(***************************************************************************)
(* Proofs about Pipeline, for every launch, checkpoint, vocabulary and     *)
(* stream of tokens.                                                       *)
(***************************************************************************)
EXTENDS Pipeline, StreamLemmas, FiniteSetTheorems

-----------------------------------------------------------------------------
(* Arithmetic *)

LEMMA Divided ==
  ASSUME NEW n \in Nat, NEW d \in Nat \ {0}
  PROVE  /\ n \div d \in Nat /\ n % d \in 0 .. d - 1
         /\ n = (n \div d) * d + (n % d)
OBVIOUS

LEMMA DividesUniquely ==
  ASSUME NEW d \in Nat \ {0}, NEW a \in Nat, NEW x \in 0 .. d - 1
  PROVE  (a * d + x) \div d = a /\ (a * d + x) % d = x
OBVIOUS

LEMMA TimesMonotone ==
  ASSUME NEW a \in Int, NEW b \in Int, NEW d \in Nat, a <= b
  PROVE  a * d <= b * d /\ a * d \in Int /\ b * d \in Int
OBVIOUS

\* The calls of a layer are none of a pass's last.
LEMMA LayerCall ==
  ASSUME NEW l \in Nat, NEW c \in Nat, l < c, NEW p \in Nat, 2 * c <= p - 1
  PROVE  2 * l + 1 \in 1 .. p - 1 /\ 2 * l + 2 \in 1 .. p - 1
OBVIOUS

\* A place inside the a-th pass is not the last place of a pass.
LEMMA InsidePass ==
  ASSUME NEW a \in Nat, NEW i \in Nat, NEW d \in Nat, NEW x \in 1 .. d - 1
  PROVE  a * d + x # i * d
OBVIOUS

LEMMA SamePlace ==
  ASSUME NEW a \in Nat, NEW b \in Nat, NEW d \in Nat, NEW x \in 1 .. d, NEW y \in 1 .. d,
         a * d + x = b * d + y
  PROVE  a = b /\ x = y
OBVIOUS

LEMMA MinOfTwo ==
  ASSUME NEW a \in Int, NEW b \in Int
  PROVE  Min({a, b}) = IF a <= b THEN a ELSE b
<1>1. CASE a <= b
  <2>1. \A x \in {a, b} : (\A y \in {a, b} : x =< y) <=> x = a
    BY <1>1
  <2>. QED
    BY <1>1, <2>1 DEF Min
<1>2. CASE ~(a <= b)
  <2>1. \A x \in {a, b} : (\A y \in {a, b} : x =< y) <=> x = b
    BY <1>2
  <2>. QED
    BY <1>2, <2>1 DEF Min
<1>. QED
  BY <1>1, <1>2

LEMMA MaxWithZero ==
  ASSUME NEW a \in Int
  PROVE  Max({0, a}) = IF a >= 0 THEN a ELSE 0
<1>1. CASE a >= 0
  <2>1. \A x \in {0, a} : (\A y \in {0, a} : x >= y) <=> x = a
    BY <1>1
  <2>. QED
    BY <1>1, <2>1 DEF Max
<1>2. CASE ~(a >= 0)
  <2>1. \A x \in {0, a} : (\A y \in {0, a} : x >= y) <=> x = 0
    BY <1>2
  <2>. QED
    BY <1>2, <2>1 DEF Max
<1>. QED
  BY <1>1, <1>2

-----------------------------------------------------------------------------
(* Ranks, stages and the split of the layers *)

LEMMA ConfigFacts ==
  ASSUME cfg \in Configs
  PROVE  /\ cfg.layers \in Nat \ {0} /\ cfg.tp \in Nat \ {0} /\ cfg.pp \in Nat \ {0}
         /\ cfg.types \in [0 .. cfg.layers - 1 -> {"full", "shared", "none"}]
         /\ cfg.keys \subseteq 0 .. cfg.layers - 1
         /\ cfg.mode \in {"given", "greedy", "sampled"}
         /\ cfg.form \in {"f32", "int4", "gguf"}
         /\ cfg.inter \in Nat \ {0} /\ cfg.unit \in Nat \ {0}
         /\ cfg.form = "gguf" => cfg.inter % cfg.unit = 0 /\ cfg.tp <= cfg.unit
BY ConfigAssumption

LEMMA RankPlace ==
  ASSUME cfg \in Configs, NEW r \in Rank
  PROVE  /\ r \in Nat /\ StageOf(r) \in 0 .. cfg.pp - 1 /\ TpRank(r) \in 0 .. cfg.tp - 1
         /\ r = StageOf(r) * cfg.tp + TpRank(r) /\ Root(r) = StageOf(r) * cfg.tp
         /\ Root(r) \in Nat
<1>1. cfg.tp \in Nat \ {0} /\ cfg.pp \in Nat \ {0} /\ r \in 0 .. cfg.tp * cfg.pp - 1
  BY ConfigFacts DEF Rank
<1>2. r \in Nat
  BY <1>1
<1>3. /\ r \div cfg.tp \in Nat /\ r % cfg.tp \in 0 .. cfg.tp - 1
      /\ r = (r \div cfg.tp) * cfg.tp + (r % cfg.tp)
  BY <1>1, <1>2, Divided
<1>4. r \div cfg.tp < cfg.pp
  <2>1. SUFFICES ASSUME cfg.pp <= r \div cfg.tp PROVE FALSE
    BY <1>1, <1>3
  <2>2. cfg.pp * cfg.tp <= (r \div cfg.tp) * cfg.tp
    BY <1>1, <1>3, <2>1, TimesMonotone
  <2>3. cfg.pp * cfg.tp = cfg.tp * cfg.pp /\ cfg.tp * cfg.pp \in Int
    BY <1>1
  <2>4. (r \div cfg.tp) * cfg.tp <= r
    BY <1>1, <1>2, <1>3
  <2>. QED
    BY <1>1, <2>2, <2>3, <2>4
<1>. QED
  BY <1>1, <1>2, <1>3, <1>4 DEF StageOf, TpRank, Root

\* The ranks of a stage, by their place in it.
LEMMA StagePlaces ==
  ASSUME cfg \in Configs, NEW s \in 0 .. cfg.pp - 1, NEW w \in 0 .. cfg.tp - 1
  PROVE  /\ s * cfg.tp + w \in Rank /\ StageOf(s * cfg.tp + w) = s /\ TpRank(s * cfg.tp + w) = w
<1>1. cfg.tp \in Nat \ {0} /\ cfg.pp \in Nat \ {0}
  BY ConfigFacts
<1>2. (s * cfg.tp + w) \div cfg.tp = s /\ (s * cfg.tp + w) % cfg.tp = w
  <2>1. s \in Nat
    BY <1>1
  <2>. QED
    BY <1>1, <2>1, DividesUniquely
<1>3. (s + 1) * cfg.tp <= cfg.pp * cfg.tp
  BY <1>1, TimesMonotone
<1>4. s * cfg.tp + w \in 0 .. cfg.tp * cfg.pp - 1
  BY <1>1, <1>3
<1>. QED
  BY <1>2, <1>4 DEF Rank, StageOf, TpRank

LEMMA StageMates ==
  ASSUME cfg \in Configs, NEW r \in Rank
  PROVE  /\ r \in Stage(r) /\ Root(r) \in Stage(r) /\ Stage(r) \subseteq Rank
         /\ \A w \in 0 .. cfg.tp - 1 : Root(r) + w \in Stage(r) /\ TpRank(Root(r) + w) = w
         /\ \A q \in Stage(r) : /\ StageOf(q) = StageOf(r) /\ Root(q) = Root(r) /\ Count(q) = Count(r)
                                /\ Last(q) <=> Last(r)
                                /\ Stage(q) = Stage(r) /\ q = Root(r) + TpRank(q)
<1>1. StageOf(r) \in 0 .. cfg.pp - 1 /\ Root(r) = StageOf(r) * cfg.tp /\ Root(r) \in Nat
  BY RankPlace
<1>2. cfg.tp \in Nat \ {0}
  BY ConfigFacts
<1>3. \A w \in 0 .. cfg.tp - 1 : /\ Root(r) + w \in Rank /\ StageOf(Root(r) + w) = StageOf(r)
                                 /\ TpRank(Root(r) + w) = w
  BY <1>1, StagePlaces
<1>4. Root(r) + 0 = Root(r) /\ 0 \in 0 .. cfg.tp - 1
  BY <1>1, <1>2
<1>5. Root(r) \in Rank /\ StageOf(Root(r)) = StageOf(r)
  BY <1>3, <1>4
<1>6. ASSUME NEW q \in Stage(r)
      PROVE  /\ StageOf(q) = StageOf(r) /\ Root(q) = Root(r) /\ Count(q) = Count(r)
             /\ Last(q) <=> Last(r)
             /\ Stage(q) = Stage(r) /\ q = Root(r) + TpRank(q)
  <2>1. q \in Rank /\ StageOf(q) = StageOf(r)
    BY DEF Stage
  <2>2. q = StageOf(q) * cfg.tp + TpRank(q)
    BY <2>1, RankPlace
  <2>. QED
    BY <1>1, <2>1, <2>2 DEF Root, Count, Last, Stage
<1>. QED
  BY <1>3, <1>5, <1>6 DEF Stage

\* The rank a stage further.
LEMMA Hop ==
  ASSUME cfg \in Configs, NEW r \in Rank
  PROVE  /\ NextRank(r) = r + cfg.tp
         /\ NextRank(r) \in Rank => /\ StageOf(NextRank(r)) = StageOf(r) + 1 /\ ~Last(r)
                                    /\ ~First(NextRank(r)) /\ NextRank(r) # r
         /\ ~Last(r) => NextRank(r) \in Rank
         /\ ~First(r) => r - cfg.tp \in Rank /\ NextRank(r - cfg.tp) = r
<1>1. cfg.tp \in Nat \ {0} /\ cfg.pp \in Nat \ {0}
  BY ConfigFacts
<1>2. /\ r \in Nat /\ StageOf(r) \in 0 .. cfg.pp - 1 /\ TpRank(r) \in 0 .. cfg.tp - 1
      /\ r = StageOf(r) * cfg.tp + TpRank(r)
  BY RankPlace
<1>. DEFINE s == StageOf(r)
            w == TpRank(r)
            up == (s + 1) * cfg.tp + w
            down == (s - 1) * cfg.tp + w
<1>3. r + cfg.tp = up /\ r - cfg.tp = down /\ down + cfg.tp = r
  BY <1>1, <1>2
<1>4. ASSUME up \in Rank PROVE s + 1 \in 0 .. cfg.pp - 1
  <2>1. up \in 0 .. cfg.tp * cfg.pp - 1
    BY <1>4 DEF Rank
  <2>. SUFFICES ASSUME cfg.pp <= s + 1 PROVE FALSE
    BY <1>1, <1>2
  <2>2. cfg.pp * cfg.tp <= (s + 1) * cfg.tp
    BY <1>1, <1>2, TimesMonotone
  <2>. QED
    BY <1>1, <1>2, <2>1, <2>2
<1>5. ASSUME s + 1 \in 0 .. cfg.pp - 1 PROVE up \in Rank /\ StageOf(up) = s + 1
  BY <1>2, <1>5, StagePlaces
<1>6. ASSUME s - 1 \in 0 .. cfg.pp - 1 PROVE down \in Rank
  BY <1>2, <1>6, StagePlaces
<1>7. NextRank(r) = up /\ NextRank(r - cfg.tp) = r
  BY <1>3 DEF NextRank
<1>. HIDE DEF up, down
<1>8. ~Last(r) => s + 1 \in 0 .. cfg.pp - 1
  BY <1>1, <1>2 DEF Last
<1>9. ~First(r) => s - 1 \in 0 .. cfg.pp - 1
  BY <1>1, <1>2 DEF First
<1>10. up \in Rank => StageOf(up) = s + 1 /\ ~Last(r) /\ ~First(up) /\ up # r
  <2>. SUFFICES ASSUME up \in Rank PROVE StageOf(up) = s + 1 /\ ~Last(r) /\ ~First(up) /\ up # r
    OBVIOUS
  <2>1. s + 1 \in 0 .. cfg.pp - 1 /\ StageOf(up) = s + 1
    BY <1>4, <1>5
  <2>2. s # cfg.pp - 1 /\ s + 1 # 0
    BY <1>1, <1>2, <2>1
  <2>3. up # r
    BY <1>1, <1>2, <1>3
  <2>. QED
    BY <2>1, <2>2, <2>3 DEF Last, First
<1>. QED
  BY <1>3, <1>5, <1>6, <1>7, <1>8, <1>9, <1>10

LEMMA PerCovers ==
  ASSUME cfg \in Configs
  PROVE  /\ Per \in Nat \ {0} /\ cfg.layers <= cfg.pp * Per
<1>1. cfg.layers \in Nat \ {0} /\ cfg.pp \in Nat \ {0}
  BY ConfigFacts
<1>. DEFINE n == cfg.layers + cfg.pp - 1
<1>2. n \in Nat
  BY <1>1
<1>3. Per = n \div cfg.pp
  BY DEF Per
<1>4. Per \in Nat /\ n % cfg.pp \in 0 .. cfg.pp - 1 /\ n = Per * cfg.pp + (n % cfg.pp)
  BY <1>1, <1>2, <1>3, Divided
<1>. HIDE DEF n
<1>5. cfg.layers <= Per * cfg.pp
  BY <1>1, <1>4 DEF n
<1>6. Per # 0
  BY <1>1, <1>4, <1>5
<1>. QED
  BY <1>1, <1>4, <1>5, <1>6

\* The layers of a stage, and that the next one goes on where it ends.
LEMMA SplitFacts ==
  ASSUME cfg \in Configs, NEW r \in Rank
  PROVE  /\ Begin(StageOf(r)) \in Nat /\ Count(r) \in Int
         /\ First(r) => Begin(StageOf(r)) = 0
         /\ Count(r) <= cfg.layers - Begin(StageOf(r))
         /\ Last(r) => Begin(StageOf(r)) + Count(r) = cfg.layers
         /\ Count(r) >= 0 => Begin(StageOf(r)) <= cfg.layers
         /\ NextRank(r) \in Rank /\ Count(r) >= 0 =>
              IF Begin(StageOf(NextRank(r))) >= cfg.layers
              THEN Begin(StageOf(r)) + Count(r) = cfg.layers
              ELSE Begin(StageOf(r)) + Count(r) = Begin(StageOf(NextRank(r)))
<1>. DEFINE s == StageOf(r)
<1>1. cfg.layers \in Nat \ {0} /\ cfg.pp \in Nat \ {0} /\ s \in 0 .. cfg.pp - 1
  BY ConfigFacts, RankPlace
<1>2. Per \in Nat \ {0} /\ cfg.layers <= cfg.pp * Per
  BY PerCovers
<1>3. /\ First(r) <=> s = 0
      /\ Last(r) <=> s = cfg.pp - 1
      /\ Count(r) = End(s) - Begin(s)
  BY DEF First, Last, Count
<1>4. NextRank(r) \in Rank => StageOf(NextRank(r)) = s + 1 /\ s # cfg.pp - 1
  BY Hop DEF Last
<1>5. CASE cfg.pp <= 1
  <2>1. Begin(s) = 0 /\ End(s) = cfg.layers /\ s = cfg.pp - 1
    BY <1>1, <1>5 DEF Begin, End
  <2>. QED
    BY <1>1, <1>3, <1>4, <2>1
<1>6. CASE ~(cfg.pp <= 1)
  <2>1. s * Per \in Nat /\ (s + 1) * Per = s * Per + Per
    BY <1>1, <1>2
  <2>2. Begin(s) = s * Per /\ Begin(s + 1) = s * Per + Per
    BY <1>6, <2>1 DEF Begin
  <2>3. End(s) = IF cfg.layers <= Begin(s) + Per THEN cfg.layers ELSE Begin(s) + Per
    BY <1>1, <1>2, <1>6, <2>1, <2>2, MinOfTwo DEF End
  <2>4. s = cfg.pp - 1 => cfg.layers <= s * Per + Per
    BY <1>1, <1>2, <2>1
  <2>5. s = 0 => s * Per = 0
    BY <1>2
  <2>. DEFINE b == Begin(s)
  <2>6. /\ b \in Nat /\ b + Per = Begin(s + 1) /\ End(s) \in Int
        /\ End(s) <= cfg.layers /\ End(s) <= b + Per
        /\ End(s) = cfg.layers \/ (End(s) = b + Per /\ b + Per < cfg.layers)
    BY <1>1, <1>2, <2>1, <2>2, <2>3
  <2>7. s = 0 => b = 0
    BY <2>2, <2>5
  <2>8. s = cfg.pp - 1 => End(s) = cfg.layers
    BY <2>2, <2>3, <2>4
  <2>. HIDE DEF b
  <2>9. Begin(s) = b
    BY DEF b
  <2>. HIDE DEF s
  <2>. QED
    BY <1>1, <1>2, <1>3, <1>4, <2>6, <2>7, <2>8, <2>9 DEF s
<1>. QED
  BY <1>5, <1>6

-----------------------------------------------------------------------------
(* The first largest value, over a vocabulary or by way of its shards *)

\* u does not come before t: its value is smaller, or the same and it is larger.
NotBefore(v, t, u) == v[t] > v[u] \/ (v[t] = v[u] /\ t <= u)

LEMMA FirstMaxIs ==
  ASSUME NEW T \in SUBSET Nat, NEW b \in T, \A t \in T : t <= b,
         NEW v \in [T -> Int]
  PROVE  /\ FirstMax(v) \in T
         /\ \A u \in T : NotBefore(v, FirstMax(v), u)
         /\ \A t \in T : (\A u \in T : NotBefore(v, t, u)) => t = FirstMax(v)
<1>. DEFINE Best(n, t) == t \in T /\ t <= n /\ \A u \in T : u <= n => NotBefore(v, t, u)
            Bad == {n \in Nat : (\E t \in T : t <= n) /\ ~(\E t \in T : Best(n, t))}
<1>1. Bad = {}
  <2>. SUFFICES ASSUME Bad # {} PROVE FALSE
    OBVIOUS
  <2>1. Bad \in SUBSET Nat
    OBVIOUS
  <2>. HIDE DEF Bad
  <2>2. PICK n \in Bad : \A k \in Bad : n <= k
    BY <2>1, Least
  <2>. USE DEF Bad
  <2>3. n \in Nat /\ ~(\E t \in T : Best(n, t))
    BY <2>2
  <2>4. CASE \A t \in T : t <= n => t = n
    <3>1. n \in T
      BY <2>2, <2>4
    <3>2. Best(n, n)
      BY <2>3, <2>4, <3>1 DEF NotBefore
    <3>. QED
      BY <2>3, <3>1, <3>2
  <2>5. CASE \E t \in T : t <= n /\ t # n
    <3>1. n - 1 \in Nat /\ \E t \in T : t <= n - 1
      BY <2>3, <2>5
    <3>2. n - 1 \notin Bad
      <4>. HIDE DEF Bad
      <4>. QED
        BY <2>2, <2>3
    <3>3. PICK t \in T : Best(n - 1, t)
      BY <3>1, <3>2
    <3>4. \A u \in T : u <= n => u <= n - 1 \/ u = n
      BY <2>3
    <3>5. CASE n \in T /\ v[n] > v[t]
      <4>1. ASSUME NEW u \in T, u <= n PROVE NotBefore(v, n, u)
        <5>1. CASE u = n
          BY <5>1, <3>5, <2>3 DEF NotBefore
        <5>2. CASE u <= n - 1
          <6>1. NotBefore(v, t, u)
            BY <3>3, <5>2
          <6>2. v[n] \in Int /\ v[t] \in Int /\ v[u] \in Int
            BY <3>5
          <6>. QED
            BY <3>5, <6>1, <6>2 DEF NotBefore
        <5>. QED
          BY <3>4, <4>1, <5>1, <5>2
      <4>2. Best(n, n)
        BY <2>3, <3>5, <4>1
      <4>. QED
        BY <2>3, <3>5, <4>2
    <3>6. CASE ~(n \in T /\ v[n] > v[t])
      <4>1. ASSUME NEW u \in T, u <= n PROVE NotBefore(v, t, u)
        <5>1. CASE u = n
          <6>1. v[n] \in Int /\ v[t] \in Int
            BY <5>1
          <6>2. t <= n
            BY <2>3, <3>3
          <6>3. ~(v[n] > v[t])
            BY <3>6, <5>1
          <6>4. v[t] > v[n] \/ v[t] = v[n]
            <7>1. PICK x \in Int, y \in Int : x = v[t] /\ y = v[n]
              BY <6>1
            <7>2. ~(y > x)
              BY <6>3, <7>1
            <7>3. x > y \/ x = y
              BY <7>2
            <7>. QED
              BY <7>1, <7>3
          <6>. QED
            BY <5>1, <6>2, <6>4 DEF NotBefore
        <5>2. CASE u <= n - 1
          BY <3>3, <5>2
        <5>. QED
          BY <3>4, <4>1, <5>1, <5>2
      <4>2. Best(n, t)
        BY <2>3, <3>3, <4>1
      <4>. QED
        BY <2>3, <4>2
    <3>. QED
      BY <3>5, <3>6
  <2>. QED
    BY <2>4, <2>5
<1>2. PICK m \in T : Best(b, m)
  <2>1. b \in Nat /\ b \notin Bad
    <3>. HIDE DEF Bad
    <3>. QED
      BY <1>1
  <2>. QED
    BY <2>1
<1>3. \A u \in T : NotBefore(v, m, u)
  BY <1>2
<1>4. DOMAIN v = T
  OBVIOUS
<1>5. FirstMax(v) \in T /\ \A u \in T : NotBefore(v, FirstMax(v), u)
  BY <1>3, <1>4, Zenon DEF FirstMax, NotBefore
<1>6. ASSUME NEW t \in T, \A u \in T : NotBefore(v, t, u)
      PROVE  t = FirstMax(v)
  <2>1. NotBefore(v, t, FirstMax(v)) /\ NotBefore(v, FirstMax(v), t)
    BY <1>5, <1>6
  <2>2. v[t] \in Int /\ v[FirstMax(v)] \in Int /\ t \in Nat /\ FirstMax(v) \in Nat
    BY <1>5
  <2>. QED
    BY <2>1, <2>2 DEF NotBefore
<1>. QED
  BY <1>5, <1>6

\* The shards of a divided vocabulary.
LEMMA ShardPlaces ==
  ASSUME cfg \in Configs, Sharded
  PROVE  /\ Width \in Nat \ {0} /\ IsFiniteSet(Shards) /\ Shards \subseteq Nat
         /\ \A t \in Token : /\ t \div Width \in Shards
                             /\ \A w \in Shards : t \in Shard(w) <=> w = t \div Width
         /\ \A w \in Shards : Shard(w) \subseteq Token /\ w * Width \in Shard(w)
<1>1. cfg.tp \in Nat \ {0} /\ Vocab \in Nat \ {0} /\ Vocab % cfg.tp = 0
  BY ConfigFacts, ParamAssumption DEF Sharded
<1>2. Width \in Nat /\ Vocab = Width * cfg.tp
  <2>1. /\ Vocab \div cfg.tp \in Nat
        /\ Vocab = (Vocab \div cfg.tp) * cfg.tp + (Vocab % cfg.tp)
    BY <1>1, Divided
  <2>. QED
    BY <1>1, <2>1 DEF Width
<1>3. Width # 0
  BY <1>1, <1>2
<1>4. Shards = 0 .. cfg.tp - 1 /\ IsFiniteSet(Shards) /\ Shards \subseteq Nat
  <2>1. cfg.tp - 1 \in Int /\ 0 \in Int
    BY <1>1
  <2>2. IsFiniteSet(0 .. cfg.tp - 1)
    BY <2>1, FS_Interval
  <2>. QED
    BY <1>1, <2>2 DEF Shards
<1>5. ASSUME NEW w \in Shards, NEW t \in Shard(w)
      PROVE  t \in Token /\ w = t \div Width
  <2>1. w \in Nat /\ w \in 0 .. cfg.tp - 1 /\ w * Width \in Nat /\ (w + 1) * Width = w * Width + Width
    BY <1>1, <1>2, <1>4
  <2>2. t \in Nat /\ t - w * Width \in 0 .. Width - 1
    BY <1>2, <2>1 DEF Shard
  <2>3. PICK x \in 0 .. Width - 1 : t = w * Width + x
    BY <2>1, <2>2
  <2>4. t \div Width = w
    BY <1>2, <1>3, <2>1, <2>3, DividesUniquely
  <2>5. (w + 1) * Width <= cfg.tp * Width
    BY <1>1, <1>2, <2>1, TimesMonotone
  <2>6. t < Vocab
    <3>1. cfg.tp * Width = Vocab
      BY <1>1, <1>2
    <3>. QED
      BY <1>1, <1>2, <2>1, <2>2, <2>5, <3>1
  <2>. QED
    BY <1>1, <2>2, <2>4, <2>6 DEF Token
<1>6. ASSUME NEW t \in Token
      PROVE  t \div Width \in Shards /\ t \in Shard(t \div Width)
  <2>1. t \in Nat /\ t < Vocab
    BY <1>1, <1>6 DEF Token
  <2>. DEFINE w == t \div Width
  <2>2. w \in Nat /\ t % Width \in 0 .. Width - 1 /\ t = w * Width + (t % Width)
    BY <1>2, <1>3, <2>1, Divided
  <2>. HIDE DEF w
  <2>3. w < cfg.tp
    <3>. SUFFICES ASSUME cfg.tp <= w PROVE FALSE
      BY <1>1, <2>2
    <3>1. cfg.tp * Width <= w * Width /\ w * Width \in Int
      BY <1>1, <1>2, <2>2, TimesMonotone
    <3>2. cfg.tp * Width = Vocab
      BY <1>1, <1>2
    <3>. QED
      BY <1>1, <1>2, <2>1, <2>2, <3>1, <3>2
  <2>4. w * Width \in Nat /\ (w + 1) * Width = w * Width + Width
    BY <1>2, <2>2
  <2>5. t \in Shard(w)
    BY <1>2, <2>1, <2>2, <2>4 DEF Shard
  <2>. QED
    BY <1>1, <1>4, <2>2, <2>3, <2>5 DEF w
<1>7. ASSUME NEW w \in Shards
      PROVE  w * Width \in Shard(w)
  <2>1. w * Width \in Nat /\ (w + 1) * Width = w * Width + Width
    BY <1>2, <1>4
  <2>. QED
    BY <1>2, <1>3, <2>1 DEF Shard
<1>. QED
  BY <1>2, <1>3, <1>4, <1>5, <1>6, <1>7

\* Slices of zeroed buffers add up to the logit of the one shard that has the token.
LEMMA SumOfSlices ==
  ASSUME cfg \in Configs, Sharded, NEW r, NEW t \in Token,
         Logit(r, t \div Width, t) \in Int
  PROVE  MapThenSumSet(LAMBDA w : IF t \in Shard(w) THEN Logit(r, w, t) ELSE 0, Shards)
           = Logit(r, t \div Width, t)
<1>. DEFINE W == t \div Width
            val == Logit(r, W, t)
            first(s) == CHOOSE w \in s : TRUE
            slice(w) == IF t \in Shard(w) THEN Logit(r, w, t) ELSE 0
            unfold(f) == [s \in SUBSET Shards |->
                            IF s = {} THEN 0
                            ELSE LET x == CHOOSE w \in s : TRUE
                                 IN  (IF t \in Shard(x) THEN Logit(r, x, t) ELSE 0) + f[s \ {x}]]
            sum == [s \in SUBSET Shards |-> IF W \in s THEN val ELSE 0]
            iter == CHOOSE f : f = unfold(f)
<1>1. MapThenSumSet(LAMBDA w : IF t \in Shard(w) THEN Logit(r, w, t) ELSE 0, Shards) = iter[Shards]
  BY Zenon DEF MapThenSumSet, MapThenFoldSet
<1>2. /\ W \in Shards /\ IsFiniteSet(Shards) /\ val \in Int
      /\ \A w \in Shards : slice(w) = IF w = W THEN val ELSE 0
  BY ShardPlaces
<1>3. \A f : unfold(f) = [s \in SUBSET Shards |-> IF s = {} THEN 0 ELSE slice(first(s)) + f[s \ {first(s)}]]
  OBVIOUS
<1>. HIDE DEF W, val, slice, unfold
<1>4. \A s \in SUBSET Shards : s # {} => first(s) \in s
  OBVIOUS
<1>. HIDE DEF first
<1>5. ASSUME NEW s \in SUBSET Shards, s # {}
      PROVE  sum[s] = slice(first(s)) + sum[s \ {first(s)}]
  <2>1. first(s) \in s /\ s \ {first(s)} \in SUBSET Shards
    BY <1>4, <1>5
  <2>2. sum[s] = (IF W \in s THEN val ELSE 0) /\ sum[s \ {first(s)}] = IF W \in s \ {first(s)} THEN val ELSE 0
    BY <2>1
  <2>3. slice(first(s)) = IF first(s) = W THEN val ELSE 0
    BY <1>2, <2>1
  <2>. HIDE DEF sum
  <2>. QED
    BY <1>2, <2>1, <2>2, <2>3
<1>6. sum = unfold(sum)
  <2>1. sum[{}] = 0
    OBVIOUS
  <2>2. \A s \in SUBSET Shards : sum[s] = IF s = {} THEN 0 ELSE slice(first(s)) + sum[s \ {first(s)}]
    BY <1>5, <2>1
  <2>3. unfold(sum) = [s \in SUBSET Shards |-> IF s = {} THEN 0 ELSE slice(first(s)) + sum[s \ {first(s)}]]
    BY <1>3
  <2>4. sum = [s \in SUBSET Shards |-> sum[s]]
    OBVIOUS
  <2>. HIDE DEF sum
  <2>5. [s \in SUBSET Shards |-> sum[s]]
          = [s \in SUBSET Shards |-> IF s = {} THEN 0 ELSE slice(first(s)) + sum[s \ {first(s)}]]
    BY <2>2, Zenon
  <2>. QED
    BY <2>3, <2>4, <2>5
<1>7. iter = unfold(iter)
  BY <1>6, Zenon
<1>. HIDE DEF iter
<1>8. \A s \in SUBSET Shards : iter[s] = IF s = {} THEN 0 ELSE slice(first(s)) + iter[s \ {first(s)}]
  BY <1>3, <1>7
<1>. DEFINE Bad == {n \in Nat : \E s \in SUBSET Shards : Cardinality(s) = n /\ iter[s] # sum[s]}
<1>9. Bad = {}
  <2>. SUFFICES ASSUME Bad # {} PROVE FALSE
    OBVIOUS
  <2>1. Bad \in SUBSET Nat
    OBVIOUS
  <2>. HIDE DEF Bad
  <2>2. PICK n \in Bad : \A k \in Bad : n <= k
    BY <2>1, Least
  <2>3. n \in Nat /\ \E s \in SUBSET Shards : Cardinality(s) = n /\ iter[s] # sum[s]
    BY <2>2 DEF Bad
  <2>4. PICK s \in SUBSET Shards : Cardinality(s) = n /\ iter[s] # sum[s]
    BY <2>3
  <2>. DEFINE less == s \ {first(s)}
  <2>5. s # {}
    <3>. SUFFICES ASSUME s = {} PROVE FALSE
      OBVIOUS
    <3>. QED
      BY <1>8, <2>4
  <2>6. first(s) \in s /\ less \in SUBSET Shards
    BY <1>4, <2>5
  <2>7. iter[s] = slice(first(s)) + iter[less] /\ sum[s] = slice(first(s)) + sum[less]
    BY <1>5, <1>8, <2>5
  <2>8. iter[less] # sum[less]
    BY <2>4, <2>7
  <2>9. Cardinality(less) = n - 1 /\ n - 1 \in Nat
    <3>1. IsFiniteSet(s)
      BY <1>2, FS_Subset
    <3>2. IsFiniteSet(less) /\ Cardinality(less) = Cardinality(s) - 1 /\ Cardinality(less) \in Nat
      BY <2>6, <3>1, FS_RemoveElement, FS_CardinalityType
    <3>. QED
      BY <2>4, <3>2
  <2>10. n - 1 \in Bad
    BY <2>6, <2>8, <2>9 DEF Bad
  <2>. QED
    BY <2>2, <2>3, <2>10
<1>10. iter[Shards] = sum[Shards]
  <2>1. Shards \in SUBSET Shards /\ Cardinality(Shards) \in Nat
    BY <1>2, FS_CardinalityType
  <2>. HIDE DEF sum
  <2>. QED
    BY <1>9, <2>1
<1>11. sum[Shards] = val
  BY <1>2
<1>. QED
  BY <1>1, <1>10, <1>11 DEF val, W

\* The logits as the ranks of r's stage hold them, each its shard.
Whole(r) == [t \in Token |-> Logit(r, t \div Width, t)]

LEMMA TokenBound ==
  /\ Vocab - 1 \in Token /\ 0 \in Token /\ Token \subseteq Nat /\ \A t \in Token : t <= Vocab - 1
BY ParamAssumption DEF Token

\* However they are combined, the first maximum is taken over all of them.
LEMMA CombinedIsWhole ==
  ASSUME cfg \in Configs, Sharded, NEW r,
         \A w \in Shards : \A t \in Token : Logit(r, w, t) \in Int
  PROVE  /\ FromLogits(r) = FirstMax(Whole(r))
         /\ FromPairs(r) = FirstMax(Whole(r))
         /\ FirstMax(Whole(r)) \in Token
<1>. DEFINE h == Whole(r)
            m == FirstMax(h)
            W == m \div Width
            win(w) == FirstMax([t \in Shard(w) |-> Logit(r, w, t)])
            val(w) == Logit(r, w, win(w))
            wins(w) == \A x \in Shards : val(w) > val(x) \/ (val(w) = val(x) /\ win(w) <= win(x))
<1>1. /\ \A t \in Token : /\ t \div Width \in Shards
                          /\ \A w \in Shards : t \in Shard(w) <=> w = t \div Width
      /\ \A w \in Shards : Shard(w) \subseteq Token /\ w * Width \in Shard(w)
  BY ShardPlaces
<1>2. h \in [Token -> Int] /\ \A t \in Token : h[t] = Logit(r, t \div Width, t)
  BY <1>1 DEF Whole
<1>3. m \in Token /\ \A u \in Token : NotBefore(h, m, u)
  <2>. HIDE DEF h
  <2>. QED
    BY <1>2, TokenBound, FirstMaxIs
<1>4. FromLogits(r) = m
  <2>1. \A t \in Token :
          MapThenSumSet(LAMBDA w : IF t \in Shard(w) THEN Logit(r, w, t) ELSE 0, Shards)
            = Logit(r, t \div Width, t)
    BY <1>1, SumOfSlices
  <2>2. [t \in Token |-> MapThenSumSet(LAMBDA w : IF t \in Shard(w) THEN Logit(r, w, t) ELSE 0, Shards)] = h
    BY <2>1, Zenon DEF Whole
  <2>. QED
    BY <2>2, Zenon DEF FromLogits
<1>5. ASSUME NEW w \in Shards
      PROVE  /\ win(w) \in Token /\ val(w) = h[win(w)] /\ val(w) \in Int
             /\ m \in Shard(w) => win(w) = m
  <2>. DEFINE g == [t \in Shard(w) |-> Logit(r, w, t)]
  <2>1. Shard(w) \in SUBSET Nat /\ Shard(w) \subseteq Token /\ w * Width \in Shard(w)
    BY <1>1, TokenBound
  <2>2. \E b \in Shard(w) : \A t \in Shard(w) : t <= b
    <3>1. Shard(w) \in SUBSET (0 .. Vocab - 1) /\ Vocab - 1 \in Nat
      BY <2>1, ParamAssumption DEF Token
    <3>2. PICK b \in Shard(w) : \A t \in Shard(w) : b >= t
      BY <2>1, <3>1, Greatest
    <3>. QED
      BY <2>1, <3>2
  <2>3. g \in [Shard(w) -> Int] /\ \A t \in Shard(w) : g[t] = h[t] /\ g[t] = Logit(r, w, t)
    BY <1>1, <1>2, <2>1
  <2>4. win(w) = FirstMax(g)
    OBVIOUS
  <2>. HIDE DEF g, h, m, win
  <2>5. /\ FirstMax(g) \in Shard(w)
        /\ \A t \in Shard(w) : (\A u \in Shard(w) : NotBefore(g, t, u)) => t = FirstMax(g)
    BY <2>1, <2>2, <2>3, FirstMaxIs
  <2>6. m \in Shard(w) => win(w) = m
    BY <1>3, <2>1, <2>3, <2>4, <2>5 DEF NotBefore
  <2>. QED
    BY <1>2, <2>1, <2>3, <2>4, <2>5, <2>6
<1>6. W \in Shards /\ m \in Shard(W) /\ win(W) = m /\ val(W) = h[m]
  BY <1>1, <1>3, <1>5
<1>. HIDE DEF h, m, W, win, val
<1>7. wins(W)
  <2>1. ASSUME NEW x \in Shards
        PROVE  val(W) > val(x) \/ (val(W) = val(x) /\ win(W) <= win(x))
    <3>1. NotBefore(h, m, win(x))
      BY <1>3, <1>5
    <3>. QED
      BY <1>5, <1>6, <3>1 DEF NotBefore
  <2>. QED
    BY <2>1
<1>8. ASSUME NEW w \in Shards, wins(w)
      PROVE  win(w) = m
  <2>1. val(w) > val(W) \/ (val(w) = val(W) /\ win(w) <= win(W))
    BY <1>6, <1>8
  <2>2. val(W) > val(w) \/ (val(w) = val(W) /\ win(W) <= win(w))
    BY <1>7
  <2>3. val(w) \in Int /\ val(W) \in Int /\ win(w) \in Nat /\ win(W) \in Nat
    BY <1>5, <1>6, TokenBound
  <2>4. win(w) = win(W)
    BY <2>1, <2>2, <2>3
  <2>. QED
    BY <1>6, <2>4
<1>9. FromPairs(r) = win(CHOOSE w \in Shards : wins(w))
  BY Zenon DEF FromPairs, win, val
<1>10. FromPairs(r) = m
  <2>. HIDE DEF wins
  <2>1. (CHOOSE w \in Shards : wins(w)) \in Shards /\ wins(CHOOSE w \in Shards : wins(w))
    BY <1>6, <1>7, Zenon
  <2>. QED
    BY <1>8, <1>9, <2>1
<1>. QED
  BY <1>3, <1>4, <1>10 DEF m, h

-----------------------------------------------------------------------------
(* The stream of a rank and the places of its calls *)

\* Calls of a pass: two for a layer, one for a divided head, one for the broadcast.
HeadCalls(r) == IF Last(r) /\ Sharded THEN 1 ELSE 0
PassCalls(r) == 2 * Count(r) + HeadCalls(r) + (IF cfg.mode = "given" THEN 0 ELSE 1)

\* Calls made in the pass a rank is in.
InPass(r) ==
  CASE pc[r] \in {"load", "dead", "begin", "recv", "recvmask", "end"} -> 0
    [] pc[r] = "layer" -> 2 * layer[r]
    [] pc[r] = "mlp" -> 2 * layer[r] + 1
    [] pc[r] = "add" -> 2 * layer[r] + 2
    [] pc[r] \in {"send", "sendmask", "head"} -> 2 * Count(r)
    [] pc[r] = "combine" -> 2 * Count(r) + 1
    [] pc[r] = "sample" -> 2 * Count(r) + HeadCalls(r)
    [] pc[r] = "bcast" -> PassCalls(r)

\* Passes behind a rank that is in one.
Passed(r) == Len(toks[r]) - PromptLen

\* What is known of a rank besides its types.
BoundsAt(r) ==
  /\ Len(toks[r]) >= PromptLen
  /\ pc[r] # "end" => Len(toks[r]) <= Len(Tokens)
  /\ Len(hid[r].toks) <= Len(Tokens)
  /\ \A i \in 1 .. Len(calls[r]) : Len(calls[r][i]) <= Len(Tokens)
  /\ IF pc[r] \in {"load", "dead"} THEN Len(toks[r]) = PromptLen ELSE Count(r) >= 0
  /\ pc[r] \in {"recv", "recvmask"} => layer[r] = 0
  /\ pc[r] \in {"mlp", "add"} => layer[r] < Count(r)
  /\ pc[r] \in {"head", "combine"} => Last(r)
  /\ pc[r] = "combine" => Sharded
  /\ pc[r] = "bcast" => cfg.mode # "given"

\* A rank's calls are numbered alike on every rank of its stage.
PlacedAt(r) == pc[r] # "end" => Len(calls[r]) = Passed(r) * PassCalls(r) + InPass(r)

\* The last call of a pass that generates is for one token.
SampledAt(r) ==
  cfg.mode # "given" =>
    \A k \in 1 .. Len(calls[r]) : k * PassCalls(r) <= Len(calls[r]) => Len(calls[r][k * PassCalls(r)]) = 1

\* A rank's tokens are those given, or what the root of its stage gave to the broadcasts.
StreamAt(r) ==
  /\ \A i \in 1 .. PromptLen : toks[r][i] = Tokens[i]
  /\ cfg.mode = "given" => \A i \in 1 .. Len(toks[r]) : i <= Len(Tokens) /\ toks[r][i] = Tokens[i]
  /\ cfg.mode # "given" =>
       \A k \in 1 .. Len(toks[r]) - PromptLen :
         /\ k * PassCalls(r) <= Len(calls[Root(r)])
         /\ toks[r][PromptLen + k] = Head(calls[Root(r)][k * PassCalls(r)])

At(r) == BoundsAt(r) /\ PlacedAt(r) /\ SampledAt(r) /\ StreamAt(r)

Streams == TypeOK /\ \A r \in Rank : At(r)

\* Launches do not change.
LEMMA Static ==
  ASSUME cfg' = cfg
  PROVE  /\ Rank' = Rank /\ (Sharded' <=> Sharded) /\ (Complete' <=> Complete)
         /\ (OneStream' <=> OneStream) /\ Per' = Per
         /\ \A r : /\ StageOf(r)' = StageOf(r) /\ Root(r)' = Root(r) /\ Stage(r)' = Stage(r)
                   /\ Count(r)' = Count(r) /\ NextRank(r)' = NextRank(r)
                   /\ (Last(r)' <=> Last(r)) /\ (First(r)' <=> First(r))
                   /\ HeadCalls(r)' = HeadCalls(r) /\ PassCalls(r)' = PassCalls(r)
                   /\ Begin(StageOf(r))' = Begin(StageOf(r))
BY DEF Rank, Sharded, Complete, OneStream, Per, StageOf, Root, Stage, Count, NextRank, Last, First,
       HeadCalls, PassCalls, Begin, End

LEMMA Sizes ==
  /\ Len(Tokens) \in Nat /\ PromptLen \in 1 .. Len(Tokens) /\ Tokens \in Seq(Token)
  /\ 0 \in Token /\ PromptLen \in Nat /\ PromptLen <= Len(Tokens)
  /\ Len(SubSeq(Tokens, 1, PromptLen)) = PromptLen
  /\ SubSeq(Tokens, 1, PromptLen) \in Seq(Token)
  /\ \A i \in 1 .. PromptLen : SubSeq(Tokens, 1, PromptLen)[i] = Tokens[i]
<1>1. Len(Tokens) \in Nat /\ PromptLen \in 1 .. Len(Tokens) /\ Tokens \in Seq(Token)
  BY ParamAssumption, LenProperties
<1>2. PromptLen \in 0 .. Len(Tokens)
  BY <1>1
<1>. QED
  BY <1>1, <1>2, PrefixType, TokenBound

LEMMA RankTypes ==
  ASSUME TypeOK, NEW r \in Rank
  PROVE  /\ toks[r] \in Seq(Token) /\ Len(toks[r]) \in Nat
         /\ calls[r] \in Seq(Seq(Token)) /\ Len(calls[r]) \in Nat
         /\ \A i \in 1 .. Len(calls[r]) : calls[r][i] \in Seq(Token) /\ Len(calls[r][i]) \in Nat
         /\ hid[r] \in [toks : Seq(Token), done : Seq(-3 .. cfg.layers - 1)]
         /\ hid[r].toks \in Seq(Token) /\ Len(hid[r].toks) \in Nat
         /\ Count(r) \in Int /\ Begin(StageOf(r)) \in Nat /\ HeadCalls(r) \in {0, 1}
         /\ PassCalls(r) \in Int /\ layer[r] \in Nat /\ rows[r] \in 0 .. Len(Tokens) /\ pick[r] \in Token
         /\ Count(r) >= 0 => layer[r] <= Count(r)
<1>1. cfg \in Configs
  BY DEF TypeOK
<1>2. /\ toks[r] \in Seq(Token) /\ calls[r] \in Seq(Seq(Token))
      /\ hid[r] \in [toks : Seq(Token), done : Seq(-3 .. cfg.layers - 1)]
      /\ rows[r] \in 0 .. Len(Tokens) /\ pick[r] \in Token
      /\ layer[r] \in Nat /\ layer[r] <= Max({0, Count(r)})
  BY DEF TypeOK
<1>3. Count(r) \in Int /\ Begin(StageOf(r)) \in Nat
  BY <1>1, SplitFacts
<1>4. layer[r] \in Nat /\ (Count(r) >= 0 => layer[r] <= Count(r))
  <2>1. Max({0, Count(r)}) = IF Count(r) >= 0 THEN Count(r) ELSE 0
    BY <1>3, MaxWithZero
  <2>. QED
    BY <1>2, <1>3, <2>1
<1>5. HeadCalls(r) \in {0, 1} /\ PassCalls(r) \in Int
  BY <1>3 DEF HeadCalls, PassCalls
<1>6. Len(toks[r]) \in Nat /\ Len(calls[r]) \in Nat
  BY <1>2, LenProperties
<1>7. \A i \in 1 .. Len(calls[r]) : calls[r][i] \in Seq(Token)
  BY <1>2, ElementOfSeq
<1>. QED
  BY <1>2, <1>3, <1>4, <1>5, <1>6, <1>7, LenProperties

\* What rank q has and a step of another leaves alone.
Same(q) ==
  /\ pc'[q] = pc[q] /\ toks'[q] = toks[q] /\ layer'[q] = layer[q] /\ hid'[q] = hid[q]
  /\ calls'[q] = calls[q]

\* Calls are only added to.
Grows(q) ==
  /\ Len(calls[q]) <= Len(calls'[q])
  /\ \A i \in 1 .. Len(calls[q]) : calls'[q][i] = calls[q][i]

LEMMA StreamStays ==
  ASSUME Streams, cfg' = cfg, NEW r \in Rank, toks'[r] = toks[r], Grows(Root(r)), TypeOK'
  PROVE  StreamAt(r)'
<1>1. Rank' = Rank /\ Root(r)' = Root(r) /\ PassCalls(r)' = PassCalls(r)
  BY Static
<1>2. StreamAt(r) /\ BoundsAt(r) /\ cfg \in Configs
  BY DEF Streams, At, TypeOK
<1>3. Root(r) \in Rank
  BY <1>2, StageMates
<1>4. /\ Len(toks[r]) \in Nat /\ PromptLen \in Nat /\ Len(calls[Root(r)]) \in Nat
      /\ Len(calls[Root(r)]') \in Nat
  BY <1>1, <1>3, RankTypes, Sizes, LenProperties DEF Streams, TypeOK
<1>5. ASSUME cfg.mode # "given", NEW k \in 1 .. Len(toks[r]) - PromptLen
      PROVE  /\ k * PassCalls(r) <= Len(calls'[Root(r)])
             /\ toks'[r][PromptLen + k] = Head(calls'[Root(r)][k * PassCalls(r)])
  <2>1. /\ k * PassCalls(r) <= Len(calls[Root(r)])
        /\ toks[r][PromptLen + k] = Head(calls[Root(r)][k * PassCalls(r)])
    BY <1>2, <1>5 DEF StreamAt
  <2>2. k * PassCalls(r) \in 1 .. Len(calls[Root(r)])
    <3>1. PassCalls(r) \in Int /\ Count(r) \in Int /\ HeadCalls(r) \in {0, 1} /\ k \in Nat \ {0}
      BY <1>4, RankTypes DEF Streams
    <3>2. PassCalls(r) >= 1 \/ Count(r) < 0
      BY <1>5, <3>1 DEF PassCalls
    <3>3. Count(r) >= 0
      BY <1>2, <1>4, <1>5 DEF BoundsAt
    <3>. QED
      BY <1>4, <2>1, <3>1, <3>2, <3>3
  <2>3. calls'[Root(r)][k * PassCalls(r)] = calls[Root(r)][k * PassCalls(r)]
    BY <2>2 DEF Grows
  <2>. QED
    BY <1>4, <2>1, <2>2, <2>3 DEF Grows
<1>. QED
  BY <1>1, <1>2, <1>5 DEF StreamAt

LEMMA OtherStays ==
  ASSUME Streams, cfg' = cfg, TypeOK', NEW q \in Rank, Same(q), Grows(Root(q))
  PROVE  At(q)'
<1>1. At(q)
  BY DEF Streams
<1>2. /\ Rank' = Rank /\ Root(q)' = Root(q) /\ PassCalls(q)' = PassCalls(q) /\ Count(q)' = Count(q)
      /\ HeadCalls(q)' = HeadCalls(q) /\ (Last(q)' <=> Last(q)) /\ (Sharded' <=> Sharded)
  BY Static
<1>3. StreamAt(q)'
  BY StreamStays DEF Same
<1>4. BoundsAt(q)'
  BY <1>1, <1>2 DEF At, BoundsAt, Same
<1>5. PlacedAt(q)'
  <2>1. InPass(q)' = InPass(q) /\ Passed(q)' = Passed(q)
    BY <1>2 DEF InPass, Passed, Same
  <2>. QED
    BY <1>1, <1>2, <2>1 DEF At, PlacedAt, Same
<1>6. SampledAt(q)'
  BY <1>1, <1>2 DEF At, SampledAt, Same
<1>. QED
  BY <1>3, <1>4, <1>5, <1>6 DEF At

\* A step of one rank preserves what is known of all.
LEMMA OneRankSteps ==
  ASSUME Streams, cfg' = cfg, TypeOK', NEW r \in Rank,
         \A q \in Rank \ {r} : Same(q), Grows(r),
         BoundsAt(r)', PlacedAt(r)', SampledAt(r)', toks'[r] = toks[r] \/ StreamAt(r)'
  PROVE  Streams'
<1>1. \A q \in Rank : Grows(q)
  <2>1. \A q \in Rank \ {r} : Grows(q)
    BY RankTypes DEF Same, Grows, Streams
  <2>. QED
    BY <2>1
<1>2. \A q \in Rank : Root(q) \in Rank
  BY StageMates DEF Streams, TypeOK
<1>3. ASSUME NEW q \in Rank
      PROVE  At(q)'
  <2>1. CASE q = r
    <3>1. StreamAt(r)'
      BY <1>1, <1>2, StreamStays
    <3>. QED
      BY <2>1, <3>1 DEF At
  <2>2. CASE q # r
    BY <1>1, <1>2, <2>2, OtherStays
  <2>. QED
    BY <2>1, <2>2
<1>4. Rank' = Rank
  BY Static
<1>. QED
  BY <1>3, <1>4 DEF Streams

LEMMA Quiet ==
  ASSUME TypeOK, NEW r \in Rank, calls'[r] = calls[r]
  PROVE  Grows(r)
BY RankTypes DEF Grows

LEMMA Entered ==
  ASSUME TypeOK, cfg' = cfg, NEW r \in Rank, NEW what \in Seq(Token), Enter(r, what)
  PROVE  /\ calls' \in [Rank -> Seq(Seq(Token))] /\ Grows(r)
         /\ calls'[r] \in Seq(Seq(Token)) /\ Len(calls'[r]) = Len(calls[r]) + 1
         /\ calls'[r][Len(calls[r]) + 1] = what
         /\ \A q \in Rank \ {r} : calls'[q] = calls[q]
<1>1. calls \in [Rank -> Seq(Seq(Token))] /\ calls[r] \in Seq(Seq(Token)) /\ Len(calls[r]) \in Nat
  BY RankTypes DEF TypeOK
<1>2. /\ calls' = [calls EXCEPT ![r] = Append(calls[r], what)]
      /\ calls'[r] = Append(calls[r], what)
      /\ \A q \in Rank \ {r} : calls'[q] = calls[q]
  BY <1>1 DEF Enter
<1>3. /\ Append(calls[r], what) \in Seq(Seq(Token))
      /\ Len(Append(calls[r], what)) = Len(calls[r]) + 1
      /\ \A i \in 1 .. Len(calls[r]) : Append(calls[r], what)[i] = calls[r][i]
      /\ Append(calls[r], what)[Len(calls[r]) + 1] = what
  BY <1>1, AppendProperties
<1>4. calls' \in [Rank -> Seq(Seq(Token))]
  BY <1>1, <1>2, <1>3
<1>. QED
  BY <1>1, <1>2, <1>3, <1>4 DEF Grows

\* What a call adds is short, and alone at the last place of a pass.
LEMMA EnteredAt ==
  ASSUME Streams, cfg' = cfg, NEW r \in Rank, NEW what \in Seq(Token), Enter(r, what),
         Len(what) <= Len(Tokens), Count(r) >= 0,
         \/ cfg.mode = "given"
         \/ Len(what) = 1
         \/ \E a \in Nat : \E x \in 1 .. PassCalls(r) - 1 : Len(calls[r]) + 1 = a * PassCalls(r) + x
  PROVE  /\ SampledAt(r)'
         /\ \A i \in 1 .. Len(calls'[r]) : Len(calls'[r][i]) <= Len(Tokens)
<1>. DEFINE n == Len(calls[r])
<1>1. /\ TypeOK /\ BoundsAt(r) /\ SampledAt(r) /\ n \in Nat /\ PassCalls(r) \in Int
      /\ PassCalls(r)' = PassCalls(r)
  BY RankTypes, Static DEF Streams, At
<1>2. /\ Len(calls'[r]) = n + 1 /\ calls'[r][n + 1] = what
      /\ \A i \in 1 .. n : calls'[r][i] = calls[r][i]
  BY <1>1, Entered DEF Grows
<1>3. \A i \in 1 .. n + 1 : i \in 1 .. n \/ i = n + 1
  BY <1>1
<1>4. \A i \in 1 .. Len(calls'[r]) : Len(calls'[r][i]) <= Len(Tokens)
  BY <1>1, <1>2, <1>3 DEF BoundsAt
<1>5. ASSUME cfg.mode # "given", NEW k \in 1 .. n + 1, k * PassCalls(r) <= n + 1
      PROVE  Len(calls'[r][k * PassCalls(r)]) = 1
  <2>. DEFINE p == k * PassCalls(r)
  <2>0. PassCalls(r) >= 1 /\ p >= k
    <3>1. Count(r) \in Int /\ HeadCalls(r) \in {0, 1}
      BY <1>1, RankTypes
    <3>2. PassCalls(r) = 2 * Count(r) + HeadCalls(r) + 1
      BY <1>5 DEF PassCalls
    <3>3. PassCalls(r) >= 1
      BY <3>1, <3>2
    <3>4. PICK c \in Nat, m \in Nat : c = PassCalls(r) /\ m = k /\ 1 <= c
      BY <1>1, <3>3
    <3>5. 1 * m <= c * m
      BY <3>4, TimesMonotone
    <3>6. m <= m * c
      BY <3>4, <3>5
    <3>. QED
      BY <3>3, <3>4, <3>6
  <2>1. CASE p = n + 1 /\ Len(what) # 1
    <3>1. PICK a \in Nat, x \in 1 .. PassCalls(r) - 1 : n + 1 = a * PassCalls(r) + x
      BY <1>5, <2>1
    <3>2. PassCalls(r) \in Nat
      BY <1>1, <3>1
    <3>3. k \in Nat
      BY <1>1
    <3>4. a * PassCalls(r) + x # k * PassCalls(r)
      BY <3>1, <3>2, <3>3, InsidePass
    <3>. QED
      BY <2>1, <3>1, <3>4
  <2>2. CASE p = n + 1 /\ Len(what) = 1
    BY <1>2, <2>2
  <2>3. CASE p # n + 1 /\ p > 0
    <3>0. p \in Int /\ k \in Nat \ {0} /\ p <= n + 1 /\ p # n + 1 /\ p >= k /\ n \in Nat
      BY <1>1, <1>5, <2>0, <2>3
    <3>1. p \in 1 .. n /\ k \in 1 .. n
      <4>. HIDE DEF p, n
      <4>. QED
        BY <3>0
    <3>2. Len(calls[r][p]) = 1
      BY <1>1, <1>5, <3>1 DEF SampledAt
    <3>. HIDE DEF p
    <3>3. Len(calls'[r][p]) = 1
      BY <1>2, <3>1, <3>2
    <3>. QED
      BY <3>3 DEF p
  <2>4. p > 0
    BY <1>1, <2>0
  <2>. QED
    BY <1>1, <2>1, <2>2, <2>3, <2>4
<1>6. SampledAt(r)'
  BY <1>1, <1>2, <1>5 DEF SampledAt
<1>. QED
  BY <1>4, <1>6

-----------------------------------------------------------------------------
(* Every action preserves Streams *)

LEMMA SliceFacts ==
  ASSUME cfg \in Configs, NEW r \in Rank
  PROVE  /\ Slice \in Nat /\ From(r) \in Nat /\ From(r) = TpRank(r) * Slice /\ TpRank(r) \in Nat
         /\ \A i \in Nat : Group(i) \in Nat
         /\ \A j \in Nat : Scale(r, j) \in Nat /\ Element(r, j) \in Nat
<1>1. cfg.tp \in Nat \ {0} /\ cfg.inter \in Nat /\ cfg.unit \in Nat \ {0}
  BY ConfigFacts
<1>2. Slice \in Nat /\ TpRank(r) \in Nat
  BY <1>1, Divided, RankPlace DEF Slice
<1>3. From(r) \in Nat /\ From(r) = TpRank(r) * Slice
  BY <1>2 DEF From
<1>4. \A i \in Nat : Group(i) \in Nat
  BY <1>1, Divided DEF Group
<1>5. ASSUME NEW j \in Nat
      PROVE  Scale(r, j) \in Nat /\ Element(r, j) \in Nat
  <2>1. Scale(r, j) \in Nat
    BY <1>3, <1>4 DEF Scale
  <2>2. j % cfg.unit \in Nat /\ Scale(r, j) * cfg.unit \in Nat
    <3>1. PICK a \in Nat, u \in Nat \ {0} : a = Scale(r, j) /\ u = cfg.unit
      BY <1>1, <2>1
    <3>2. j % u \in 0 .. u - 1
      BY <3>1, Divided
    <3>3. j % u \in Nat /\ a * u \in Nat
      BY <3>1, <3>2
    <3>. QED
      BY <3>1, <3>3
  <2>. QED
    BY <1>3, <2>1, <2>2 DEF Element
<1>. QED
  BY <1>2, <1>3, <1>4, <1>5

LEMMA PartType ==
  ASSUME cfg \in Configs, NEW r \in Rank
  PROVE  /\ ShardLayer(r) \in [rows : Seq([up : Nat, down : Nat, scale : Nat]), bias : BOOLEAN]
         /\ NoPart \in [rows : Seq([up : Nat, down : Nat, scale : Nat]), bias : BOOLEAN]
<1>. DEFINE R == [up : Nat, down : Nat, scale : Nat]
            row(j) == [up |-> From(r) + j - 1, down |-> Element(r, j - 1), scale |-> Scale(r, j - 1)]
<1>1. Slice \in Nat
  BY SliceFacts
<1>2. ASSUME NEW j \in 1 .. Slice
      PROVE  row(j) \in R
  <2>1. j - 1 \in Nat /\ From(r) \in Nat /\ From(r) + j - 1 \in Nat
    BY <1>1, SliceFacts
  <2>. QED
    BY <2>1, SliceFacts
<1>. HIDE DEF row, R
<1>3. [j \in 1 .. Slice |-> row(j)] \in Seq(R)
  BY <1>1, <1>2, IsASeq
<1>4. ShardLayer(r) = [rows |-> [j \in 1 .. Slice |-> row(j)], bias |-> TpRank(r) = 0]
  BY DEF ShardLayer, row
<1>5. <<>> \in Seq(R)
  BY EmptySeq
<1>. QED
  BY <1>3, <1>4, <1>5 DEF NoPart, R

LEMMA StreamsInit == Init => Streams
<1>. SUFFICES ASSUME Init PROVE Streams
  OBVIOUS
<1>0. cfg \in Configs
  BY DEF Init
<1>1. TypeOK
  <2>1. ASSUME NEW r \in Rank PROVE 0 <= Max({0, Count(r)})
    <3>1. Count(r) \in Int
      BY <1>0, SplitFacts
    <3>. QED
      BY <3>1, MaxWithZero
  <2>2. <<>> \in Seq(Token) /\ <<>> \in Seq(Seq(Token)) /\ <<>> \in Seq(-3 .. cfg.layers - 1)
    BY EmptySeq
  <2>3. NoPart \in [rows : Seq([up : Nat, down : Nat, scale : Nat]), bias : BOOLEAN]
    <3>1. <<>> \in Seq([up : Nat, down : Nat, scale : Nat])
      BY EmptySeq
    <3>. QED
      BY <3>1 DEF NoPart
  <2>4. NoHidden \in [toks : Seq(Token), done : Seq(-3 .. cfg.layers - 1)]
    BY <2>2 DEF NoHidden
  <2>5. 0 \in 0 .. Len(Tokens)
    BY Sizes
  <2>. QED
    BY <2>1, <2>2, <2>3, <2>4, <2>5, Sizes DEF Init, TypeOK
<1>2. ASSUME NEW r \in Rank PROVE At(r)
  <2>1. /\ pc[r] = "load" /\ toks[r] = SubSeq(Tokens, 1, PromptLen) /\ hid[r] = NoHidden
        /\ calls[r] = <<>>
    BY DEF Init
  <2>2. Len(toks[r]) = PromptLen /\ Len(hid[r].toks) = 0 /\ Len(calls[r]) = 0
    BY <2>1, Sizes, EmptySeq DEF NoHidden
  <2>3. BoundsAt(r)
    BY <2>1, <2>2, Sizes DEF BoundsAt
  <2>4. PlacedAt(r)
    <3>1. Passed(r) = 0 /\ InPass(r) = 0
      BY <2>1, <2>2, Sizes DEF Passed, InPass
    <3>. QED
      BY <1>1, <2>2, <3>1, RankTypes DEF PlacedAt
  <2>5. SampledAt(r)
    BY <2>2 DEF SampledAt
  <2>6. StreamAt(r)
    BY <2>1, <2>2, Sizes DEF StreamAt
  <2>. QED
    BY <2>3, <2>4, <2>5, <2>6 DEF At
<1>. QED
  BY <1>1, <1>2 DEF Streams

LEMMA Updated ==
  ASSUME NEW D, NEW S, NEW f \in [D -> S], NEW d \in D, NEW v \in S
  PROVE  /\ [f EXCEPT ![d] = v] \in [D -> S]
         /\ [f EXCEPT ![d] = v][d] = v
         /\ \A e \in D \ {d} : [f EXCEPT ![d] = v][e] = f[e]
OBVIOUS

LEMMA LayerStays ==
  ASSUME TypeOK, cfg' = cfg, layer' = layer
  PROVE  layer' \in [Rank -> Nat] /\ \A q \in Rank : layer'[q] <= Max({0, Count(q)'})
BY Static DEF TypeOK

\* The place in its order of calls a rank that is in a pass has reached.
LEMMA Place ==
  ASSUME Streams, NEW r \in Rank, pc[r] # "end", pc[r] \notin {"load", "dead"}
  PROVE  /\ BoundsAt(r) /\ Passed(r) \in Nat /\ PassCalls(r) \in Nat /\ InPass(r) \in Nat
         /\ Count(r) \in Nat /\ layer[r] \in 0 .. Count(r)
         /\ Passed(r) * PassCalls(r) \in Nat
         /\ Len(calls[r]) = Passed(r) * PassCalls(r) + InPass(r)
         /\ PassCalls(r) = 2 * Count(r) + HeadCalls(r) + (IF cfg.mode = "given" THEN 0 ELSE 1)
         /\ HeadCalls(r) \in {0, 1}
<1>1. TypeOK /\ BoundsAt(r) /\ PlacedAt(r)
  BY DEF Streams, At
<1>2. /\ Count(r) \in Nat /\ layer[r] \in 0 .. Count(r) /\ HeadCalls(r) \in {0, 1}
  BY <1>1, RankTypes DEF BoundsAt
<1>3. PassCalls(r) \in Nat
  BY <1>2 DEF PassCalls
<1>4. Passed(r) \in Nat
  BY <1>1, RankTypes, Sizes DEF Passed, BoundsAt
<1>5. InPass(r) \in Nat
  <2>1. pc[r] \in {"begin", "recv", "recvmask", "layer", "mlp", "add",
                   "send", "sendmask", "head", "combine", "sample", "bcast"}
    BY <1>1 DEF TypeOK
  <2>. QED
    BY <1>2, <1>3, <2>1 DEF InPass
<1>6. Passed(r) * PassCalls(r) \in Nat
  BY <1>3, <1>4
<1>. QED
  BY <1>1, <1>2, <1>3, <1>4, <1>5, <1>6 DEF PlacedAt, PassCalls

LEMMA ScoreInt ==
  ASSUME NEW s \in Seq(Token), Len(s) <= Len(Tokens)
  PROVE  /\ \A t \in Token : Score(s, t) \in Int
         /\ FirstMax([t \in Token |-> Score(s, t)]) \in Token
<1>1. Len(s) \in 0 .. Len(Tokens) /\ s \in [1 .. Len(s) -> Token]
  BY Sizes, LenProperties
<1>2. \A t \in Token : Score(s, t) \in Int
  BY <1>1, ScoreAssumption
<1>. DEFINE v == [t \in Token |-> Score(s, t)]
<1>3. v \in [Token -> Int]
  BY <1>2
<1>. HIDE DEF v
<1>4. FirstMax(v) \in Token
  BY <1>3, TokenBound, FirstMaxIs
<1>. QED
  BY <1>2, <1>4 DEF v

\* A rank goes from one state to another.
LEMMA Goes ==
  ASSUME TypeOK, NEW r \in Rank, NEW there, Goto(r, there),
         there \in {"load", "dead", "begin", "recv", "recvmask", "layer", "mlp", "add",
                   "send", "sendmask", "head", "combine", "sample", "bcast", "end"}
  PROVE  /\ pc' \in [Rank -> {"load", "dead", "begin", "recv", "recvmask", "layer", "mlp", "add",
                              "send", "sendmask", "head", "combine", "sample", "bcast", "end"}]
         /\ pc'[r] = there /\ \A q \in Rank \ {r} : pc'[q] = pc[q]
BY DEF Goto, TypeOK

LEMMA LoadStreams ==
  ASSUME Streams, NEW r \in Rank, Load(r)
  PROVE  Streams'
<1>1. /\ TypeOK /\ cfg' = cfg /\ At(r) /\ pc[r] = "load" /\ Rank' = Rank
      /\ UNCHANGED <<cfg, toks, rows, layer, hid, mask, have, calls, pick>>
  BY Static DEF Streams, Load
<1>2. /\ pc' \in [Rank -> {"load", "dead", "begin", "recv", "recvmask", "layer", "mlp", "add",
                          "send", "sendmask", "head", "combine", "sample", "bcast", "end"}]
      /\ pc'[r] = "dead" \/ (pc'[r] = "begin" /\ Count(r) >= 0)
      /\ \A q \in Rank \ {r} : pc'[q] = pc[q]
  <2>1. Goto(r, "dead") \/ (Goto(r, "begin") /\ ~(Count(r) < 0))
    BY DEF Load
  <2>2. ~(Count(r) < 0) => Count(r) >= 0
    BY <1>1, RankTypes
  <2>. QED
    BY <1>1, <2>1, <2>2, Goes
<1>3. TypeOK'
  <2>1. part' \in [Rank -> [rows : Seq([up : Nat, down : Nat, scale : Nat]), bias : BOOLEAN]]
    <3>1. \/ part' = part
          \/ part' = [part EXCEPT ![r] = IF Count(r) > 0 THEN ShardLayer(r) ELSE NoPart]
      BY DEF Load
    <3>2. cfg \in Configs
      BY <1>1 DEF TypeOK
    <3>3. \A R : part \in [Rank -> R] /\ ShardLayer(r) \in R /\ NoPart \in R => part' \in [Rank -> R]
      BY <3>1
    <3>4. /\ ShardLayer(r) \in [rows : Seq([up : Nat, down : Nat, scale : Nat]), bias : BOOLEAN]
          /\ NoPart \in [rows : Seq([up : Nat, down : Nat, scale : Nat]), bias : BOOLEAN]
      BY <3>2, PartType
    <3>5. part \in [Rank -> [rows : Seq([up : Nat, down : Nat, scale : Nat]), bias : BOOLEAN]]
      BY <1>1 DEF TypeOK
    <3>. QED
      BY <3>3, <3>4, <3>5, Zenon
  <2>2. layer' \in [Rank -> Nat] /\ \A q \in Rank : layer'[q] <= Max({0, Count(q)'})
    BY <1>1, LayerStays
  <2>. QED
    BY <1>1, <1>2, <2>1, <2>2 DEF TypeOK
<1>4. Grows(r)
  BY <1>1, Quiet
<1>5. \A q \in Rank \ {r} : Same(q)
  BY <1>1, <1>2 DEF Same
<1>6. BoundsAt(r)'
  BY <1>1, <1>2, Static, Sizes DEF At, BoundsAt
<1>7. PlacedAt(r)'
  BY <1>1, <1>2, Static DEF At, PlacedAt, InPass, Passed
<1>8. SampledAt(r)'
  BY <1>1, Static DEF At, SampledAt
<1>. QED
  BY <1>1, <1>3, <1>4, <1>5, <1>6, <1>7, <1>8, OneRankSteps

LEMMA StartPassStreams ==
  ASSUME Streams, NEW r \in Rank, StartPass(r)
  PROVE  Streams'
<1>. DEFINE there == IF First(r) THEN "layer" ELSE "recv"
            H == [toks : Seq(Token), done : Seq(-3 .. cfg.layers - 1)]
            fresh == [toks |-> toks[r], done |-> <<>>]
<1>1. /\ TypeOK /\ cfg' = cfg /\ At(r) /\ pc[r] = "begin" /\ Rank' = Rank
      /\ UNCHANGED <<cfg, part, toks, rows, mask, calls, pick>>
      /\ layer' = [layer EXCEPT ![r] = 0] /\ have' = [have EXCEPT ![r] = FALSE]
      /\ Goto(r, there)
      /\ hid' = hid \/ hid' = [hid EXCEPT ![r] = fresh]
  BY Static DEF Streams, StartPass
<1>2. /\ pc' \in [Rank -> {"load", "dead", "begin", "recv", "recvmask", "layer", "mlp", "add",
                          "send", "sendmask", "head", "combine", "sample", "bcast", "end"}]
      /\ pc'[r] = there /\ \A q \in Rank \ {r} : pc'[q] = pc[q]
  BY <1>1, Goes
<1>3. hid \in [Rank -> H] /\ fresh \in H /\ Len(toks[r]) <= Len(Tokens) /\ Len(hid[r].toks) <= Len(Tokens)
  BY <1>1, RankTypes, EmptySeq DEF TypeOK, At, BoundsAt
<1>4. /\ hid' \in [Rank -> H] /\ Len(hid'[r].toks) <= Len(Tokens)
      /\ \A q \in Rank \ {r} : hid'[q] = hid[q]
  <2>1. fresh.toks = toks[r]
    OBVIOUS
  <2>. HIDE DEF H, fresh
  <2>. QED
    BY <1>1, <1>3, <2>1
<1>5. layer'[r] = 0 /\ \A q \in Rank \ {r} : layer'[q] = layer[q]
  <2>1. DOMAIN layer = Rank
    BY <1>1 DEF TypeOK
  <2>. QED
    BY <1>1, <2>1
<1>6. TypeOK'
  <2>1. layer' \in [Rank -> Nat] /\ \A q \in Rank : layer'[q] <= Max({0, Count(q)'})
    <3>1. \A q \in Rank : layer[q] <= Max({0, Count(q)}) /\ Max({0, Count(q)})' = Max({0, Count(q)})
      BY <1>1, Static DEF TypeOK
    <3>2. 0 <= Max({0, Count(r)})
      BY <1>1, RankTypes, MaxWithZero
    <3>3. layer' \in [Rank -> Nat]
      BY <1>1 DEF TypeOK
    <3>4. ASSUME NEW q \in Rank PROVE layer'[q] <= Max({0, Count(q)'})
      <4>1. CASE q = r
        BY <1>5, <3>1, <3>2, <4>1
      <4>2. CASE q # r
        BY <1>5, <3>1, <4>2
      <4>. QED
        BY <4>1, <4>2
    <3>. QED
      BY <3>3, <3>4
  <2>2. have' \in [Rank -> BOOLEAN]
    BY <1>1 DEF TypeOK
  <2>. QED
    BY <1>1, <1>2, <1>4, <2>1, <2>2 DEF TypeOK
<1>7. Grows(r)
  BY <1>1, Quiet
<1>8. \A q \in Rank \ {r} : Same(q)
  BY <1>1, <1>2, <1>4, <1>5 DEF Same
<1>9. BoundsAt(r)'
  BY <1>1, <1>2, <1>4, <1>5, Static DEF At, BoundsAt
<1>10. PlacedAt(r)'
  <2>1. InPass(r) = 0 /\ InPass(r)' = 0 /\ Passed(r)' = Passed(r)
    BY <1>1, <1>2, <1>5 DEF InPass, Passed
  <2>. QED
    BY <1>1, <2>1, Static DEF At, PlacedAt
<1>11. SampledAt(r)'
  BY <1>1, Static DEF At, SampledAt
<1>. QED
  BY <1>1, <1>6, <1>7, <1>8, <1>9, <1>10, <1>11, OneRankSteps

LEMMA AttentionStreams ==
  ASSUME Streams, NEW r \in Rank, Attention(r)
  PROVE  Streams'
<1>. DEFINE l == Begin(StageOf(r)) + layer[r]
            selects == Sparse(r) /\ l \in cfg.keys
            H == [toks : Seq(Token), done : Seq(-3 .. cfg.layers - 1)]
            attended == [hid[r] EXCEPT !.done = Append(@, Selection(r, l))]
<1>1. /\ TypeOK /\ cfg' = cfg /\ At(r) /\ pc[r] = "layer" /\ Rank' = Rank /\ layer[r] < Count(r)
      /\ UNCHANGED <<cfg, part, toks, rows, layer, pick>>
      /\ hid' = [hid EXCEPT ![r] = attended]
      /\ mask' = [mask EXCEPT ![r] = IF selects THEN l ELSE @]
      /\ have' = [have EXCEPT ![r] = selects \/ @]
      /\ Enter(r, <<>>) /\ Goto(r, "mlp")
  BY Static DEF Streams, Attention
<1>2. /\ pc' \in [Rank -> {"load", "dead", "begin", "recv", "recvmask", "layer", "mlp", "add",
                          "send", "sendmask", "head", "combine", "sample", "bcast", "end"}]
      /\ pc'[r] = "mlp" /\ \A q \in Rank \ {r} : pc'[q] = pc[q]
  BY <1>1, Goes
<1>3. /\ cfg \in Configs /\ hid \in [Rank -> H] /\ hid[r] \in H
      /\ mask \in [Rank -> {Garbage} \cup 0 .. cfg.layers - 1] /\ have \in [Rank -> BOOLEAN]
      /\ mask[r] \in {Garbage} \cup 0 .. cfg.layers - 1
  BY <1>1 DEF TypeOK
<1>4. cfg.layers \in Nat \ {0} /\ cfg.keys \subseteq 0 .. cfg.layers - 1
  BY <1>3, ConfigFacts
<1>5. Selection(r, l) \in -3 .. cfg.layers - 1
  BY <1>3, <1>4 DEF Selection, Dense, Window, Garbage
<1>6. attended \in H /\ attended.toks = hid[r].toks
  <2>1. Append(hid[r].done, Selection(r, l)) \in Seq(-3 .. cfg.layers - 1)
    BY <1>3, <1>5, AppendProperties
  <2>. QED
    BY <1>3, <2>1
<1>7. /\ hid' \in [Rank -> H] /\ hid'[r].toks = hid[r].toks
      /\ \A q \in Rank \ {r} : hid'[q] = hid[q]
  <2>. HIDE DEF H, attended
  <2>. QED
    BY <1>1, <1>3, <1>6
<1>8. mask' \in [Rank -> {Garbage} \cup 0 .. cfg.layers - 1] /\ have' \in [Rank -> BOOLEAN]
  <2>1. (IF selects THEN l ELSE mask[r]) \in {Garbage} \cup 0 .. cfg.layers - 1
    BY <1>3, <1>4
  <2>2. (selects \/ have[r]) \in BOOLEAN
    OBVIOUS
  <2>3. mask' = [mask EXCEPT ![r] = IF selects THEN l ELSE mask[r]]
    BY <1>1
  <2>. HIDE DEF selects, l
  <2>. QED
    BY <1>1, <1>3, <2>1, <2>2, <2>3
<1>9. <<>> \in Seq(Token) /\ Len(<<>>) = 0
  BY EmptySeq
<1>10. /\ calls' \in [Rank -> Seq(Seq(Token))] /\ Grows(r) /\ Len(calls'[r]) = Len(calls[r]) + 1
       /\ \A q \in Rank \ {r} : calls'[q] = calls[q]
  BY <1>1, <1>9, Entered
<1>11. /\ BoundsAt(r) /\ Passed(r) \in Nat /\ PassCalls(r) \in Nat /\ Count(r) \in Nat
       /\ layer[r] \in 0 .. Count(r) /\ Passed(r) * PassCalls(r) \in Nat
       /\ Len(calls[r]) = Passed(r) * PassCalls(r) + 2 * layer[r]
       /\ PassCalls(r) = 2 * Count(r) + HeadCalls(r) + (IF cfg.mode = "given" THEN 0 ELSE 1)
       /\ HeadCalls(r) \in {0, 1}
  BY <1>1, Place DEF InPass
<1>12. /\ SampledAt(r)'
       /\ \A i \in 1 .. Len(calls'[r]) : Len(calls'[r][i]) <= Len(Tokens)
  <2>1. cfg.mode # "given" => 2 * layer[r] + 1 \in 1 .. PassCalls(r) - 1
    <3>1. cfg.mode # "given" => 2 * Count(r) <= PassCalls(r) - 1
      BY <1>11
    <3>. QED
      BY <1>1, <1>11, <3>1, LayerCall
  <2>2. Len(calls[r]) + 1 = Passed(r) * PassCalls(r) + (2 * layer[r] + 1)
    BY <1>11
  <2>3. Len(<<>>) <= Len(Tokens) /\ Count(r) >= 0
    BY <1>9, <1>11, Sizes
  <2>. QED
    BY <1>1, <1>9, <1>11, <2>1, <2>2, <2>3, EnteredAt
<1>13. TypeOK'
  BY <1>1, <1>2, <1>7, <1>8, <1>10, LayerStays DEF TypeOK
<1>14. \A q \in Rank \ {r} : Same(q)
  BY <1>1, <1>2, <1>7, <1>10 DEF Same
<1>15. BoundsAt(r)'
  BY <1>1, <1>2, <1>7, <1>11, <1>12, Static DEF BoundsAt
<1>16. PlacedAt(r)'
  <2>1. InPass(r)' = 2 * layer[r] + 1 /\ Passed(r)' = Passed(r)
    BY <1>1, <1>2 DEF InPass, Passed
  <2>. QED
    BY <1>1, <1>10, <1>11, <2>1, Static DEF PlacedAt
<1>. QED
  BY <1>1, <1>10, <1>12, <1>13, <1>14, <1>15, <1>16, OneRankSteps

LEMMA MlpStreams ==
  ASSUME Streams, NEW r \in Rank, Mlp(r)
  PROVE  Streams'
<1>1. /\ TypeOK /\ cfg' = cfg /\ At(r) /\ pc[r] = "mlp" /\ Rank' = Rank
      /\ UNCHANGED <<cfg, part, toks, rows, layer, hid, mask, have, pick>>
      /\ Enter(r, <<>>) /\ Goto(r, "add")
  BY Static DEF Streams, Mlp
<1>2. /\ pc' \in [Rank -> {"load", "dead", "begin", "recv", "recvmask", "layer", "mlp", "add",
                          "send", "sendmask", "head", "combine", "sample", "bcast", "end"}]
      /\ pc'[r] = "add" /\ \A q \in Rank \ {r} : pc'[q] = pc[q]
  BY <1>1, Goes
<1>3. <<>> \in Seq(Token) /\ Len(<<>>) = 0
  BY EmptySeq
<1>4. /\ calls' \in [Rank -> Seq(Seq(Token))] /\ Grows(r) /\ Len(calls'[r]) = Len(calls[r]) + 1
      /\ \A q \in Rank \ {r} : calls'[q] = calls[q]
  BY <1>1, <1>3, Entered
<1>5. /\ BoundsAt(r) /\ Passed(r) \in Nat /\ PassCalls(r) \in Nat /\ Count(r) \in Nat
      /\ layer[r] \in 0 .. Count(r) /\ Passed(r) * PassCalls(r) \in Nat
      /\ Len(calls[r]) = Passed(r) * PassCalls(r) + (2 * layer[r] + 1)
      /\ PassCalls(r) = 2 * Count(r) + HeadCalls(r) + (IF cfg.mode = "given" THEN 0 ELSE 1)
      /\ HeadCalls(r) \in {0, 1} /\ layer[r] < Count(r)
  BY <1>1, Place DEF InPass, BoundsAt
<1>6. /\ SampledAt(r)'
      /\ \A i \in 1 .. Len(calls'[r]) : Len(calls'[r][i]) <= Len(Tokens)
  <2>1. cfg.mode # "given" => 2 * layer[r] + 2 \in 1 .. PassCalls(r) - 1
    <3>1. cfg.mode # "given" => 2 * Count(r) <= PassCalls(r) - 1
      BY <1>5
    <3>2. layer[r] \in Nat /\ layer[r] < Count(r)
      BY <1>5
    <3>3. Count(r) \in Nat /\ PassCalls(r) \in Nat
      BY <1>5
    <3>. QED
      BY <3>1, <3>2, <3>3, LayerCall
  <2>2. Len(calls[r]) + 1 = Passed(r) * PassCalls(r) + (2 * layer[r] + 2)
    BY <1>5
  <2>3. Len(<<>>) <= Len(Tokens) /\ Count(r) >= 0
    BY <1>3, <1>5, Sizes
  <2>. QED
    BY <1>1, <1>3, <1>5, <2>1, <2>2, <2>3, EnteredAt
<1>7. TypeOK'
  BY <1>1, <1>2, <1>4, LayerStays DEF TypeOK
<1>8. \A q \in Rank \ {r} : Same(q)
  BY <1>1, <1>2, <1>4 DEF Same
<1>9. BoundsAt(r)'
  BY <1>1, <1>2, <1>5, <1>6, Static DEF BoundsAt
<1>10. PlacedAt(r)'
  <2>1. InPass(r)' = 2 * layer[r] + 2 /\ Passed(r)' = Passed(r)
    BY <1>1, <1>2 DEF InPass, Passed
  <2>. QED
    BY <1>1, <1>4, <1>5, <2>1, Static DEF PlacedAt
<1>. QED
  BY <1>1, <1>4, <1>6, <1>7, <1>8, <1>9, <1>10, OneRankSteps

LEMMA LayerDoneStreams ==
  ASSUME Streams, NEW r \in Rank, LayerDone(r)
  PROVE  Streams'
<1>1. /\ TypeOK /\ cfg' = cfg /\ At(r) /\ pc[r] = "add" /\ Rank' = Rank
      /\ UNCHANGED <<cfg, part, toks, rows, hid, mask, have, calls, pick>>
      /\ layer' = [layer EXCEPT ![r] = @ + 1] /\ Goto(r, "layer")
  BY Static DEF Streams, LayerDone
<1>2. /\ pc' \in [Rank -> {"load", "dead", "begin", "recv", "recvmask", "layer", "mlp", "add",
                          "send", "sendmask", "head", "combine", "sample", "bcast", "end"}]
      /\ pc'[r] = "layer" /\ \A q \in Rank \ {r} : pc'[q] = pc[q]
  BY <1>1, Goes
<1>3. /\ BoundsAt(r) /\ Count(r) \in Nat /\ layer[r] \in 0 .. Count(r) /\ layer[r] < Count(r)
      /\ Len(calls[r]) = Passed(r) * PassCalls(r) + (2 * layer[r] + 2)
  BY <1>1, Place DEF InPass, BoundsAt
<1>4. /\ layer' \in [Rank -> Nat] /\ layer'[r] = layer[r] + 1
      /\ \A q \in Rank \ {r} : layer'[q] = layer[q]
  <2>1. layer \in [Rank -> Nat]
    BY <1>1 DEF TypeOK
  <2>. QED
    BY <1>1, <1>3, <2>1
<1>5. TypeOK'
  <2>1. \A q \in Rank : layer'[q] <= Max({0, Count(q)'})
    <3>1. \A q \in Rank : layer[q] <= Max({0, Count(q)}) /\ Max({0, Count(q)})' = Max({0, Count(q)})
      BY <1>1, Static DEF TypeOK
    <3>2. Max({0, Count(r)}) = Count(r)
      BY <1>3, MaxWithZero
    <3>3. layer[r] + 1 <= Max({0, Count(r)})
      BY <1>3, <3>2
    <3>. QED
      BY <1>4, <3>1, <3>3
  <2>. QED
    BY <1>1, <1>2, <1>4, <2>1 DEF TypeOK
<1>6. Grows(r)
  BY <1>1, Quiet
<1>7. \A q \in Rank \ {r} : Same(q)
  BY <1>1, <1>2, <1>4 DEF Same
<1>8. BoundsAt(r)'
  BY <1>1, <1>2, <1>3, Static DEF BoundsAt
<1>9. PlacedAt(r)'
  <2>1. InPass(r)' = 2 * (layer[r] + 1) /\ Passed(r)' = Passed(r)
    BY <1>1, <1>2, <1>4 DEF InPass, Passed
  <2>2. 2 * (layer[r] + 1) = 2 * layer[r] + 2
    BY <1>3
  <2>. QED
    BY <1>1, <1>3, <2>1, <2>2, Static DEF PlacedAt
<1>10. SampledAt(r)'
  BY <1>1, Static DEF At, SampledAt
<1>. QED
  BY <1>1, <1>5, <1>6, <1>7, <1>8, <1>9, <1>10, OneRankSteps

LEMMA StackDoneStreams ==
  ASSUME Streams, NEW r \in Rank, StackDone(r)
  PROVE  Streams'
<1>. DEFINE there == IF Last(r) THEN "head" ELSE "send"
<1>1. /\ TypeOK /\ cfg' = cfg /\ At(r) /\ pc[r] = "layer" /\ Rank' = Rank /\ layer[r] = Count(r)
      /\ UNCHANGED <<cfg, part, toks, layer, hid, mask, have, calls, pick>>
      /\ rows' = [rows EXCEPT ![r] = Len(toks[r])] /\ Goto(r, there)
  BY Static DEF Streams, StackDone
<1>2. /\ pc' \in [Rank -> {"load", "dead", "begin", "recv", "recvmask", "layer", "mlp", "add",
                          "send", "sendmask", "head", "combine", "sample", "bcast", "end"}]
      /\ pc'[r] = there /\ \A q \in Rank \ {r} : pc'[q] = pc[q]
  BY <1>1, Goes
<1>3. /\ BoundsAt(r) /\ Count(r) \in Nat /\ Len(toks[r]) \in 0 .. Len(Tokens)
      /\ Len(calls[r]) = Passed(r) * PassCalls(r) + 2 * Count(r)
  <2>1. BoundsAt(r) /\ Len(toks[r]) \in 0 .. Len(Tokens)
    BY <1>1, RankTypes, Sizes DEF At, BoundsAt
  <2>. QED
    BY <1>1, <2>1, Place DEF InPass
<1>4. rows' \in [Rank -> 0 .. Len(Tokens)]
  BY <1>1, <1>3 DEF TypeOK
<1>5. TypeOK'
  BY <1>1, <1>2, <1>4, LayerStays DEF TypeOK
<1>6. Grows(r)
  BY <1>1, Quiet
<1>7. \A q \in Rank \ {r} : Same(q)
  BY <1>1, <1>2 DEF Same
<1>8. BoundsAt(r)'
  BY <1>1, <1>2, <1>3, Static DEF BoundsAt
<1>9. PlacedAt(r)'
  <2>1. InPass(r)' = 2 * Count(r) /\ Passed(r)' = Passed(r)
    BY <1>1, <1>2, Static DEF InPass, Passed
  <2>. QED
    BY <1>1, <1>3, <2>1, Static DEF PlacedAt
<1>10. SampledAt(r)'
  BY <1>1, Static DEF At, SampledAt
<1>. QED
  BY <1>1, <1>5, <1>6, <1>7, <1>8, <1>9, <1>10, OneRankSteps

LEMMA PickType ==
  ASSUME TypeOK, NEW r \in Rank, NEW t \in Token, pick' = [pick EXCEPT ![r] = t]
  PROVE  pick' \in [Rank -> Token] /\ pick'[r] = t
BY DEF TypeOK

LEMMA LmHeadStreams ==
  ASSUME Streams, NEW r \in Rank, LmHead(r)
  PROVE  Streams'
<1>1. /\ TypeOK /\ cfg' = cfg /\ At(r) /\ pc[r] = "head" /\ Rank' = Rank
      /\ UNCHANGED <<cfg, part, toks, rows, layer, hid, mask, have>>
  BY Static DEF Streams, LmHead
<1>2. /\ BoundsAt(r) /\ Passed(r) \in Nat /\ PassCalls(r) \in Nat /\ Count(r) \in Nat /\ Last(r)
      /\ Passed(r) * PassCalls(r) \in Nat
      /\ Len(calls[r]) = Passed(r) * PassCalls(r) + 2 * Count(r)
      /\ PassCalls(r) = 2 * Count(r) + HeadCalls(r) + (IF cfg.mode = "given" THEN 0 ELSE 1)
  BY <1>1, Place DEF InPass, BoundsAt
<1>3. hid[r].toks \in Seq(Token) /\ Len(hid[r].toks) <= Len(Tokens)
  BY <1>1, <1>2, RankTypes DEF BoundsAt
<1>4. CASE Sharded
  <2>1. Enter(r, hid[r].toks) /\ Goto(r, "combine") /\ pick' = pick
    BY <1>4 DEF LmHead
  <2>2. /\ pc' \in [Rank -> {"load", "dead", "begin", "recv", "recvmask", "layer", "mlp", "add",
                            "send", "sendmask", "head", "combine", "sample", "bcast", "end"}]
        /\ pc'[r] = "combine" /\ \A q \in Rank \ {r} : pc'[q] = pc[q]
    BY <1>1, <2>1, Goes
  <2>3. /\ calls' \in [Rank -> Seq(Seq(Token))] /\ Grows(r) /\ Len(calls'[r]) = Len(calls[r]) + 1
        /\ \A q \in Rank \ {r} : calls'[q] = calls[q]
    BY <1>1, <1>3, <2>1, Entered
  <2>4. /\ SampledAt(r)'
        /\ \A i \in 1 .. Len(calls'[r]) : Len(calls'[r][i]) <= Len(Tokens)
    <3>1. HeadCalls(r) = 1
      BY <1>2, <1>4 DEF HeadCalls
    <3>2. cfg.mode # "given" => 2 * Count(r) + 1 \in 1 .. PassCalls(r) - 1
      BY <1>2, <3>1
    <3>3. Len(calls[r]) + 1 = Passed(r) * PassCalls(r) + (2 * Count(r) + 1)
      BY <1>2
    <3>4. Count(r) >= 0
      BY <1>2
    <3>. QED
      BY <1>1, <1>2, <1>3, <2>1, <3>2, <3>3, <3>4, EnteredAt
  <2>5. TypeOK'
    BY <1>1, <2>1, <2>2, <2>3, LayerStays DEF TypeOK
  <2>6. \A q \in Rank \ {r} : Same(q)
    BY <1>1, <2>2, <2>3 DEF Same
  <2>7. BoundsAt(r)'
    BY <1>1, <1>2, <1>4, <2>2, <2>4, Static DEF BoundsAt
  <2>8. PlacedAt(r)'
    <3>1. InPass(r)' = 2 * Count(r) + 1 /\ Passed(r)' = Passed(r)
      BY <1>1, <2>2, Static DEF InPass, Passed
    <3>. QED
      BY <1>1, <1>2, <2>3, <3>1, Static DEF PlacedAt
  <2>. QED
    BY <1>1, <2>3, <2>4, <2>5, <2>6, <2>7, <2>8, OneRankSteps
<1>5. CASE ~Sharded
  <2>1. /\ pick' = [pick EXCEPT ![r] = FirstMax([t \in Token |-> Score(hid[r].toks, t)])]
        /\ Goto(r, "sample") /\ calls' = calls
    BY <1>5 DEF LmHead
  <2>2. /\ pc' \in [Rank -> {"load", "dead", "begin", "recv", "recvmask", "layer", "mlp", "add",
                            "send", "sendmask", "head", "combine", "sample", "bcast", "end"}]
        /\ pc'[r] = "sample" /\ \A q \in Rank \ {r} : pc'[q] = pc[q]
    BY <1>1, <2>1, Goes
  <2>3. pick' \in [Rank -> Token]
    BY <1>1, <1>3, <2>1, ScoreInt, PickType
  <2>4. TypeOK'
    BY <1>1, <2>1, <2>2, <2>3, LayerStays DEF TypeOK
  <2>5. Grows(r)
    BY <1>1, <2>1, Quiet
  <2>6. \A q \in Rank \ {r} : Same(q)
    BY <1>1, <2>1, <2>2 DEF Same
  <2>7. BoundsAt(r)'
    BY <1>1, <1>2, <2>1, <2>2, Static DEF BoundsAt
  <2>8. PlacedAt(r)'
    <3>1. InPass(r)' = 2 * Count(r) /\ Passed(r)' = Passed(r)
      BY <1>1, <1>2, <1>5, <2>2, Static DEF InPass, Passed, HeadCalls
    <3>. QED
      BY <1>1, <1>2, <2>1, <3>1, Static DEF PlacedAt
  <2>9. SampledAt(r)'
    BY <1>1, <2>1, Static DEF At, SampledAt
  <2>. QED
    BY <1>1, <2>4, <2>5, <2>6, <2>7, <2>8, <2>9, OneRankSteps
<1>. QED
  BY <1>4, <1>5

\* The head divided over the stage of r has all it combines.
LEMMA GivenTypes ==
  ASSUME Streams, NEW r \in Rank, pc[r] = "combine", Met(r)
  PROVE  /\ cfg \in Configs /\ Sharded
         /\ \A w \in Shards : /\ Given(Root(r) + w, r) \in Seq(Token)
                              /\ Len(Given(Root(r) + w, r)) <= Len(Tokens)
                              /\ \A t \in Token : Logit(r, w, t) \in Int
<1>1. TypeOK /\ cfg \in Configs /\ At(r) /\ Sharded
  BY DEF Streams, TypeOK, At, BoundsAt
<1>2. Len(calls[r]) \in Nat \ {0}
  <2>1. Len(calls[r]) = Passed(r) * PassCalls(r) + (2 * Count(r) + 1)
    BY Place DEF InPass
  <2>. QED
    BY <2>1, Place
<1>3. ASSUME NEW w \in Shards
      PROVE  /\ Given(Root(r) + w, r) \in Seq(Token)
             /\ Len(Given(Root(r) + w, r)) <= Len(Tokens)
  <2>1. Root(r) + w \in Stage(r) /\ Root(r) + w \in Rank
    BY <1>1, StageMates DEF Shards
  <2>. DEFINE q == Root(r) + w
  <2>2. Len(calls[q]) >= Len(calls[r]) /\ Len(calls[q]) \in Nat
    BY <1>1, <2>1, RankTypes DEF Met
  <2>3. Len(calls[r]) \in 1 .. Len(calls[q])
    BY <1>2, <2>2
  <2>4. BoundsAt(q)
    BY <2>1 DEF Streams, At
  <2>. QED
    BY <1>1, <2>1, <2>3, <2>4, RankTypes DEF BoundsAt, Given
<1>. QED
  BY <1>1, <1>3, ScoreInt DEF Logit

LEMMA CombineStreams ==
  ASSUME Streams, NEW r \in Rank, Combine(r)
  PROVE  Streams'
<1>1. /\ TypeOK /\ cfg' = cfg /\ At(r) /\ pc[r] = "combine" /\ Rank' = Rank /\ Met(r)
      /\ UNCHANGED <<cfg, part, toks, rows, layer, hid, mask, have, calls>>
      /\ Goto(r, "sample")
      /\ pick' = [pick EXCEPT ![r] = FromLogits(r)] \/ pick' = [pick EXCEPT ![r] = FromPairs(r)]
  BY Static DEF Streams, Combine
<1>2. /\ pc' \in [Rank -> {"load", "dead", "begin", "recv", "recvmask", "layer", "mlp", "add",
                          "send", "sendmask", "head", "combine", "sample", "bcast", "end"}]
      /\ pc'[r] = "sample" /\ \A q \in Rank \ {r} : pc'[q] = pc[q]
  BY <1>1, Goes
<1>3. /\ BoundsAt(r) /\ Count(r) \in Nat /\ Last(r) /\ Sharded
      /\ Len(calls[r]) = Passed(r) * PassCalls(r) + (2 * Count(r) + 1)
  BY <1>1, Place DEF InPass, BoundsAt
<1>4. pick' \in [Rank -> Token]
  <2>1. FromLogits(r) \in Token /\ FromPairs(r) \in Token
    BY <1>1, GivenTypes, CombinedIsWhole
  <2>. QED
    BY <1>1, <2>1, PickType
<1>5. TypeOK'
  BY <1>1, <1>2, <1>4, LayerStays DEF TypeOK
<1>6. Grows(r)
  BY <1>1, Quiet
<1>7. \A q \in Rank \ {r} : Same(q)
  BY <1>1, <1>2 DEF Same
<1>8. BoundsAt(r)'
  BY <1>1, <1>2, <1>3, Static DEF BoundsAt
<1>9. PlacedAt(r)'
  <2>1. InPass(r)' = 2 * Count(r) + 1 /\ Passed(r)' = Passed(r)
    BY <1>1, <1>2, <1>3, Static DEF InPass, Passed, HeadCalls
  <2>. QED
    BY <1>1, <1>3, <2>1, Static DEF PlacedAt
<1>10. SampledAt(r)'
  BY <1>1, Static DEF At, SampledAt
<1>. QED
  BY <1>1, <1>5, <1>6, <1>7, <1>8, <1>9, <1>10, OneRankSteps

\* A token appended to a rank's stream.
LEMMA Appended ==
  ASSUME Streams, NEW r \in Rank, NEW t \in Token, toks' = [toks EXCEPT ![r] = Append(@, t)]
  PROVE  /\ toks' \in [Rank -> Seq(Token)] /\ Len(toks'[r]) = Len(toks[r]) + 1
         /\ \A i \in 1 .. Len(toks[r]) : toks'[r][i] = toks[r][i]
         /\ toks'[r][Len(toks[r]) + 1] = t
         /\ \A q \in Rank \ {r} : toks'[q] = toks[q]
<1>1. toks \in [Rank -> Seq(Token)] /\ toks[r] \in Seq(Token)
  BY DEF Streams, TypeOK
<1>2. /\ Append(toks[r], t) \in Seq(Token) /\ Len(Append(toks[r], t)) = Len(toks[r]) + 1
      /\ \A i \in 1 .. Len(toks[r]) : Append(toks[r], t)[i] = toks[r][i]
      /\ Append(toks[r], t)[Len(toks[r]) + 1] = t
  BY <1>1, AppendProperties
<1>3. toks' = [toks EXCEPT ![r] = Append(toks[r], t)]
  OBVIOUS
<1>. QED
  BY <1>1, <1>2, <1>3

LEMMA NextGivenStreams ==
  ASSUME Streams, NEW r \in Rank, NextGiven(r)
  PROVE  Streams'
<1>1. /\ TypeOK /\ cfg' = cfg /\ At(r) /\ pc[r] = "sample" /\ Rank' = Rank /\ cfg.mode = "given"
      /\ UNCHANGED <<cfg, part, rows, layer, hid, mask, have, calls, pick>>
  BY Static DEF Streams, NextGiven
<1>2. /\ BoundsAt(r) /\ Passed(r) \in Nat /\ PassCalls(r) \in Nat /\ Count(r) \in Nat
      /\ PassCalls(r) = 2 * Count(r) + HeadCalls(r) /\ HeadCalls(r) \in {0, 1}
      /\ Len(calls[r]) = Passed(r) * PassCalls(r) + PassCalls(r)
      /\ Len(toks[r]) \in Nat /\ Len(Tokens) \in Nat /\ PromptLen \in Nat
  <2>1. InPass(r) = 2 * Count(r) + HeadCalls(r)
    BY <1>1 DEF InPass
  <2>2. /\ BoundsAt(r) /\ Passed(r) \in Nat /\ PassCalls(r) \in Nat /\ Count(r) \in Nat
        /\ Len(calls[r]) = Passed(r) * PassCalls(r) + InPass(r)
        /\ PassCalls(r) = 2 * Count(r) + HeadCalls(r) + (IF cfg.mode = "given" THEN 0 ELSE 1)
        /\ HeadCalls(r) \in {0, 1}
    BY <1>1, Place
  <2>3. PassCalls(r) = 2 * Count(r) + HeadCalls(r)
    BY <1>1, <2>2
  <2>. QED
    BY <1>1, <2>1, <2>2, <2>3, RankTypes, Sizes
<1>3. Grows(r)
  BY <1>1, Quiet
<1>4. SampledAt(r)'
  BY <1>1, Static DEF SampledAt
<1>5. CASE Len(toks[r]) < Len(Tokens)
  <2>. DEFINE t == Tokens[Len(toks[r]) + 1]
  <2>1. toks' = [toks EXCEPT ![r] = Append(@, t)] /\ Goto(r, "begin")
    <3>1. toks' = [toks EXCEPT ![r] = Append(toks[r], t)] /\ Goto(r, "begin")
      BY <1>1, <1>5 DEF NextGiven, TypeOK
    <3>. QED
      BY <3>1
  <2>2. t \in Token
    BY <1>2, <1>5, Sizes, ElementOfSeq
  <2>. HIDE DEF t
  <2>3. /\ pc' \in [Rank -> {"load", "dead", "begin", "recv", "recvmask", "layer", "mlp", "add",
                            "send", "sendmask", "head", "combine", "sample", "bcast", "end"}]
        /\ pc'[r] = "begin" /\ \A q \in Rank \ {r} : pc'[q] = pc[q]
    BY <1>1, <2>1, Goes
  <2>4. /\ toks' \in [Rank -> Seq(Token)] /\ Len(toks'[r]) = Len(toks[r]) + 1
        /\ \A i \in 1 .. Len(toks[r]) : toks'[r][i] = toks[r][i]
        /\ toks'[r][Len(toks[r]) + 1] = t
        /\ \A q \in Rank \ {r} : toks'[q] = toks[q]
    BY <2>1, <2>2, Appended
  <2>5. TypeOK'
    BY <1>1, <2>3, <2>4, LayerStays DEF TypeOK
  <2>6. \A q \in Rank \ {r} : Same(q)
    BY <1>1, <2>3, <2>4 DEF Same
  <2>7. BoundsAt(r)'
    <3>1. Len(toks'[r]) >= PromptLen /\ Len(toks'[r]) <= Len(Tokens)
      <4>1. Len(toks[r]) >= PromptLen
        BY <1>2 DEF BoundsAt
      <4>2. Len(toks[r]) \in Nat /\ Len(Tokens) \in Nat /\ PromptLen \in Nat
        BY <1>2
      <4>3. Len(toks'[r]) = Len(toks[r]) + 1
        BY <2>4
      <4>. QED
        BY <1>5, <4>1, <4>2, <4>3
    <3>. QED
      BY <1>1, <1>2, <2>3, <3>1, Static DEF BoundsAt
  <2>8. PlacedAt(r)'
    <3>1. InPass(r)' = 0 /\ Passed(r)' = Passed(r) + 1
      BY <1>2, <2>3, <2>4 DEF InPass, Passed
    <3>2. (Passed(r) + 1) * PassCalls(r) = Passed(r) * PassCalls(r) + PassCalls(r)
      BY <1>2
    <3>. QED
      BY <1>1, <1>2, <3>1, <3>2, Static DEF PlacedAt
  <2>9. StreamAt(r)'
    <3>1. \A i \in 1 .. Len(toks'[r]) : i \in 1 .. Len(toks[r]) \/ i = Len(toks[r]) + 1
      BY <1>2, <2>4
    <3>2. \A i \in 1 .. Len(toks'[r]) : i <= Len(Tokens) /\ toks'[r][i] = Tokens[i]
      <4>1. \A i \in 1 .. Len(toks[r]) : i <= Len(Tokens) /\ toks[r][i] = Tokens[i]
        BY <1>1 DEF At, StreamAt
      <4>2. Len(toks[r]) + 1 <= Len(Tokens) /\ t = Tokens[Len(toks[r]) + 1]
        BY <1>2, <1>5 DEF t
      <4>. QED
        BY <2>4, <3>1, <4>1, <4>2
    <3>3. \A i \in 1 .. PromptLen : i \in 1 .. Len(toks'[r])
      BY <1>2, <2>4 DEF BoundsAt
    <3>. QED
      BY <1>1, <3>2, <3>3 DEF StreamAt
  <2>. QED
    BY <1>1, <1>3, <1>4, <2>5, <2>6, <2>7, <2>8, <2>9, OneRankSteps
<1>6. CASE ~(Len(toks[r]) < Len(Tokens))
  <2>1. toks' = toks /\ Goto(r, "end")
    BY <1>6 DEF NextGiven
  <2>2. /\ pc' \in [Rank -> {"load", "dead", "begin", "recv", "recvmask", "layer", "mlp", "add",
                            "send", "sendmask", "head", "combine", "sample", "bcast", "end"}]
        /\ pc'[r] = "end" /\ \A q \in Rank \ {r} : pc'[q] = pc[q]
    BY <1>1, <2>1, Goes
  <2>3. TypeOK'
    BY <1>1, <2>1, <2>2, LayerStays DEF TypeOK
  <2>4. \A q \in Rank \ {r} : Same(q)
    BY <1>1, <2>1, <2>2 DEF Same
  <2>5. BoundsAt(r)' /\ PlacedAt(r)'
    BY <1>1, <1>2, <2>1, <2>2, Static DEF BoundsAt, PlacedAt
  <2>. QED
    BY <1>1, <1>3, <1>4, <2>1, <2>3, <2>4, <2>5, OneRankSteps
<1>. QED
  BY <1>5, <1>6

LEMMA SampleStreams ==
  ASSUME Streams, NEW r \in Rank, Sample(r)
  PROVE  Streams'
<1>1. /\ TypeOK /\ cfg' = cfg /\ At(r) /\ pc[r] = "sample" /\ Rank' = Rank /\ cfg.mode # "given"
      /\ UNCHANGED <<cfg, part, toks, rows, layer, hid, mask, have>> /\ Goto(r, "bcast")
  BY Static DEF Streams, Sample
<1>2. PICK t \in Token : pick' = [pick EXCEPT ![r] = t] /\ Enter(r, <<t>>)
  <2>1. pick[r] \in Token /\ 0 \in Token
    BY <1>1, RankTypes, Sizes
  <2>. QED
    BY <2>1 DEF Sample
<1>3. /\ pc' \in [Rank -> {"load", "dead", "begin", "recv", "recvmask", "layer", "mlp", "add",
                          "send", "sendmask", "head", "combine", "sample", "bcast", "end"}]
      /\ pc'[r] = "bcast" /\ \A q \in Rank \ {r} : pc'[q] = pc[q]
  BY <1>1, Goes
<1>4. /\ BoundsAt(r) /\ Passed(r) \in Nat /\ PassCalls(r) \in Nat /\ Count(r) \in Nat
      /\ Len(calls[r]) = Passed(r) * PassCalls(r) + (2 * Count(r) + HeadCalls(r))
      /\ HeadCalls(r) \in {0, 1} /\ PassCalls(r) = 2 * Count(r) + HeadCalls(r) + 1
      /\ Passed(r) * PassCalls(r) \in Nat
  <2>1. InPass(r) = 2 * Count(r) + HeadCalls(r)
    BY <1>1 DEF InPass
  <2>. QED
    BY <1>1, <2>1, Place
<1>5. <<t>> \in Seq(Token) /\ Len(<<t>>) = 1
  OBVIOUS
<1>6. /\ calls' \in [Rank -> Seq(Seq(Token))] /\ Grows(r) /\ Len(calls'[r]) = Len(calls[r]) + 1
      /\ \A q \in Rank \ {r} : calls'[q] = calls[q]
  BY <1>1, <1>2, <1>5, Entered
<1>7. /\ SampledAt(r)'
      /\ \A i \in 1 .. Len(calls'[r]) : Len(calls'[r][i]) <= Len(Tokens)
  <2>1. Len(<<t>>) <= Len(Tokens) /\ Count(r) >= 0
    BY <1>4, <1>5, Sizes
  <2>. QED
    BY <1>1, <1>2, <1>5, <2>1, EnteredAt
<1>8. pick' \in [Rank -> Token]
  BY <1>1, <1>2, PickType
<1>9. TypeOK'
  BY <1>1, <1>3, <1>6, <1>8, LayerStays DEF TypeOK
<1>10. \A q \in Rank \ {r} : Same(q)
  BY <1>1, <1>3, <1>6 DEF Same
<1>11. BoundsAt(r)'
  BY <1>1, <1>3, <1>4, <1>7, Static DEF BoundsAt
<1>12. PlacedAt(r)'
  <2>1. InPass(r)' = PassCalls(r) /\ Passed(r)' = Passed(r)
    BY <1>1, <1>3, Static DEF InPass, Passed
  <2>. QED
    BY <1>1, <1>4, <1>6, <2>1, Static DEF PlacedAt
<1>. QED
  BY <1>1, <1>6, <1>7, <1>9, <1>10, <1>11, <1>12, OneRankSteps

\* What a rank is given by the broadcast it is in.
LEMMA BroadcastToken ==
  ASSUME Streams, NEW r \in Rank, pc[r] = "bcast", Met(r)
  PROVE  /\ Broadcast(r) \in Token /\ cfg.mode # "given"
         /\ Passed(r) \in Nat /\ PassCalls(r) \in Nat
         /\ Len(calls[r]) = (Passed(r) + 1) * PassCalls(r)
         /\ (Passed(r) + 1) * PassCalls(r) <= Len(calls[Root(r)])
         /\ Broadcast(r) = Head(calls[Root(r)][(Passed(r) + 1) * PassCalls(r)])
<1>1. TypeOK /\ At(r) /\ cfg.mode # "given" /\ cfg \in Configs
  BY DEF Streams, At, BoundsAt, TypeOK
<1>2. /\ Passed(r) \in Nat /\ PassCalls(r) \in Nat \ {0}
      /\ Len(calls[r]) = Passed(r) * PassCalls(r) + PassCalls(r)
  <2>1. InPass(r) = PassCalls(r)
    BY DEF InPass
  <2>2. /\ Passed(r) \in Nat /\ PassCalls(r) \in Nat /\ Count(r) \in Nat
        /\ Len(calls[r]) = Passed(r) * PassCalls(r) + InPass(r)
        /\ PassCalls(r) = 2 * Count(r) + HeadCalls(r) + (IF cfg.mode = "given" THEN 0 ELSE 1)
        /\ HeadCalls(r) \in {0, 1}
    BY Place
  <2>3. PassCalls(r) # 0
    BY <1>1, <2>2
  <2>. QED
    BY <2>1, <2>2, <2>3
<1>. DEFINE k == Passed(r) + 1
            n == k * PassCalls(r)
            q == Root(r)
<1>3. k \in Nat \ {0} /\ n = Len(calls[r]) /\ k <= n /\ n \in Nat \ {0}
  <2>1. n = Passed(r) * PassCalls(r) + PassCalls(r)
    BY <1>2
  <2>2. k \in Nat \ {0}
    BY <1>2
  <2>3. 1 * k <= PassCalls(r) * k
    BY <1>2, <2>2, TimesMonotone
  <2>4. PassCalls(r) * k = n
    BY <1>2, <2>2
  <2>. HIDE DEF n, k
  <2>. QED
    BY <1>2, <2>1, <2>2, <2>3, <2>4
<1>4. q \in Stage(r) /\ q \in Rank /\ PassCalls(q) = PassCalls(r)
  <2>1. /\ q \in Stage(r) /\ q \in Rank /\ Count(q) = Count(r) /\ (Last(q) <=> Last(r))
    BY <1>1, StageMates
  <2>. QED
    BY <2>1 DEF PassCalls, HeadCalls
<1>5. n <= Len(calls[q]) /\ Len(calls[q]) \in Nat
  BY <1>1, <1>3, <1>4, RankTypes DEF Met
<1>6. Len(calls[q][n]) = 1 /\ calls[q][n] \in Seq(Token)
  <2>1. SampledAt(q)
    BY <1>4 DEF Streams, At
  <2>2. k \in 1 .. Len(calls[q]) /\ n \in 1 .. Len(calls[q])
    BY <1>3, <1>5
  <2>. QED
    BY <1>1, <1>4, <1>5, <2>1, <2>2, RankTypes DEF SampledAt
<1>. HIDE DEF n, q, k
<1>7. Broadcast(r) = Head(calls[q][n])
  BY <1>3 DEF Broadcast, Given, q
<1>8. Head(calls[q][n]) \in Token
  BY <1>6, EmptySeq, HeadTailProperties
<1>. QED
  BY <1>1, <1>2, <1>3, <1>5, <1>7, <1>8 DEF n, k, q

LEMMA BcastStreams ==
  ASSUME Streams, NEW r \in Rank, Bcast(r)
  PROVE  Streams'
<1>. DEFINE next == Broadcast(r)
<1>1. /\ TypeOK /\ cfg' = cfg /\ At(r) /\ pc[r] = "bcast" /\ Rank' = Rank /\ Met(r)
      /\ UNCHANGED <<cfg, part, rows, layer, hid, mask, have, calls, pick>>
  BY Static DEF Streams, Bcast
<1>2. /\ next \in Token /\ cfg.mode # "given"
      /\ Passed(r) \in Nat /\ PassCalls(r) \in Nat
      /\ Len(calls[r]) = (Passed(r) + 1) * PassCalls(r)
      /\ (Passed(r) + 1) * PassCalls(r) <= Len(calls[Root(r)])
      /\ next = Head(calls[Root(r)][(Passed(r) + 1) * PassCalls(r)])
  BY <1>1, BroadcastToken
<1>3. /\ BoundsAt(r) /\ Len(toks[r]) \in Nat /\ Len(Tokens) \in Nat /\ PromptLen \in Nat
      /\ Count(r) \in Int /\ Count(r) >= 0
  BY <1>1, RankTypes, Sizes DEF At, BoundsAt
<1>4. Grows(r)
  BY <1>1, Quiet
<1>5. SampledAt(r)'
  BY <1>1, Static DEF At, SampledAt
<1>. HIDE DEF next
<1>6. CASE next \in Stop
  <2>1. toks' = toks /\ Goto(r, "end")
    BY <1>6 DEF Bcast, next
  <2>2. /\ pc' \in [Rank -> {"load", "dead", "begin", "recv", "recvmask", "layer", "mlp", "add",
                            "send", "sendmask", "head", "combine", "sample", "bcast", "end"}]
        /\ pc'[r] = "end" /\ \A q \in Rank \ {r} : pc'[q] = pc[q]
    BY <1>1, <2>1, Goes
  <2>3. TypeOK'
    BY <1>1, <2>1, <2>2, LayerStays DEF TypeOK
  <2>4. \A q \in Rank \ {r} : Same(q)
    BY <1>1, <2>1, <2>2 DEF Same
  <2>5. BoundsAt(r)' /\ PlacedAt(r)'
    BY <1>1, <1>3, <2>1, <2>2, Static DEF BoundsAt, PlacedAt
  <2>. QED
    BY <1>1, <1>4, <1>5, <2>1, <2>3, <2>4, <2>5, OneRankSteps
<1>7. CASE next \notin Stop
  <2>. DEFINE there == IF Len(toks[r]) + 1 < Len(Tokens) THEN "begin" ELSE "end"
  <2>1. toks' = [toks EXCEPT ![r] = Append(@, next)] /\ Goto(r, there)
    BY <1>7 DEF Bcast, next
  <2>2. /\ pc' \in [Rank -> {"load", "dead", "begin", "recv", "recvmask", "layer", "mlp", "add",
                            "send", "sendmask", "head", "combine", "sample", "bcast", "end"}]
        /\ pc'[r] = there /\ \A q \in Rank \ {r} : pc'[q] = pc[q]
    BY <1>1, <2>1, Goes
  <2>3. /\ toks' \in [Rank -> Seq(Token)] /\ Len(toks'[r]) = Len(toks[r]) + 1
        /\ \A i \in 1 .. Len(toks[r]) : toks'[r][i] = toks[r][i]
        /\ toks'[r][Len(toks[r]) + 1] = next
        /\ \A q \in Rank \ {r} : toks'[q] = toks[q]
    BY <1>2, <2>1, Appended
  <2>4. TypeOK'
    BY <1>1, <2>2, <2>3, LayerStays DEF TypeOK
  <2>5. \A q \in Rank \ {r} : Same(q)
    BY <1>1, <2>2, <2>3 DEF Same
  <2>6. BoundsAt(r)'
    BY <1>1, <1>3, <2>2, <2>3, Static DEF BoundsAt
  <2>7. PlacedAt(r)'
    <3>1. pc'[r] # "end" => InPass(r)' = 0 /\ Passed(r)' = Passed(r) + 1
      BY <1>3, <2>2, <2>3 DEF InPass, Passed
    <3>2. (Passed(r) + 1) * PassCalls(r) \in Nat
      BY <1>2
    <3>. QED
      BY <1>1, <1>2, <3>1, <3>2, Static DEF PlacedAt
  <2>8. StreamAt(r)'
    <3>1. StreamAt(r)
      BY <1>1 DEF At
    <3>2. \A i \in 1 .. PromptLen : toks'[r][i] = Tokens[i]
      <4>1. \A i \in 1 .. PromptLen : i \in 1 .. Len(toks[r])
        BY <1>3 DEF BoundsAt
      <4>. QED
        BY <2>3, <3>1, <4>1 DEF StreamAt
    <3>3. ASSUME NEW k \in 1 .. Len(toks'[r]) - PromptLen
          PROVE  /\ k * PassCalls(r) <= Len(calls[Root(r)])
                 /\ toks'[r][PromptLen + k] = Head(calls[Root(r)][k * PassCalls(r)])
      <4>1. CASE k = Passed(r) + 1
        <5>1. PromptLen + k = Len(toks[r]) + 1
          BY <1>3, <4>1 DEF Passed
        <5>. QED
          BY <1>2, <2>3, <4>1, <5>1
      <4>2. CASE k # Passed(r) + 1
        <5>0. Passed(r) = Len(toks[r]) - PromptLen /\ Len(toks'[r]) = Len(toks[r]) + 1
          BY <2>3 DEF Passed
        <5>1. k \in 1 .. Len(toks[r]) - PromptLen /\ PromptLen + k \in 1 .. Len(toks[r])
          BY <1>3, <4>2, <5>0
        <5>. QED
          BY <1>2, <2>3, <3>1, <5>1 DEF StreamAt
      <4>. QED
        BY <4>1, <4>2
    <3>. QED
      BY <1>1, <1>2, <3>2, <3>3, Static DEF StreamAt
  <2>. QED
    BY <1>1, <1>4, <1>5, <2>4, <2>5, <2>6, <2>7, <2>8, OneRankSteps
<1>. QED
  BY <1>6, <1>7

\* The two ends of a transfer.
LEMMA TransferFacts ==
  ASSUME TypeOK, NEW r \in Rank, Transfer(r)
  PROVE  /\ NextRank(r) \in Rank /\ NextRank(r) # r /\ cfg' = cfg /\ Rank' = Rank
         /\ ~Last(r) /\ ~First(NextRank(r))
         /\ pc[r] \in {"send", "sendmask"} /\ pc[NextRank(r)] \in {"recv", "recvmask"}
         /\ pc'[r] = IF pc[r] = "send" /\ SendsMask(r) THEN "sendmask" ELSE "sample"
         /\ pc'[NextRank(r)] = IF pc[NextRank(r)] = "recv" /\ ReceivesMask(NextRank(r))
                               THEN "recvmask" ELSE "layer"
         /\ \A x \in Rank \ {r, NextRank(r)} : pc'[x] = pc[x]
         /\ IF pc[NextRank(r)] = "recv"
            THEN /\ hid'[NextRank(r)] = IF pc[r] = "send" THEN hid[r] ELSE NoHidden
                 /\ mask' = mask /\ have' = have
            ELSE /\ mask'[NextRank(r)] = IF pc[r] = "sendmask" THEN mask[r] ELSE Garbage
                 /\ have'[NextRank(r)] = TRUE /\ hid' = hid
         /\ \A x \in Rank \ {NextRank(r)} : hid'[x] = hid[x] /\ mask'[x] = mask[x] /\ have'[x] = have[x]
         /\ UNCHANGED <<cfg, part, toks, rows, layer, calls, pick>>
<1>. DEFINE q == NextRank(r)
            thereR == IF pc[r] = "send" /\ SendsMask(r) THEN "sendmask" ELSE "sample"
            thereQ == IF pc[q] = "recv" /\ ReceivesMask(q) THEN "recvmask" ELSE "layer"
            given == IF pc[r] = "send" THEN hid[r] ELSE NoHidden
            shared == IF pc[r] = "sendmask" THEN mask[r] ELSE Garbage
<1>1. /\ q \in Rank /\ pc[r] \in {"send", "sendmask"} /\ pc[q] \in {"recv", "recvmask"}
      /\ pc' = [pc EXCEPT ![r] = thereR, ![q] = thereQ]
      /\ IF pc[q] = "recv"
         THEN hid' = [hid EXCEPT ![q] = given] /\ mask' = mask /\ have' = have
         ELSE /\ mask' = [mask EXCEPT ![q] = shared] /\ have' = [have EXCEPT ![q] = TRUE]
              /\ hid' = hid
      /\ UNCHANGED <<cfg, part, toks, rows, layer, calls, pick>>
  BY DEF Transfer
<1>2. q # r /\ ~Last(r) /\ ~First(q) /\ Rank' = Rank
  BY <1>1, Hop, Static DEF TypeOK
<1>3. DOMAIN pc = Rank /\ DOMAIN hid = Rank /\ DOMAIN mask = Rank /\ DOMAIN have = Rank
  BY DEF TypeOK
<1>. HIDE DEF thereR, thereQ, given, shared, q
<1>4. pc'[r] = thereR /\ pc'[q] = thereQ /\ \A x \in Rank \ {r, q} : pc'[x] = pc[x]
  BY <1>1, <1>2, <1>3
<1>5. /\ IF pc[q] = "recv"
         THEN hid'[q] = given /\ mask' = mask /\ have' = have
         ELSE mask'[q] = shared /\ have'[q] = TRUE /\ hid' = hid
      /\ \A x \in Rank \ {q} : hid'[x] = hid[x] /\ mask'[x] = mask[x] /\ have'[x] = have[x]
  BY <1>1, <1>3
<1>. QED
  BY <1>1, <1>2, <1>4, <1>5 DEF thereR, thereQ, given, shared, q

LEMMA TransferType ==
  ASSUME TypeOK, NEW r \in Rank, Transfer(r)
  PROVE  TypeOK'
<1>. DEFINE q == NextRank(r)
            H == [toks : Seq(Token), done : Seq(-3 .. cfg.layers - 1)]
            M == {Garbage} \cup 0 .. cfg.layers - 1
            P == {"load", "dead", "begin", "recv", "recvmask", "layer", "mlp", "add",
                  "send", "sendmask", "head", "combine", "sample", "bcast", "end"}
            thereR == IF pc[r] = "send" /\ SendsMask(r) THEN "sendmask" ELSE "sample"
            thereQ == IF pc[q] = "recv" /\ ReceivesMask(q) THEN "recvmask" ELSE "layer"
            given == IF pc[r] = "send" THEN hid[r] ELSE NoHidden
            shared == IF pc[r] = "sendmask" THEN mask[r] ELSE Garbage
<1>1. /\ q \in Rank
      /\ pc' = [pc EXCEPT ![r] = thereR, ![q] = thereQ]
      /\ hid' = [hid EXCEPT ![q] = given] \/ hid' = hid
      /\ mask' = [mask EXCEPT ![q] = shared] \/ mask' = mask
      /\ have' = [have EXCEPT ![q] = TRUE] \/ have' = have
      /\ UNCHANGED <<cfg, part, toks, rows, layer, calls, pick>>
  BY DEF Transfer
<1>2. /\ pc \in [Rank -> P] /\ hid \in [Rank -> H] /\ mask \in [Rank -> M] /\ have \in [Rank -> BOOLEAN]
      /\ Rank' = Rank
  BY <1>1, Static DEF TypeOK
<1>3. thereR \in P /\ thereQ \in P /\ given \in H /\ shared \in M
  <2>1. NoHidden \in H
    BY EmptySeq DEF NoHidden
  <2>2. given \in H
    <3>. HIDE DEF H
    <3>. QED
      BY <1>2, <2>1
  <2>. QED
    BY <1>2, <2>2
<1>. HIDE DEF P, H, M, thereR, thereQ, given, shared, q
<1>4. /\ pc' \in [Rank -> P] /\ hid' \in [Rank -> H] /\ mask' \in [Rank -> M]
      /\ have' \in [Rank -> BOOLEAN]
  <2>1. pc' \in [Rank -> P]
    BY <1>1, <1>2, <1>3
  <2>2. hid' \in [Rank -> H]
    BY <1>1, <1>2, <1>3
  <2>3. mask' \in [Rank -> M]
    BY <1>1, <1>2, <1>3
  <2>4. have' \in [Rank -> BOOLEAN]
    BY <1>1, <1>2, <1>3
  <2>. QED
    BY <2>1, <2>2, <2>3, <2>4
<1>. QED
  BY <1>1, <1>2, <1>4, LayerStays DEF TypeOK, P, H, M

LEMMA TransferStreams ==
  ASSUME Streams, NEW r \in Rank, Transfer(r)
  PROVE  Streams'
<1>0. PICK q \in Rank : q = NextRank(r)
  BY TransferFacts DEF Streams
<1>1. /\ TypeOK /\ TypeOK' /\ cfg' = cfg /\ Rank' = Rank /\ At(r) /\ At(q) /\ q \in Rank /\ q # r
      /\ cfg \in Configs /\ ~Last(r)
      /\ UNCHANGED <<cfg, part, toks, rows, layer, calls, pick>>
  BY <1>0, TransferFacts, TransferType DEF Streams, TypeOK
<1>2. /\ pc[r] \in {"send", "sendmask"} /\ pc[q] \in {"recv", "recvmask"}
      /\ pc'[r] \in {"sendmask", "sample"} /\ pc'[q] \in {"recvmask", "layer"}
      /\ \A x \in Rank \ {r, q} : pc'[x] = pc[x]
      /\ \A x \in Rank \ {q} : hid'[x] = hid[x]
      /\ hid'[q] \in {hid[q], hid[r], NoHidden}
  BY <1>0, <1>1, TransferFacts
<1>3. \A x \in Rank : Grows(x)
  BY <1>1, Quiet
<1>4. \A x \in Rank : Root(x) \in Rank
  BY <1>1, StageMates
<1>5. ASSUME NEW x \in Rank \ {r, q}
      PROVE  At(x)'
  <2>1. Same(x)
    BY <1>1, <1>2, <1>5 DEF Same
  <2>. QED
    BY <1>1, <1>3, <1>4, <2>1, OtherStays
<1>6. At(r)'
  <2>1. BoundsAt(r)'
    BY <1>1, <1>2, Static DEF At, BoundsAt
  <2>2. PlacedAt(r)'
    <3>1. HeadCalls(r) = 0 /\ 2 * Count(r) + 0 = 2 * Count(r)
      BY <1>1, RankTypes DEF HeadCalls
    <3>2. InPass(r) = 2 * Count(r) /\ InPass(r)' = 2 * Count(r) /\ Passed(r)' = Passed(r)
      BY <1>1, <1>2, <3>1, Static DEF InPass, Passed
    <3>. QED
      BY <1>1, <1>2, <3>2, Static DEF At, PlacedAt
  <2>3. SampledAt(r)'
    BY <1>1, Static DEF At, SampledAt
  <2>4. StreamAt(r)'
    BY <1>1, <1>3, <1>4, StreamStays
  <2>. QED
    BY <2>1, <2>2, <2>3, <2>4 DEF At
<1>7. At(q)'
  <2>1. Len(hid'[q].toks) <= Len(Tokens)
    <3>1. Len(NoHidden.toks) <= Len(Tokens)
      BY Sizes, EmptySeq DEF NoHidden
    <3>2. Len(hid[q].toks) <= Len(Tokens) /\ Len(hid[r].toks) <= Len(Tokens)
      BY <1>1 DEF At, BoundsAt
    <3>. QED
      BY <1>2, <3>1, <3>2
  <2>2. BoundsAt(q)'
    BY <1>1, <1>2, <2>1, Static DEF At, BoundsAt
  <2>3. PlacedAt(q)'
    <3>1. layer[q] = 0
      BY <1>1, <1>2 DEF At, BoundsAt
    <3>2. InPass(q) = 0 /\ InPass(q)' = 0 /\ Passed(q)' = Passed(q)
      BY <1>1, <1>2, <3>1 DEF InPass, Passed
    <3>. QED
      BY <1>1, <1>2, <3>2, Static DEF At, PlacedAt
  <2>4. SampledAt(q)'
    BY <1>1, Static DEF At, SampledAt
  <2>5. StreamAt(q)'
    BY <1>1, <1>3, <1>4, StreamStays
  <2>. QED
    BY <2>2, <2>3, <2>4, <2>5 DEF At
<1>. QED
  <2>. SUFFICES ASSUME NEW x \in Rank PROVE At(x)'
    BY <1>1 DEF Streams
  <2>. QED
    BY <1>5, <1>6, <1>7

LEMMA StreamsStep ==
  ASSUME Streams, [Next]_vars
  PROVE  Streams'
<1>1. CASE UNCHANGED vars
  <2>1. cfg' = cfg /\ Rank' = Rank /\ TypeOK' /\ cfg \in Configs
    BY <1>1, LayerStays, Static DEF vars, Streams, TypeOK
  <2>2. \A q \in Rank : Same(q) /\ Grows(q) /\ Root(q) \in Rank
    BY <1>1, <2>1, Quiet, StageMates DEF Same, vars, Streams
  <2>3. \A q \in Rank : At(q)'
    BY <2>1, <2>2, OtherStays
  <2>. QED
    BY <2>1, <2>3 DEF Streams
<1>2. ASSUME NEW r \in Rank, Step(r) PROVE Streams'
  BY <1>2, LoadStreams, StartPassStreams, TransferStreams, AttentionStreams, MlpStreams,
     LayerDoneStreams, StackDoneStreams, LmHeadStreams, CombineStreams, NextGivenStreams,
     SampleStreams, BcastStreams DEF Step
<1>. QED
  BY <1>1, <1>2 DEF Next

LEMMA AlwaysStreams == Spec => []Streams
<1>1. Init => Streams
  BY StreamsInit
<1>2. Streams /\ [Next]_vars => Streams'
  BY StreamsStep
<1>. QED
  BY <1>1, <1>2, PTL DEF Spec

\* Every variable keeps its type: no rank counts more layers than its stage has, runs
\* more tokens than there are, or picks what is not a token.
THEOREM TypesHold == Spec => []TypeOK
<1>1. Streams => TypeOK
  BY DEF Streams
<1>. QED
  BY <1>1, AlwaysStreams, PTL

\* Mates have equal tokens: those given, or what the root gave to the broadcasts.
LEMMA MatesEqual ==
  ASSUME Streams, NEW r \in Rank, NEW q \in Stage(r), NEW i \in DOMAIN toks[r] \cap DOMAIN toks[q]
  PROVE  toks[r][i] = toks[q][i]
<1>1. /\ q \in Rank /\ Root(q) = Root(r) /\ Count(q) = Count(r) /\ (Last(q) <=> Last(r))
      /\ StreamAt(r) /\ StreamAt(q)
  BY StageMates DEF Streams, At, TypeOK
<1>2. PassCalls(q) = PassCalls(r)
  BY <1>1 DEF PassCalls, HeadCalls
<1>3. /\ toks[r] \in Seq(Token) /\ toks[q] \in Seq(Token)
      /\ Len(toks[r]) \in Nat /\ Len(toks[q]) \in Nat /\ PromptLen \in Nat
  BY <1>1, RankTypes, Sizes DEF Streams
<1>4. i \in 1 .. Len(toks[r]) /\ i \in 1 .. Len(toks[q])
  BY <1>3, LenProperties
<1>5. CASE cfg.mode = "given" \/ i <= PromptLen
  <2>1. i \in 1 .. PromptLen \/ cfg.mode = "given"
    BY <1>3, <1>4, <1>5
  <2>. QED
    BY <1>1, <1>4, <2>1 DEF StreamAt
<1>6. CASE cfg.mode # "given" /\ ~(i <= PromptLen)
  <2>. DEFINE k == i - PromptLen
  <2>1. /\ k \in 1 .. Len(toks[r]) - PromptLen /\ k \in 1 .. Len(toks[q]) - PromptLen
        /\ PromptLen + k = i
    <3>1. PICK m \in Nat, n \in Nat, p \in Nat : m = Len(toks[r]) /\ n = Len(toks[q]) /\ p = PromptLen
      BY <1>3
    <3>2. i \in 1 .. m /\ i \in 1 .. n /\ ~(i <= p)
      BY <1>4, <1>6, <3>1
    <3>3. i - p \in 1 .. m - p /\ i - p \in 1 .. n - p /\ p + (i - p) = i
      BY <3>2
    <3>. QED
      BY <3>1, <3>3
  <2>. HIDE DEF k
  <2>. QED
    BY <1>1, <1>2, <1>6, <2>1 DEF StreamAt
<1>. QED
  BY <1>5, <1>6

\* The ranks of a stage decode one sequence: each token of any of them is what the root
\* of the stage gave to the broadcast of that pass, which every rank finds at the same
\* place in its order of calls.
THEOREM StagesInLockstep == Spec => []StageInLockstep
<1>1. Streams => StageInLockstep
  BY MatesEqual DEF StageInLockstep
<1>. QED
  BY <1>1, AlwaysStreams, PTL

-----------------------------------------------------------------------------
(* What each action does to the rank that takes it *)

\* What a step of another rank leaves alone.
Idle(q) ==
  /\ part'[q] = part[q] /\ pc'[q] = pc[q] /\ toks'[q] = toks[q] /\ rows'[q] = rows[q]
  /\ layer'[q] = layer[q] /\ hid'[q] = hid[q] /\ mask'[q] = mask[q] /\ have'[q] = have[q]
  /\ calls'[q] = calls[q] /\ pick'[q] = pick[q]

LEMMA Domains ==
  ASSUME TypeOK
  PROVE  /\ DOMAIN part = Rank /\ DOMAIN pc = Rank /\ DOMAIN toks = Rank /\ DOMAIN rows = Rank
         /\ DOMAIN layer = Rank /\ DOMAIN hid = Rank /\ DOMAIN mask = Rank /\ DOMAIN have = Rank
         /\ DOMAIN calls = Rank /\ DOMAIN pick = Rank
BY DEF TypeOK

\* All actions but Transfer change the state of one rank.
LEMMA OthersIdle ==
  ASSUME Streams, NEW r \in Rank, Step(r), ~Transfer(r), NEW q \in Rank \ {r}
  PROVE  Idle(q) /\ cfg' = cfg
<1>1. /\ DOMAIN part = Rank /\ DOMAIN pc = Rank /\ DOMAIN toks = Rank /\ DOMAIN rows = Rank
      /\ DOMAIN layer = Rank /\ DOMAIN hid = Rank /\ DOMAIN mask = Rank /\ DOMAIN have = Rank
      /\ DOMAIN calls = Rank /\ DOMAIN pick = Rank
  BY Domains DEF Streams
<1>2. CASE Load(r)
  BY <1>1, <1>2 DEF Load, Goto, Idle
<1>3. CASE StartPass(r)
  BY <1>1, <1>3 DEF StartPass, Goto, Idle
<1>4. CASE Attention(r)
  BY <1>1, <1>4 DEF Attention, Goto, Idle, Enter
<1>5. CASE Mlp(r)
  BY <1>1, <1>5 DEF Mlp, Goto, Idle, Enter
<1>6. CASE LayerDone(r)
  BY <1>1, <1>6 DEF LayerDone, Goto, Idle
<1>7. CASE StackDone(r)
  BY <1>1, <1>7 DEF StackDone, Goto, Idle
<1>8. CASE LmHead(r)
  BY <1>1, <1>8 DEF LmHead, Goto, Idle, Enter
<1>9. CASE Combine(r)
  BY <1>1, <1>9 DEF Combine, Goto, Idle
<1>10. CASE NextGiven(r)
  BY <1>1, <1>10 DEF NextGiven, Goto, Idle
<1>11. CASE Sample(r)
  BY <1>1, <1>11 DEF Sample, Goto, Idle, Enter
<1>12. CASE Bcast(r)
  BY <1>1, <1>12 DEF Bcast, Goto, Idle
<1>. QED
  BY <1>2, <1>3, <1>4, <1>5, <1>6, <1>7, <1>8, <1>9, <1>10, <1>11, <1>12 DEF Step

LEMMA LoadAt ==
  ASSUME Streams, NEW r \in Rank, Load(r)
  PROVE  /\ pc[r] = "load" /\ pc'[r] \in {"dead", "begin"}
         /\ pc'[r] = "begin" => /\ Count(r) > 0 => Fits(r)
                                /\ part'[r] = IF Count(r) > 0 THEN ShardLayer(r) ELSE NoPart
         /\ UNCHANGED <<cfg, toks, rows, layer, hid, mask, have, calls, pick>>
<1>1. DOMAIN pc = Rank /\ DOMAIN part = Rank
  BY Domains DEF Streams
<1>. QED
  BY <1>1 DEF Load, Goto

LEMMA StartPassAt ==
  ASSUME Streams, NEW r \in Rank, StartPass(r)
  PROVE  /\ pc[r] = "begin" /\ layer'[r] = 0 /\ have'[r] = FALSE
         /\ IF First(r) THEN /\ hid'[r] = [toks |-> toks[r], done |-> <<>>]
                             /\ pc'[r] = "layer"
                        ELSE pc'[r] = "recv" /\ hid' = hid
         /\ UNCHANGED <<cfg, part, toks, rows, mask, calls, pick>>
<1>1. DOMAIN pc = Rank /\ DOMAIN layer = Rank /\ DOMAIN have = Rank /\ DOMAIN hid = Rank
  BY Domains DEF Streams
<1>. QED
  BY <1>1 DEF StartPass, Goto

LEMMA AttentionAt ==
  ASSUME Streams, NEW r \in Rank, Attention(r), NEW l, l = Begin(StageOf(r)) + layer[r]
  PROVE  /\ pc[r] = "layer" /\ pc'[r] = "mlp" /\ layer[r] < Count(r)
         /\ hid'[r].toks = hid[r].toks /\ hid'[r].done = Append(hid[r].done, Selection(r, l))
         /\ mask'[r] = IF Sparse(r) /\ l \in cfg.keys THEN l ELSE mask[r]
         /\ have'[r] = ((Sparse(r) /\ l \in cfg.keys) \/ have[r])
         /\ calls'[r] = Append(calls[r], <<>>)
         /\ UNCHANGED <<cfg, part, toks, rows, layer, pick>>
<1>1. DOMAIN pc = Rank /\ DOMAIN hid = Rank /\ DOMAIN mask = Rank /\ DOMAIN have = Rank /\ DOMAIN calls = Rank
  BY Domains DEF Streams
<1>2. hid[r] \in [toks : Seq(Token), done : Seq(-3 .. cfg.layers - 1)]
  BY RankTypes DEF Streams
<1>3. /\ pc[r] = "layer" /\ layer[r] < Count(r)
      /\ hid' = [hid EXCEPT ![r].done = Append(@, Selection(r, l))]
      /\ mask' = [mask EXCEPT ![r] = IF Sparse(r) /\ l \in cfg.keys THEN l ELSE @]
      /\ have' = [have EXCEPT ![r] = (Sparse(r) /\ l \in cfg.keys) \/ @]
      /\ Enter(r, <<>>) /\ Goto(r, "mlp")
      /\ UNCHANGED <<cfg, part, toks, rows, layer, pick>>
  BY DEF Attention
<1>4. pc'[r] = "mlp" /\ calls'[r] = Append(calls[r], <<>>)
  BY <1>1, <1>3 DEF Goto, Enter
<1>5. hid'[r].toks = hid[r].toks /\ hid'[r].done = Append(hid[r].done, Selection(r, l))
  BY <1>1, <1>2, <1>3
<1>6. /\ mask'[r] = IF Sparse(r) /\ l \in cfg.keys THEN l ELSE mask[r]
      /\ have'[r] = ((Sparse(r) /\ l \in cfg.keys) \/ have[r])
  BY <1>1, <1>3
<1>. QED
  BY <1>3, <1>4, <1>5, <1>6

LEMMA MlpAt ==
  ASSUME Streams, NEW r \in Rank, Mlp(r)
  PROVE  /\ pc[r] = "mlp" /\ pc'[r] = "add" /\ Met(r) /\ calls'[r] = Append(calls[r], <<>>)
         /\ UNCHANGED <<cfg, part, toks, rows, layer, hid, mask, have, pick>>
<1>1. DOMAIN pc = Rank /\ DOMAIN calls = Rank
  BY Domains DEF Streams
<1>. QED
  BY <1>1 DEF Mlp, Goto, Enter

LEMMA LayerDoneAt ==
  ASSUME Streams, NEW r \in Rank, LayerDone(r)
  PROVE  /\ pc[r] = "add" /\ pc'[r] = "layer" /\ layer'[r] = layer[r] + 1
         /\ UNCHANGED <<cfg, part, toks, rows, hid, mask, have, calls, pick>>
<1>1. DOMAIN pc = Rank /\ DOMAIN layer = Rank
  BY Domains DEF Streams
<1>. QED
  BY <1>1 DEF LayerDone, Goto

LEMMA StackDoneAt ==
  ASSUME Streams, NEW r \in Rank, StackDone(r)
  PROVE  /\ pc[r] = "layer" /\ layer[r] = Count(r) /\ rows'[r] = Len(toks[r])
         /\ pc'[r] = IF Last(r) THEN "head" ELSE "send"
         /\ UNCHANGED <<cfg, part, toks, layer, hid, mask, have, calls, pick>>
<1>1. DOMAIN pc = Rank /\ DOMAIN rows = Rank
  BY Domains DEF Streams
<1>. QED
  BY <1>1 DEF StackDone, Goto

LEMMA LmHeadAt ==
  ASSUME Streams, NEW r \in Rank, LmHead(r)
  PROVE  /\ pc[r] = "head"
         /\ IF Sharded
            THEN pc'[r] = "combine" /\ calls'[r] = Append(calls[r], hid[r].toks)
            ELSE /\ pc'[r] = "sample" /\ calls' = calls
                 /\ pick'[r] = FirstMax([t \in Token |-> Score(hid[r].toks, t)])
         /\ UNCHANGED <<cfg, part, toks, rows, layer, hid, mask, have>>
<1>1. DOMAIN pc = Rank /\ DOMAIN calls = Rank /\ DOMAIN pick = Rank
  BY Domains DEF Streams
<1>2. CASE Sharded
  BY <1>1, <1>2 DEF LmHead, Goto, Enter
<1>3. CASE ~Sharded
  <2>. DEFINE m == FirstMax([t \in Token |-> Score(hid[r].toks, t)])
  <2>1. pick' = [pick EXCEPT ![r] = m] /\ Goto(r, "sample") /\ calls' = calls
    BY <1>3 DEF LmHead
  <2>. HIDE DEF m
  <2>2. pick'[r] = m /\ pc'[r] = "sample"
    BY <1>1, <2>1 DEF Goto
  <2>. QED
    BY <1>3, <2>1, <2>2 DEF LmHead, m
<1>. QED
  BY <1>2, <1>3

LEMMA CombineAt ==
  ASSUME Streams, NEW r \in Rank, Combine(r)
  PROVE  /\ pc[r] = "combine" /\ pc'[r] = "sample" /\ Met(r)
         /\ pick'[r] = FromLogits(r) \/ pick'[r] = FromPairs(r)
         /\ UNCHANGED <<cfg, part, toks, rows, layer, hid, mask, have, calls>>
<1>1. DOMAIN pc = Rank /\ DOMAIN pick = Rank
  BY Domains DEF Streams
<1>. QED
  BY <1>1 DEF Combine, Goto

LEMMA NextGivenAt ==
  ASSUME Streams, NEW r \in Rank, NextGiven(r)
  PROVE  /\ pc[r] = "sample" /\ cfg.mode = "given"
         /\ IF Len(toks[r]) < Len(Tokens)
            THEN toks'[r] = Append(toks[r], Tokens[Len(toks[r]) + 1]) /\ pc'[r] = "begin"
            ELSE toks' = toks /\ pc'[r] = "end"
         /\ UNCHANGED <<cfg, part, rows, layer, hid, mask, have, calls, pick>>
<1>1. DOMAIN pc = Rank /\ DOMAIN toks = Rank
  BY Domains DEF Streams
<1>. QED
  BY <1>1 DEF NextGiven, Goto

LEMMA SampleAt ==
  ASSUME Streams, NEW r \in Rank, Sample(r)
  PROVE  /\ pc[r] = "sample" /\ pc'[r] = "bcast" /\ cfg.mode # "given"
         /\ \E t \in Token : calls'[r] = Append(calls[r], <<t>>)
         /\ UNCHANGED <<cfg, part, toks, rows, layer, hid, mask, have>>
<1>1. DOMAIN pc = Rank /\ DOMAIN calls = Rank
  BY Domains DEF Streams
<1>2. pick[r] \in Token /\ 0 \in Token
  BY RankTypes, Sizes DEF Streams
<1>. QED
  BY <1>1, <1>2 DEF Sample, Goto, Enter

LEMMA BcastAt ==
  ASSUME Streams, NEW r \in Rank, Bcast(r)
  PROVE  /\ pc[r] = "bcast"
         /\ \/ toks' = toks /\ pc'[r] = "end"
            \/ \E t \in Token : /\ toks'[r] = Append(toks[r], t)
                                /\ pc'[r] \in {"begin", "end"}
         /\ UNCHANGED <<cfg, part, rows, layer, hid, mask, have, calls, pick>>
<1>1. DOMAIN pc = Rank /\ DOMAIN toks = Rank
  BY Domains DEF Streams
<1>2. pc[r] = "bcast" /\ Met(r)
  BY DEF Bcast
<1>3. Broadcast(r) \in Token
  BY <1>2, BroadcastToken
<1>. QED
  BY <1>1, <1>3 DEF Bcast, Goto

-----------------------------------------------------------------------------
(* Passes, and the shards that are loaded when one comes by *)

\* Passes whose layers a rank has been through, and those it was given a hidden state for.
Done(r) == IF rows[r] = 0 THEN 0 ELSE rows[r] - PromptLen + 1
Working == {"layer", "mlp", "add"}
Got(r) == Done(r) + (IF pc[r] \in Working \cup {"recvmask"} THEN 1 ELSE 0)
Sent(r) == Done(r) - (IF pc[r] = "send" THEN 1 ELSE 0)

\* The layer a rank has come to.
Reached(r) == Begin(StageOf(r)) + layer[r] + (IF pc[r] \in {"mlp", "add"} THEN 1 ELSE 0)

Loading == {"load", "dead"}

PassAt(r) ==
  /\ rows[r] = 0 \/ rows[r] >= PromptLen
  /\ pc[r] \in Loading => rows[r] = 0
  /\ pc[r] \in Loading \cup {"begin", "recv", "recvmask"} \cup Working => Len(toks[r]) = PromptLen + Done(r)
  /\ pc[r] \in {"send", "sendmask", "head", "combine", "sample", "bcast"} => rows[r] = Len(toks[r])
  /\ pc[r] \in {"send", "sendmask", "head"} => layer[r] = Count(r)
  /\ pc[r] \notin Loading /\ Count(r) > 0 => Fits(r) /\ part[r] = ShardLayer(r)

\* A rank that was given a hidden state finds the stages before its own loaded, and
\* one that has been through a layer its own as well.
Loaded(q) == Count(q) > 0 => pc[q] \notin Loading

LoadsAt(r) ==
  /\ Got(r) > 0 => \A q \in Rank : StageOf(q) < StageOf(r) => Loaded(q)
  /\ Done(r) > 0 \/ (pc[r] \in Working /\ layer[r] > 0) => \A q \in Stage(r) : Loaded(q)

Passes == \A r \in Rank : PassAt(r) /\ LoadsAt(r)

LEMMA PassStatic ==
  ASSUME cfg' = cfg, NEW r, rows'[r] = rows[r]
  PROVE  /\ Done(r)' = Done(r) /\ (Fits(r)' <=> Fits(r)) /\ ShardLayer(r)' = ShardLayer(r)
BY DEF Done, Fits, ColumnsFit, RowsFit, ShardLayer, From, TpRank, Slice, Element, Scale, Group

LEMMA PassIdle ==
  ASSUME cfg' = cfg, NEW q, Idle(q)
  PROVE  /\ PassAt(q)' <=> PassAt(q)
         /\ Got(q)' = Got(q) /\ Sent(q)' = Sent(q) /\ Done(q)' = Done(q) /\ Reached(q)' = Reached(q)
         /\ Loaded(q)' <=> Loaded(q)
<1>1. /\ Done(q)' = Done(q) /\ (Fits(q)' <=> Fits(q)) /\ ShardLayer(q)' = ShardLayer(q)
      /\ Count(q)' = Count(q) /\ Begin(StageOf(q))' = Begin(StageOf(q))
  BY PassStatic, Static DEF Idle
<1>. QED
  BY <1>1 DEF Idle, PassAt, Got, Sent, Reached, Loaded

LEMMA DoneTypes ==
  ASSUME Streams, NEW r \in Rank, PassAt(r)
  PROVE  /\ Done(r) \in Nat /\ Got(r) \in Nat /\ Sent(r) \in Int /\ Reached(r) \in Nat
         /\ rows[r] \in Nat /\ Len(toks[r]) \in Nat /\ PromptLen \in Nat \ {0}
         /\ Done(r) = 0 <=> rows[r] = 0
         /\ rows[r] # 0 => PromptLen + Done(r) = rows[r] + 1
<1>1. /\ rows[r] \in Nat /\ Len(toks[r]) \in Nat /\ PromptLen \in Nat \ {0}
      /\ layer[r] \in Nat /\ Begin(StageOf(r)) \in Nat /\ (rows[r] = 0 \/ rows[r] >= PromptLen)
  BY RankTypes, Sizes DEF Streams, PassAt
<1>2. /\ Done(r) \in Nat /\ (Done(r) = 0 <=> rows[r] = 0)
      /\ rows[r] # 0 => PromptLen + Done(r) = rows[r] + 1
  BY <1>1 DEF Done
<1>. QED
  BY <1>1, <1>2 DEF Got, Sent, Reached

LEMMA PassSteps ==
  ASSUME Streams, NEW r \in Rank, Step(r), ~Transfer(r), PassAt(r)
  PROVE  PassAt(r)'
<1>1. /\ Done(r) \in Nat /\ rows[r] \in Nat /\ Len(toks[r]) \in Nat /\ PromptLen \in Nat \ {0}
      /\ Done(r) = 0 <=> rows[r] = 0
      /\ rows[r] # 0 => PromptLen + Done(r) = rows[r] + 1
      /\ BoundsAt(r) /\ TypeOK /\ toks[r] \in Seq(Token) /\ Count(r) \in Int
  BY DoneTypes, RankTypes DEF Streams, At
<1>2. ASSUME cfg' = cfg, rows'[r] = rows[r]
      PROVE  /\ Done(r)' = Done(r) /\ (Fits(r)' <=> Fits(r)) /\ ShardLayer(r)' = ShardLayer(r)
             /\ Count(r)' = Count(r)
  BY <1>2, PassStatic, Static
<1>3. CASE Load(r)
  <2>1. /\ pc[r] = "load" /\ pc'[r] \in {"dead", "begin"}
        /\ pc'[r] = "begin" => /\ Count(r) > 0 => Fits(r)
                               /\ part'[r] = IF Count(r) > 0 THEN ShardLayer(r) ELSE NoPart
        /\ UNCHANGED <<cfg, toks, rows, layer, hid, mask, have, calls, pick>>
    BY <1>3, LoadAt
  <2>. QED
    BY <1>2, <2>1 DEF PassAt, Loading, Working
<1>4. CASE StartPass(r)
  <2>1. /\ pc[r] = "begin" /\ pc'[r] \in {"layer", "recv"}
        /\ UNCHANGED <<cfg, part, toks, rows, mask, calls, pick>>
    BY <1>4, StartPassAt
  <2>. QED
    BY <1>2, <2>1 DEF PassAt, Loading, Working
<1>5. CASE Attention(r)
  <2>1. /\ pc[r] = "layer" /\ pc'[r] = "mlp" /\ UNCHANGED <<cfg, part, toks, rows, layer, pick>>
    BY <1>5, AttentionAt
  <2>. QED
    BY <1>2, <2>1 DEF PassAt, Loading, Working
<1>6. CASE Mlp(r)
  <2>1. /\ pc[r] = "mlp" /\ pc'[r] = "add"
        /\ UNCHANGED <<cfg, part, toks, rows, layer, hid, mask, have, pick>>
    BY <1>6, MlpAt
  <2>. QED
    BY <1>2, <2>1 DEF PassAt, Loading, Working
<1>7. CASE LayerDone(r)
  <2>1. /\ pc[r] = "add" /\ pc'[r] = "layer"
        /\ UNCHANGED <<cfg, part, toks, rows, hid, mask, have, calls, pick>>
    BY <1>7, LayerDoneAt
  <2>. QED
    BY <1>2, <2>1 DEF PassAt, Loading, Working
<1>8. CASE StackDone(r)
  <2>1. /\ pc[r] = "layer" /\ layer[r] = Count(r) /\ rows'[r] = Len(toks[r])
        /\ pc'[r] \in {"head", "send"}
        /\ UNCHANGED <<cfg, part, toks, layer, hid, mask, have, calls, pick>>
    BY <1>8, StackDoneAt
  <2>2. Len(toks[r]) >= PromptLen
    BY <1>1 DEF BoundsAt
  <2>3. /\ Fits(r)' <=> Fits(r) 
        /\ ShardLayer(r)' = ShardLayer(r) /\ Count(r)' = Count(r)
    BY <2>1, Static DEF Fits, ColumnsFit, RowsFit, ShardLayer, From, TpRank, Slice, Element, Scale, Group
  <2>. QED
    BY <2>1, <2>2, <2>3 DEF PassAt, Loading, Working
<1>9. CASE LmHead(r)
  <2>1. /\ pc[r] = "head" /\ pc'[r] \in {"combine", "sample"}
        /\ UNCHANGED <<cfg, part, toks, rows, layer, hid, mask, have>>
    BY <1>9, LmHeadAt
  <2>. QED
    BY <1>2, <2>1 DEF PassAt, Loading, Working
<1>10. CASE Combine(r)
  <2>1. /\ pc[r] = "combine" /\ pc'[r] = "sample"
        /\ UNCHANGED <<cfg, part, toks, rows, layer, hid, mask, have, calls>>
    BY <1>10, CombineAt
  <2>. QED
    BY <1>2, <2>1 DEF PassAt, Loading, Working
<1>11. CASE Sample(r)
  <2>1. /\ pc[r] = "sample" /\ pc'[r] = "bcast"
        /\ UNCHANGED <<cfg, part, toks, rows, layer, hid, mask, have>>
    BY <1>11, SampleAt
  <2>. QED
    BY <1>2, <2>1 DEF PassAt, Loading, Working
<1>12. CASE NextGiven(r) \/ Bcast(r)
  <2>1. /\ pc[r] \in {"sample", "bcast"}
        /\ \/ toks' = toks /\ pc'[r] = "end"
           \/ Len(toks'[r]) = Len(toks[r]) + 1 /\ pc'[r] \in {"begin", "end"}
        /\ UNCHANGED <<cfg, part, rows, layer, hid, mask, have, calls, pick>>
    <3>1. CASE Bcast(r)
      BY <1>1, <3>1, BcastAt, AppendProperties
    <3>2. CASE NextGiven(r)
      <4>1. Len(toks[r]) < Len(Tokens) => Tokens[Len(toks[r]) + 1] \in Token
        BY <1>1, Sizes, ElementOfSeq
      <4>. QED
        BY <1>1, <3>2, <4>1, NextGivenAt, AppendProperties
    <3>. QED
      BY <1>12, <3>1, <3>2
  <2>2. rows[r] = Len(toks[r]) /\ Len(toks[r]) >= PromptLen
    BY <1>1, <2>1 DEF PassAt, BoundsAt
  <2>3. Len(toks[r]) + 1 = PromptLen + Done(r)
    BY <1>1, <2>2
  <2>. QED
    BY <1>2, <2>1, <2>2, <2>3 DEF PassAt, Loading, Working
<1>. QED
  BY <1>3, <1>4, <1>5, <1>6, <1>7, <1>8, <1>9, <1>10, <1>11, <1>12 DEF Step


\* Where a step that is no transfer takes a rank.
LEMMA Moves ==
  ASSUME Streams, NEW r \in Rank, Step(r), ~Transfer(r), PassAt(r)
  PROVE  /\ cfg' = cfg
         /\ pc[r] \notin Loading => pc'[r] \notin Loading
         /\ \/ pc[r] = "load" /\ pc'[r] \in {"dead", "begin"} /\ rows'[r] = rows[r] /\ layer' = layer
            \/ pc[r] = "begin" /\ pc'[r] = "layer" /\ First(r) /\ rows' = rows /\ layer'[r] = 0
            \/ pc[r] = "begin" /\ pc'[r] = "recv" /\ rows' = rows /\ layer'[r] = 0
            \/ pc[r] = "layer" /\ pc'[r] = "mlp" /\ rows' = rows /\ layer' = layer
            \/ pc[r] = "mlp" /\ pc'[r] = "add" /\ rows' = rows /\ layer' = layer
            \/ pc[r] = "add" /\ pc'[r] = "layer" /\ rows' = rows /\ layer'[r] = layer[r] + 1 /\ Met(r)
            \/ /\ pc[r] = "layer" /\ pc'[r] = (IF Last(r) THEN "head" ELSE "send")
               /\ layer[r] = Count(r) /\ layer' = layer /\ Done(r)' = Done(r) + 1
            \/ /\ pc[r] \in {"head", "combine", "sample", "bcast"}
               /\ pc'[r] \in {"combine", "sample", "bcast", "begin", "end"}
               /\ rows' = rows /\ layer' = layer
<1>1. CASE Load(r)
  BY <1>1, LoadAt DEF Loading
<1>2. CASE StartPass(r)
  BY <1>2, StartPassAt DEF Loading
<1>3. CASE Attention(r)
  BY <1>3, AttentionAt DEF Loading
<1>4. CASE Mlp(r)
  BY <1>4, MlpAt DEF Loading
<1>5. CASE LayerDone(r)
  <2>1. Met(r)
    BY <1>5 DEF LayerDone
  <2>. QED
    BY <1>5, <2>1, LayerDoneAt DEF Loading
<1>6. CASE StackDone(r)
  <2>1. /\ pc[r] = "layer" /\ layer[r] = Count(r) /\ rows'[r] = Len(toks[r])
        /\ pc'[r] = IF Last(r) THEN "head" ELSE "send"
        /\ UNCHANGED <<cfg, part, toks, layer, hid, mask, have, calls, pick>>
    BY <1>6, StackDoneAt
  <2>2. Len(toks[r]) = PromptLen + Done(r) /\ Len(toks[r]) >= PromptLen
    BY <2>1 DEF PassAt, Working, Streams, At, BoundsAt
  <2>3. Done(r)' = Done(r) + 1
    BY <2>1, <2>2, DoneTypes DEF Done
  <2>. QED
    BY <2>1, <2>3 DEF Loading
<1>7. CASE LmHead(r)
  BY <1>7, LmHeadAt DEF Loading
<1>8. CASE Combine(r)
  BY <1>8, CombineAt DEF Loading
<1>9. CASE NextGiven(r)
  BY <1>9, NextGivenAt DEF Loading
<1>10. CASE Sample(r)
  BY <1>10, SampleAt DEF Loading
<1>11. CASE Bcast(r)
  BY <1>11, BcastAt DEF Loading
<1>. QED
  BY <1>1, <1>2, <1>3, <1>4, <1>5, <1>6, <1>7, <1>8, <1>9, <1>10, <1>11 DEF Step

LEMMA StayLoaded ==
  ASSUME Streams, Passes, NEW r \in Rank, Step(r), NEW q \in Rank, Loaded(q)
  PROVE  Loaded(q)'
<1>1. CASE Transfer(r)
  <2>1. /\ cfg' = cfg /\ pc'[r] \notin Loading /\ pc'[NextRank(r)] \notin Loading
        /\ \A x \in Rank \ {r, NextRank(r)} : pc'[x] = pc[x]
    BY <1>1, TransferFacts DEF Streams, Loading
  <2>. QED
    BY <2>1, Static DEF Loaded
<1>2. CASE ~Transfer(r) /\ q # r
  BY <1>2, OthersIdle, PassIdle
<1>3. CASE ~Transfer(r) /\ q = r
  BY <1>3, Moves, Static DEF Loaded, Passes
<1>. QED
  BY <1>1, <1>2, <1>3

\* A rank that has left a collective finds its stage loaded.
LEMMA MetLoaded ==
  ASSUME Streams, NEW r \in Rank, pc[r] = "add", Met(r), NEW q \in Stage(r)
  PROVE  Loaded(q)
<1>1. q \in Rank /\ Len(calls[q]) >= Len(calls[r]) /\ cfg \in Configs
  BY StageMates DEF Met, Streams, TypeOK
<1>2. Len(calls[r]) >= 2
  <2>1. /\ Passed(r) * PassCalls(r) \in Nat /\ layer[r] \in Nat
        /\ Len(calls[r]) = Passed(r) * PassCalls(r) + InPass(r)
    BY Place
  <2>2. InPass(r) = 2 * layer[r] + 2
    BY DEF InPass
  <2>. QED
    BY <2>1, <2>2
<1>3. ASSUME pc[q] \in Loading PROVE FALSE
  <2>1. Passed(q) = 0 /\ InPass(q) = 0 /\ Len(calls[q]) = Passed(q) * PassCalls(q) + InPass(q)
    BY <1>1, <1>3, Sizes DEF Streams, At, BoundsAt, PlacedAt, Passed, InPass, Loading
  <2>2. PassCalls(q) \in Int
    BY <1>1, RankTypes DEF Streams
  <2>3. Len(calls[q]) = 0
    BY <2>1, <2>2
  <2>. QED
    BY <1>1, <1>2, <2>3, RankTypes DEF Streams
<1>. QED
  BY <1>3 DEF Loaded


LEMMA TransferPasses ==
  ASSUME Streams, Passes, NEW r \in Rank, Transfer(r)
  PROVE  \A x \in Rank : PassAt(x)' /\ LoadsAt(x)'
<1>1. PICK q \in Rank : q = NextRank(r)
  BY TransferFacts DEF Streams
<1>2. /\ cfg' = cfg /\ Rank' = Rank /\ q # r /\ StageOf(q) = StageOf(r) + 1 /\ cfg \in Configs
      /\ pc[r] \in {"send", "sendmask"} /\ pc[q] \in {"recv", "recvmask"}
      /\ pc'[r] \in {"sendmask", "sample"} /\ pc'[q] \in {"recvmask", "layer"}
      /\ \A x \in Rank \ {r, q} : pc'[x] = pc[x]
      /\ UNCHANGED <<cfg, part, toks, rows, layer, calls, pick>>
  BY <1>1, TransferFacts, Hop DEF Streams, TypeOK
<1>3. \A x \in Rank : /\ Done(x)' = Done(x) /\ (Fits(x)' <=> Fits(x)) /\ ShardLayer(x)' = ShardLayer(x)
                      /\ Count(x)' = Count(x) /\ StageOf(x)' = StageOf(x) /\ Stage(x)' = Stage(x)
                      /\ Stage(x) \subseteq Rank
  BY <1>2, PassStatic, Static, StageMates
<1>4. ASSUME NEW x \in Rank PROVE PassAt(x)'
  <2>1. PassAt(x)
    BY DEF Passes
  <2>2. CASE x = r
    BY <1>2, <1>3, <2>1, <2>2 DEF PassAt, Loading, Working
  <2>3. CASE x = q
    BY <1>2, <1>3, <2>1, <2>3 DEF PassAt, Loading, Working
  <2>4. CASE x # r /\ x # q
    BY <1>2, <1>3, <2>1, <2>4 DEF PassAt
  <2>. QED
    BY <2>2, <2>3, <2>4
<1>5. ASSUME NEW x \in Rank, Loaded(x) PROVE Loaded(x)'
  BY <1>5, StayLoaded DEF Step
<1>6. ASSUME NEW x \in Rank, \A y \in Rank : StageOf(y) < StageOf(x) => Loaded(y)
      PROVE  (\A y \in Rank : StageOf(y) < StageOf(x) => Loaded(y))'
  BY <1>2, <1>3, <1>5, <1>6
<1>7. ASSUME NEW x \in Rank, \A y \in Stage(x) : Loaded(y)
      PROVE  (\A y \in Stage(x) : Loaded(y))'
  BY <1>3, <1>5, <1>7
<1>8. ASSUME NEW x \in Rank PROVE LoadsAt(x)'
  <2>1. LoadsAt(x) /\ Done(x) \in Nat
    BY DoneTypes DEF Passes
  <2>2. CASE x # q
    <3>1. Got(x)' = Got(x) /\ (pc'[x] \in Working <=> pc[x] \in Working)
      BY <1>2, <1>3, <2>2 DEF Got, Working
    <3>. QED
      BY <1>2, <1>3, <1>6, <1>7, <2>1, <3>1 DEF LoadsAt
  <2>3. CASE x = q
    <3>1. layer'[x] = 0
      BY <1>2, <2>3 DEF Streams, At, BoundsAt
    <3>2. (\A y \in Stage(x) : Loaded(y))' \/ ~(Done(x)' > 0)
      BY <1>3, <1>7, <2>1 DEF LoadsAt
    <3>3. \A y \in Rank : StageOf(y) < StageOf(x) => Loaded(y)
      <4>1. Done(r) > 0 /\ Done(r) \in Nat
        <5>1. /\ rows[r] = Len(toks[r]) /\ Len(toks[r]) >= PromptLen
              /\ Done(r) \in Nat /\ rows[r] \in Nat /\ Len(toks[r]) \in Nat /\ PromptLen \in Nat \ {0}
              /\ Done(r) = 0 <=> rows[r] = 0
          BY <1>2, DoneTypes DEF Passes, PassAt, Streams, At, BoundsAt
        <5>. QED
          BY <5>1
      <4>2. Got(r) > 0
        BY <4>1 DEF Got
      <4>3. /\ \A y \in Rank : StageOf(y) < StageOf(r) => Loaded(y)
            /\ \A y \in Stage(r) : Loaded(y)
        BY <4>1, <4>2 DEF Passes, LoadsAt
      <4>4. ASSUME NEW y \in Rank, StageOf(y) < StageOf(x) PROVE Loaded(y)
        <5>1. StageOf(y) \in Int /\ StageOf(r) \in Int
          BY <1>2, RankPlace
        <5>2. StageOf(y) < StageOf(r) \/ StageOf(y) = StageOf(r)
          BY <1>2, <2>3, <4>4, <5>1
        <5>. QED
          BY <4>3, <5>2 DEF Stage
      <4>. QED
        BY <4>4
    <3>. QED
      BY <1>2, <1>6, <3>1, <3>2, <3>3 DEF LoadsAt
  <2>. QED
    BY <2>2, <2>3
<1>. QED
  BY <1>4, <1>8


LEMMA OwnLoads ==
  ASSUME Streams, Passes, NEW r \in Rank, Step(r), ~Transfer(r)
  PROVE  LoadsAt(r)'
<1>1. /\ PassAt(r) /\ LoadsAt(r) /\ cfg \in Configs /\ cfg' = cfg /\ Rank' = Rank
      /\ \A x \in Rank : StageOf(x)' = StageOf(x) /\ Stage(x)' = Stage(x) /\ Stage(x) \subseteq Rank
  BY Moves, Static, StageMates DEF Passes, Streams, TypeOK
<1>2. /\ Done(r) \in Nat /\ layer[r] \in Nat /\ (rows'[r] = rows[r] => Done(r)' = Done(r))
      /\ Count(r) \in Int
  BY <1>1, DoneTypes, RankTypes, PassStatic DEF Streams
<1>3. ASSUME Got(r)' > 0
      PROVE  \A y \in Rank : StageOf(y) < StageOf(r) => Loaded(y)
  <2>1. CASE First(r)
    <3>1. \A y \in Rank : StageOf(y) \in Nat
      BY <1>1, RankPlace, ConfigFacts
    <3>. QED
      BY <2>1, <3>1 DEF First
  <2>2. CASE ~First(r)
    <3>1. Got(r)' = Got(r)
      BY <1>1, <1>2, <2>2, Moves DEF Got, Working
    <3>. QED
      BY <1>1, <1>3, <3>1 DEF LoadsAt
  <2>. QED
    BY <2>1, <2>2
<1>4. ASSUME Done(r)' > 0 \/ (pc'[r] \in Working /\ layer'[r] > 0)
      PROVE  \A y \in Stage(r) : Loaded(y)
  <2>1. CASE pc[r] = "add"
    <3>1. Met(r)
      BY <1>1, <2>1, Moves DEF Loading
    <3>. QED
      BY <2>1, <3>1, MetLoaded
  <2>2. CASE Done(r) > 0 \/ (pc[r] \in Working /\ layer[r] > 0)
    BY <1>1, <2>2 DEF LoadsAt
  <2>3. CASE pc[r] # "add" /\ ~(Done(r) > 0 \/ (pc[r] \in Working /\ layer[r] > 0))
    <3>1. Done(r) = 0 /\ (pc[r] \in Working => layer[r] = 0)
      BY <1>2, <2>3
    <3>2. pc[r] = "layer" /\ layer[r] = Count(r)
      BY <1>1, <1>2, <1>4, <2>3, <3>1, Moves DEF Working
    <3>3. Count(r) = 0
      BY <3>1, <3>2 DEF Working
    <3>. QED
      BY <1>1, <3>3, StageMates DEF Loaded
  <2>. QED
    BY <2>1, <2>2, <2>3
<1>5. \A y \in Rank : Loaded(y) => Loaded(y)'
  BY StayLoaded
<1>. QED
  BY <1>1, <1>3, <1>4, <1>5 DEF LoadsAt

LEMMA PassesStep ==
  ASSUME Streams, Passes, [Next]_vars
  PROVE  Passes'
<1>1. ASSUME NEW r \in Rank, Step(r), ~Transfer(r)
      PROVE  Passes'
  <2>1. cfg' = cfg /\ Rank' = Rank /\ cfg \in Configs /\ PassAt(r)
    BY <1>1, Moves, Static DEF Passes, Streams, TypeOK
  <2>2. PassAt(r)' /\ LoadsAt(r)'
    BY <1>1, <2>1, PassSteps, OwnLoads
  <2>3. ASSUME NEW x \in Rank \ {r} PROVE PassAt(x)' /\ LoadsAt(x)'
    <3>1. Idle(x) /\ PassAt(x) /\ LoadsAt(x)
      BY <1>1, OthersIdle DEF Passes
    <3>2. PassAt(x)' /\ Got(x)' = Got(x) /\ Done(x)' = Done(x) /\ pc'[x] = pc[x] /\ layer'[x] = layer[x]
      BY <2>1, <3>1, PassIdle DEF Idle
    <3>3. \A y \in Rank : Loaded(y) => Loaded(y)'
      BY <1>1, StayLoaded
    <3>4. \A y \in Rank : StageOf(y)' = StageOf(y) /\ Stage(y)' = Stage(y) /\ Stage(y) \subseteq Rank
      BY <2>1, Static, StageMates
    <3>. QED
      BY <2>1, <3>1, <3>2, <3>3, <3>4 DEF LoadsAt
  <2>. QED
    BY <2>1, <2>2, <2>3 DEF Passes
<1>2. ASSUME NEW r \in Rank, Transfer(r)
      PROVE  Passes'
  <2>1. Rank' = Rank
    BY <1>2, TransferFacts DEF Streams
  <2>. QED
    BY <1>2, <2>1, TransferPasses DEF Passes
<1>3. CASE UNCHANGED vars
  <2>1. cfg' = cfg /\ Rank' = Rank /\ \A x \in Rank : Idle(x) /\ Stage(x) \subseteq Rank /\ Stage(x)' = Stage(x)
    BY <1>3, Static, StageMates DEF vars, Idle, Streams, TypeOK
  <2>2. \A x \in Rank : /\ PassAt(x)' <=> PassAt(x)
                        /\ Got(x)' = Got(x) /\ Done(x)' = Done(x) /\ (Loaded(x)' <=> Loaded(x))
                        /\ StageOf(x)' = StageOf(x) /\ pc'[x] = pc[x] /\ layer'[x] = layer[x]
    BY <2>1, PassIdle, Static DEF Idle
  <2>. QED
    BY <2>1, <2>2 DEF Passes, LoadsAt
<1>. QED
  BY <1>1, <1>2, <1>3 DEF Next

LEMMA AlwaysPasses == Spec => []Passes
<1>1. Init => Passes
  <2>. SUFFICES ASSUME Init, NEW r \in Rank PROVE PassAt(r) /\ LoadsAt(r)
    BY DEF Passes
  <2>1. /\ pc[r] = "load" /\ rows[r] = 0 /\ toks[r] = SubSeq(Tokens, 1, PromptLen)
    BY DEF Init
  <2>2. Len(toks[r]) = PromptLen /\ PromptLen \in Nat
    BY <2>1, Sizes
  <2>. QED
    BY <2>1, <2>2 DEF PassAt, LoadsAt, Got, Done, Working, Loading
<1>2. Streams /\ Passes /\ [Next]_vars => Passes'
  BY PassesStep
<1>. QED
  BY <1>1, <1>2, AlwaysStreams, PTL DEF Spec


-----------------------------------------------------------------------------
(* Shards that fit make up whole linears *)

LEMMA SumOfQuotients ==
  ASSUME NEW a \in Nat, NEW b \in Nat, NEW u \in Nat \ {0}, a % u = 0
  PROVE  /\ (a + b) \div u = (a \div u) + (b \div u)
         /\ (a \div u + b \div u) * u + (b % u) = a + b
<1>1. /\ a \div u \in Nat /\ a = (a \div u) * u
      /\ b \div u \in Nat /\ b % u \in 0 .. u - 1 /\ b = (b \div u) * u + (b % u)
  BY Divided
<1>2. PICK m \in Nat, n \in Nat, k \in 0 .. u - 1 : m = a \div u /\ n = b \div u /\ k = b % u
  BY <1>1
<1>3. a = m * u /\ b = n * u + k
  BY <1>1, <1>2
<1>4. (m + n) * u + k = a + b
  BY <1>3
<1>5. ((m + n) * u + k) \div u = m + n
  BY DividesUniquely
<1>. QED
  BY <1>2, <1>4, <1>5

\* What is left over is a multiple of the unit and smaller than it.
LEMMA NothingLeft ==
  ASSUME NEW a \in Nat, NEW b \in Nat, NEW t \in Nat, NEW u \in Nat \ {0},
         NEW rest \in Nat, rest < u, a * u = t * (b * u) + rest
  PROVE  rest = 0
<1>1. t * b \in Nat /\ t * (b * u) = (t * b) * u
  OBVIOUS
<1>2. PICK c \in Nat : c = t * b
  BY <1>1
<1>3. a * u = c * u + rest
  BY <1>1, <1>2
<1>4. CASE a <= c
  <2>1. a * u <= c * u /\ a * u \in Int /\ c * u \in Int
    BY <1>4, TimesMonotone
  <2>. QED
    BY <1>3, <2>1
<1>5. CASE c + 1 <= a
  <2>1. (c + 1) * u <= a * u /\ (c + 1) * u = c * u + u /\ c * u \in Int /\ a * u \in Int
    BY <1>5, TimesMonotone
  <2>. QED
    BY <1>3, <2>1
<1>. QED
  BY <1>4, <1>5

LEMMA SlicesCover ==
  ASSUME cfg \in Configs, NEW r \in Rank, Fits(r)
  PROVE  cfg.inter = cfg.tp * Slice
<1>1. /\ cfg.tp \in Nat \ {0} /\ cfg.inter \in Nat \ {0} /\ cfg.unit \in Nat \ {0}
      /\ cfg.form = "gguf" => cfg.inter % cfg.unit = 0 /\ cfg.tp <= cfg.unit
  BY ConfigFacts
<1>2. /\ Slice \in Nat /\ cfg.inter % cfg.tp \in 0 .. cfg.tp - 1
      /\ cfg.inter = Slice * cfg.tp + (cfg.inter % cfg.tp)
  BY <1>1, Divided DEF Slice
<1>3. CASE cfg.inter % cfg.tp = 0
  BY <1>1, <1>2, <1>3
<1>4. CASE cfg.inter % cfg.tp # 0
  <2>1. cfg.tp # 1 /\ cfg.form = "gguf" /\ Slice % cfg.unit = 0
    BY <1>1, <1>2, <1>4 DEF Fits, ColumnsFit, RowsFit
  <2>2. PICK a \in Nat, b \in Nat : a = cfg.inter \div cfg.unit /\ b = Slice \div cfg.unit
    BY <1>1, <1>2, Divided
  <2>3. PICK t \in Nat, u \in Nat \ {0}, s \in Nat, n \in Nat, rest \in Nat :
           t = cfg.tp /\ u = cfg.unit /\ s = Slice /\ n = cfg.inter /\ rest = cfg.inter % cfg.tp
    <3>1. (cfg.inter % cfg.tp) \in Nat
      BY <1>1, <1>2
    <3>. QED
      BY <1>1, <1>2, <3>1
  <2>4. n = a * u /\ s = b * u
    <3>1. n = (n \div u) * u + (n % u) /\ s = (s \div u) * u + (s % u)
      BY Divided
    <3>2. (n % u) = 0 /\ (s % u) = 0 /\ n \div u = a /\ s \div u = b
      BY <1>1, <2>1, <2>2, <2>3
    <3>. QED
      BY <3>1, <3>2
  <2>5. n = t * s + rest /\ rest < u
    BY <1>1, <1>2, <2>1, <2>3
  <2>6. rest = 0
    BY <2>4, <2>5, NothingLeft
  <2>. QED
    BY <1>4, <2>3, <2>6
<1>. QED
  BY <1>3, <1>4

\* The product of the i-th output with the i-th input, under its own scale.
Product(i) == [up |-> i, down |-> i, scale |-> Group(i)]

LEMMA SliceProducts ==
  ASSUME cfg \in Configs, NEW r \in Rank, Fits(r), NEW j \in 1 .. Slice
  PROVE  ShardLayer(r).rows[j] = Product(From(r) + (j - 1)) /\ From(r) + (j - 1) \in Nat
<1>1. /\ cfg.unit \in Nat \ {0} /\ Slice \in Nat /\ From(r) \in Nat
      /\ From(r) = TpRank(r) * Slice /\ TpRank(r) \in Nat
      /\ cfg.form \in {"f32", "int4", "gguf"}
  BY ConfigFacts, SliceFacts
<1>2. PICK a \in Nat, b \in Nat, u \in Nat \ {0} : a = From(r) /\ b = j - 1 /\ u = cfg.unit
  <2>1. j - 1 \in Nat
    BY <1>1
  <2>. QED
    BY <1>1, <2>1
<1>3. a + b \in Nat /\ From(r) + j - 1 = a + b
  BY <1>1, <1>2
<1>4. ShardLayer(r).rows[j] = [up |-> a + b, down |-> Element(r, b), scale |-> Scale(r, b)]
  BY <1>2, <1>3 DEF ShardLayer
<1>5. cfg.form # "f32" => a % u = 0
  <2>1. CASE cfg.tp = 1
    <3>1. TpRank(r) = 0
      BY <2>1, RankPlace
    <3>2. a = 0 /\ a % u = 0
      BY <1>1, <1>2, <3>1
    <3>. QED
      BY <3>2
  <2>2. CASE cfg.tp # 1
    BY <1>2, <2>2 DEF Fits, RowsFit
  <2>. QED
    BY <2>1, <2>2
<1>6. Scale(r, b) = Group(a + b)
  <2>1. CASE cfg.form = "f32"
    BY <2>1 DEF Scale, Group
  <2>2. CASE cfg.form # "f32"
    <3>1. (a + b) \div u = (a \div u) + (b \div u)
      BY <1>5, <2>2, SumOfQuotients
    <3>. QED
      BY <1>2, <2>2, <3>1 DEF Scale, Group
  <2>. QED
    BY <2>1, <2>2
<1>7. Element(r, b) = a + b
  <2>1. CASE cfg.form = "gguf"
    <3>1. (a \div u + b \div u) * u + (b % u) = a + b
      BY <1>5, <2>1, SumOfQuotients
    <3>2. Scale(r, b) = a \div u + b \div u
      BY <1>2, <2>1 DEF Scale, Group
    <3>. QED
      BY <1>2, <2>1, <3>1, <3>2 DEF Element
  <2>2. CASE cfg.form # "gguf"
    BY <1>2, <2>2 DEF Element
  <2>. QED
    BY <2>1, <2>2
<1>. QED
  BY <1>2, <1>3, <1>4, <1>6, <1>7 DEF Product


\* Shards that fit sum every product of the linears once: the i-th is on the rank whose
\* slice it falls into. The bias is the first rank's.
LEMMA ShardsSumWhole ==
  ASSUME cfg \in Configs, NEW r \in Rank, \A q \in Stage(r) : Fits(q) /\ part[q] = ShardLayer(q)
  PROVE  SumsWhole(r)
<1>1. /\ cfg.tp \in Nat \ {0} /\ cfg.inter \in Nat \ {0} /\ Slice \in Nat
      /\ cfg.inter = cfg.tp * Slice /\ Root(r) \in Nat /\ Root(r) \in Stage(r)
  BY ConfigFacts, RankPlace, StageMates, SliceFacts, SlicesCover
<1>2. Slice \in Nat \ {0}
  BY <1>1
<1>3. ASSUME NEW q \in Stage(r)
      PROVE  /\ q \in Rank /\ q = Root(r) + TpRank(q) /\ TpRank(q) \in Nat /\ From(q) = TpRank(q) * Slice
             /\ \A k \in 1 .. Slice : /\ part[q].rows[k] = Product(TpRank(q) * Slice + (k - 1))
                                      /\ TpRank(q) * Slice + (k - 1) \in Nat
             /\ part[q].bias <=> TpRank(q) = 0
  <2>1. q \in Rank /\ q = Root(r) + TpRank(q) /\ Fits(q) /\ part[q] = ShardLayer(q)
    BY StageMates
  <2>2. TpRank(q) \in Nat /\ From(q) = TpRank(q) * Slice
    BY <2>1, SliceFacts
  <2>3. ASSUME NEW k \in 1 .. Slice
        PROVE  /\ part[q].rows[k] = Product(TpRank(q) * Slice + (k - 1))
               /\ TpRank(q) * Slice + (k - 1) \in Nat
    BY <2>1, <2>2, SliceProducts
  <2>4. part[q].bias <=> TpRank(q) = 0
    <3>1. ShardLayer(q).bias = (TpRank(q) = 0)
      BY DEF ShardLayer
    <3>. QED
      BY <2>1, <3>1
  <2>. QED
    BY <2>1, <2>2, <2>3, <2>4
<1>4. ASSUME NEW i \in 0 .. cfg.inter - 1
      PROVE  Cardinality({x \in Stage(r) \X (1 .. Slice) : part[x[1]].rows[x[2]] = Product(i)}) = 1
  <2>. DEFINE w == i \div Slice
              j == (i % Slice) + 1
              q == Root(r) + w
              X == {x \in Stage(r) \X (1 .. Slice) : part[x[1]].rows[x[2]] = Product(i)}
  <2>0. i \in Nat
    BY <1>1
  <2>1. w \in Nat /\ j \in 1 .. Slice /\ i = w * Slice + (j - 1)
    <3>1. PICK n \in Nat \ {0} : n = Slice
      BY <1>2
    <3>2. i \div n \in Nat /\ i % n \in 0 .. n - 1 /\ i = (i \div n) * n + (i % n)
      BY <2>0, Divided
    <3>3. (i % n) + 1 \in 1 .. n /\ ((i % n) + 1) - 1 = i % n
      BY <3>2
    <3>. QED
      BY <3>1, <3>2, <3>3
  <2>2. w \in 0 .. cfg.tp - 1
    <3>1. SUFFICES ASSUME cfg.tp <= w PROVE FALSE
      BY <1>1, <2>1
    <3>2. cfg.tp * Slice <= w * Slice /\ cfg.tp * Slice \in Int /\ w * Slice \in Int
      BY <1>1, <2>1, <3>1, TimesMonotone
    <3>. QED
      BY <1>1, <2>1, <3>2
  <2>3. q \in Stage(r) /\ TpRank(q) = w
    BY <2>2, StageMates
  <2>. HIDE DEF w, j, q
  <2>4. part[q].rows[j] = Product(i)
    BY <1>3, <2>1, <2>3
  <2>5. ASSUME NEW x \in X PROVE x = <<q, j>>
    <3>1. PICK p \in Stage(r), k \in 1 .. Slice : x = <<p, k>>
      OBVIOUS
    <3>2. part[p].rows[k] = Product(i)
      BY <3>1
    <3>3. TpRank(p) * Slice + (k - 1) = i /\ TpRank(p) \in Nat
      <4>1. Product(TpRank(p) * Slice + (k - 1)) = Product(i)
        BY <1>3, <3>2
      <4>. QED
        BY <1>3, <4>1 DEF Product
    <3>4. i \div Slice = TpRank(p) /\ i % Slice = k - 1
      <4>1. k - 1 \in 0 .. Slice - 1
        BY <1>2
      <4>. QED
        BY <1>2, <3>3, <4>1, DividesUniquely
    <3>5. TpRank(p) = w /\ k = j
      BY <1>2, <3>4 DEF w, j
    <3>6. p = q
      BY <1>3, <3>5 DEF q
    <3>. QED
      BY <3>1, <3>5, <3>6
  <2>6. <<q, j>> \in X
    BY <2>1, <2>3, <2>4
  <2>7. X = {<<q, j>>}
    BY <2>5, <2>6
  <2>. HIDE DEF X
  <2>8. Cardinality(X) = 1
    BY <2>7, FS_Singleton
  <2>. QED
    BY <2>8 DEF X
<1>5. Cardinality({q \in Stage(r) : part[q].bias}) = 1
  <2>1. \A q \in Stage(r) : part[q].bias <=> q = Root(r)
    BY <1>1, <1>3
  <2>2. {q \in Stage(r) : part[q].bias} = {Root(r)}
    BY <1>1, <2>1
  <2>. QED
    BY <2>2, FS_Singleton
<1>. QED
  BY <1>4, <1>5 DEF SumsWhole, Product

\* When a hidden state comes to a head, the shards of all stages are whole.
LEMMA StagesSumWhole ==
  ASSUME Streams, Passes, NEW r \in Rank, pc[r] = "head", NEW q \in Rank, Count(q) > 0
  PROVE  SumsWhole(q)
<1>1. cfg \in Configs /\ Last(r) /\ PassAt(r) /\ LoadsAt(r)
  BY DEF Streams, TypeOK, At, BoundsAt, Passes
<1>2. /\ cfg.pp \in Nat \ {0} /\ StageOf(q) \in 0 .. cfg.pp - 1 /\ StageOf(r) = cfg.pp - 1
  BY <1>1, ConfigFacts, RankPlace DEF Last
<1>3. Done(r) > 0 /\ Got(r) > 0
  <2>1. /\ rows[r] = Len(toks[r]) /\ Len(toks[r]) >= PromptLen /\ Done(r) \in Nat
        /\ PromptLen \in Nat \ {0} /\ (Done(r) = 0 <=> rows[r] = 0) /\ rows[r] \in Nat
    BY <1>1, DoneTypes DEF PassAt, Streams, At, BoundsAt
  <2>2. Done(r) > 0
    BY <2>1
  <2>. QED
    BY <2>1, <2>2 DEF Got
<1>4. ASSUME NEW x \in Stage(q) PROVE Fits(x) /\ part[x] = ShardLayer(x)
  <2>1. x \in Rank /\ StageOf(x) = StageOf(q) /\ Count(x) = Count(q)
    BY <1>1, StageMates
  <2>2. StageOf(x) < StageOf(r) \/ x \in Stage(r)
    BY <1>2, <2>1 DEF Stage
  <2>3. Loaded(x)
    BY <1>1, <1>3, <2>1, <2>2 DEF LoadsAt
  <2>. QED
    BY <2>1, <2>3 DEF Loaded, Passes, PassAt
<1>. QED
  BY <1>1, <1>4, ShardsSumWhole


-----------------------------------------------------------------------------
(* Sends, receives and the mask *)

\* What a rank has sent is what the next one was given.
HopAt(r) ==
  NextRank(r) \in Rank =>
    /\ Sent(r) = Got(NextRank(r))
    /\ pc[r] = "sendmask" <=> pc[NextRank(r)] = "recvmask"

\* At a layer without an indexer the mask in hand is the one a single process has there.
MaskAt(r) ==
  /\ pc[r] \in Working \cup {"send", "sendmask"} /\ Sparse(r)
       /\ Reached(r) \in 0 .. cfg.layers - 1 /\ Reached(r) \notin cfg.keys =>
         (IF have[r] THEN mask[r] ELSE Window) = Serial(Reached(r), TRUE)
  /\ pc[r] = "sendmask" => SendsMask(r)
  /\ pc[r] = "recvmask" => ReceivesMask(r)

Hops == Complete => \A r \in Rank : HopAt(r) /\ MaskAt(r)

LEMMA MaxIs ==
  ASSUME NEW b \in Nat, NEW T \in SUBSET (0 .. b), T # {}
  PROVE  Max(T) \in T /\ \A x \in T : x <= Max(T)
<1>1. \E m \in T : \A k \in T : m >= k
  BY Greatest
<1>2. Max(T) \in T /\ \A k \in T : Max(T) >= k
  BY <1>1 DEF Max
<1>. QED
  BY <1>2

LEMMA SerialFacts ==
  ASSUME cfg \in Configs, NEW l \in Nat
  PROVE  /\ Serial(l, FALSE) = Dense
         /\ l \in cfg.keys => Serial(l, TRUE) = l
         /\ l + 1 \notin cfg.keys => Serial(l + 1, TRUE) = Serial(l, TRUE)
         /\ l = 0 /\ l \notin cfg.keys => Serial(l, TRUE) = Window
         /\ (\E k \in cfg.keys : k <= l) => Serial(l, TRUE) \in cfg.keys
<1>. DEFINE B(n) == {k \in cfg.keys : k <= n}
<1>1. cfg.keys \subseteq 0 .. cfg.layers - 1 /\ cfg.layers \in Nat
  BY ConfigFacts
<1>2. B(l) \in SUBSET (0 .. l)
  BY <1>1
<1>3. B(l) # {} => Max(B(l)) \in B(l) /\ \A x \in B(l) : x <= Max(B(l))
  BY <1>2, MaxIs
<1>4. Serial(l, TRUE) = IF B(l) = {} THEN Window ELSE Max(B(l))
  BY DEF Serial
<1>5. Serial(l + 1, TRUE) = IF B(l + 1) = {} THEN Window ELSE Max(B(l + 1))
  BY DEF Serial
<1>6. l + 1 \notin cfg.keys => B(l + 1) = B(l)
  BY <1>1
<1>7. l \in cfg.keys => Serial(l, TRUE) = l
  <2>. SUFFICES ASSUME l \in cfg.keys PROVE Serial(l, TRUE) = l
    OBVIOUS
  <2>1. l \in B(l) /\ \A x \in B(l) : x <= l
    OBVIOUS
  <2>2. B(l) # {}
    BY <2>1
  <2>. HIDE DEF B
  <2>3. Max(B(l)) \in B(l) /\ l <= Max(B(l)) /\ Max(B(l)) <= l
    BY <1>3, <2>1, <2>2
  <2>4. PICK m \in Int : m = Max(B(l))
    BY <1>2, <2>3
  <2>5. m = l
    BY <2>3, <2>4
  <2>. QED
    BY <1>4, <2>2, <2>4, <2>5
<1>8. l = 0 /\ l \notin cfg.keys => B(l) = {}
  BY <1>1
<1>9. (\E k \in cfg.keys : k <= l) => B(l) # {}
  OBVIOUS
<1>10. B(l) \subseteq cfg.keys
  OBVIOUS
<1>. HIDE DEF B
<1>11. Serial(l, FALSE) = Dense
  BY DEF Serial
<1>. QED
  BY <1>3, <1>4, <1>5, <1>6, <1>7, <1>8, <1>9, <1>10, <1>11

\* A shared layer has no indexer and has a mask to take; a layer with neither a mask
\* to take nor an indexer of its own does not occur.
LEMMA SharedFacts ==
  ASSUME cfg \in Configs, Complete, NEW l \in Nat
  PROVE  /\ SharedLayer(l) => l \in 0 .. cfg.layers - 1 /\ l \notin cfg.keys /\ Serial(l, TRUE) \in cfg.keys
         /\ l \in 0 .. cfg.layers - 1 /\ l \notin cfg.keys => SharedLayer(l)
<1>1. /\ cfg.types \in [0 .. cfg.layers - 1 -> {"full", "shared", "none"}]
      /\ DOMAIN cfg.types = 0 .. cfg.layers - 1
      /\ cfg.keys \subseteq 0 .. cfg.layers - 1 /\ cfg.layers \in Nat
  BY ConfigFacts
<1>2. l \in 0 .. cfg.layers - 1 => (l \in cfg.keys <=> cfg.types[l] \in {"full", "none"})
  BY <1>1 DEF Complete
<1>3. ASSUME SharedLayer(l) PROVE \E k \in cfg.keys : k <= l
  <2>1. PICK k \in cfg.keys : k < l
    BY <1>1, <1>3 DEF Complete, SharedLayer
  <2>. QED
    BY <1>1, <2>1
<1>4. SharedLayer(l) => Serial(l, TRUE) \in cfg.keys
  BY <1>3, SerialFacts
<1>. QED
  BY <1>1, <1>2, <1>4 DEF SharedLayer

\* Where a shared layer comes next the mask is in hand.
LEMMA SharedInHand ==
  ASSUME Streams, Complete, NEW r \in Rank, SharedLayer(Reached(r)), Reached(r) \in Nat,
         (IF have[r] THEN mask[r] ELSE Window) = Serial(Reached(r), TRUE)
  PROVE  have[r] /\ mask[r] = Serial(Reached(r), TRUE)
<1>1. cfg \in Configs
  BY DEF Streams, TypeOK
<1>2. Serial(Reached(r), TRUE) \in cfg.keys /\ cfg.keys \subseteq 0 .. cfg.layers - 1 /\ cfg.layers \in Nat
  BY <1>1, SharedFacts, ConfigFacts
<1>3. Serial(Reached(r), TRUE) # Window
  <2>1. PICK k \in 0 .. cfg.layers - 1 : k = Serial(Reached(r), TRUE)
    BY <1>2
  <2>2. k # Window
    BY <1>2 DEF Window
  <2>. QED
    BY <2>1, <2>2
<1>4. have[r] \in BOOLEAN
  BY DEF Streams, TypeOK
<1>. QED
  BY <1>3, <1>4


\* Between stages no layer is left out.
LEMMA NextBegins ==
  ASSUME Streams, NEW r \in Rank, NEW q \in Rank, q = NextRank(r), pc[r] \notin Loading
  PROVE  /\ IF Begin(StageOf(q)) >= cfg.layers
            THEN Begin(StageOf(r)) + Count(r) = cfg.layers
            ELSE Begin(StageOf(r)) + Count(r) = Begin(StageOf(q))
         /\ pc[q] \notin Loading => Begin(StageOf(r)) + Count(r) = Begin(StageOf(q))
         /\ Begin(StageOf(r)) \in Nat /\ Begin(StageOf(q)) \in Nat /\ Count(r) \in Nat /\ cfg.layers \in Nat
<1>1. cfg \in Configs /\ Count(r) >= 0 /\ (pc[q] \notin Loading => Count(q) >= 0)
  BY DEF Streams, TypeOK, At, BoundsAt, Loading
<1>2. /\ Begin(StageOf(r)) \in Nat /\ Begin(StageOf(q)) \in Nat /\ Count(r) \in Int /\ cfg.layers \in Nat
      /\ Count(q) >= 0 => Begin(StageOf(q)) <= cfg.layers
      /\ IF Begin(StageOf(q)) >= cfg.layers
         THEN Begin(StageOf(r)) + Count(r) = cfg.layers
         ELSE Begin(StageOf(r)) + Count(r) = Begin(StageOf(q))
  BY <1>1, ConfigFacts, SplitFacts
<1>. QED
  BY <1>1, <1>2

LEMMA MaskStatic ==
  ASSUME cfg' = cfg
  PROVE  /\ \A l, s : Serial(l, s)' = Serial(l, s)
         /\ \A l : SharedLayer(l)' <=> SharedLayer(l)
         /\ \A r : toks'[r] = toks[r] => /\ Sparse(r)' <=> Sparse(r)
                                         /\ ReceivesMask(r)' <=> ReceivesMask(r)
                                         /\ have'[r] = have[r] => (SendsMask(r)' <=> SendsMask(r))
<1>1. \A l : SharedLayer(l)' <=> SharedLayer(l)
  BY DEF SharedLayer
<1>2. \A r : Begin(StageOf(r))' = Begin(StageOf(r)) /\ Count(r)' = Count(r)
  BY Static
<1>3. \A l, s : Serial(l, s)' = Serial(l, s)
  BY DEF Serial
<1>. QED
  BY <1>1, <1>2, <1>3 DEF Sparse, ReceivesMask, SendsMask

LEMMA MaskSteps ==
  ASSUME Streams, Passes, Complete, NEW r \in Rank, Step(r), ~Transfer(r), MaskAt(r)
  PROVE  MaskAt(r)'
<1>1. /\ PassAt(r) /\ cfg \in Configs /\ cfg' = cfg /\ layer[r] \in Nat /\ Begin(StageOf(r)) \in Nat
      /\ Begin(StageOf(r))' = Begin(StageOf(r))
      /\ \A l, s : Serial(l, s)' = Serial(l, s)
      /\ Reached(r) \in Nat
      /\ toks'[r] = toks[r] => (Sparse(r)' <=> Sparse(r))
  BY Moves, RankTypes, Static, MaskStatic, DoneTypes DEF Passes, Streams, TypeOK
<1>. DEFINE In == Working \cup {"send", "sendmask"}
            l == Reached(r)
<1>2. ASSUME pc[r] \in In, pc'[r] \in In \ {"sendmask"}, Reached(r)' = l,
             UNCHANGED <<toks, mask, have>>
      PROVE  MaskAt(r)'
  BY <1>1, <1>2 DEF MaskAt, Working
<1>3. ASSUME pc'[r] \notin In \cup {"recvmask"}
      PROVE  MaskAt(r)'
  BY <1>3 DEF MaskAt
<1>4. CASE StartPass(r)
  <2>1. /\ layer'[r] = 0 /\ have'[r] = FALSE
        /\ IF First(r) THEN pc'[r] = "layer" ELSE pc'[r] = "recv"
        /\ toks' = toks
    BY <1>4, StartPassAt
  <2>2. CASE First(r)
    <3>1. Begin(StageOf(r)) = 0 /\ pc'[r] = "layer"
      BY <1>1, <2>1, <2>2, SplitFacts
    <3>2. Reached(r)' = 0
      BY <1>1, <2>1, <3>1 DEF Reached
    <3>3. 0 \notin cfg.keys => Serial(0, TRUE) = Window
      BY <1>1, SerialFacts
    <3>. QED
      BY <1>1, <2>1, <3>1, <3>2, <3>3 DEF MaskAt
  <2>3. CASE ~First(r)
    BY <1>3, <2>1, <2>3 DEF Working
  <2>. QED
    BY <2>2, <2>3
<1>5. CASE Attention(r)
  <2>1. l = Begin(StageOf(r)) + layer[r]
    BY <1>1, <1>5 DEF Attention, Reached
  <2>2. /\ pc[r] = "layer" /\ pc'[r] = "mlp" /\ toks' = toks /\ layer' = layer
        /\ mask'[r] = IF Sparse(r) /\ l \in cfg.keys THEN l ELSE mask[r]
        /\ have'[r] = ((Sparse(r) /\ l \in cfg.keys) \/ have[r])
    BY <1>5, <2>1, AttentionAt
  <2>3. Reached(r)' = l + 1
    BY <1>1, <2>1, <2>2 DEF Reached
  <2>4. ASSUME Sparse(r), l + 1 \in 0 .. cfg.layers - 1, l + 1 \notin cfg.keys
        PROVE  (IF have'[r] THEN mask'[r] ELSE Window) = Serial(l + 1, TRUE)
    <3>1. Serial(l + 1, TRUE) = Serial(l, TRUE) /\ (l \in cfg.keys => Serial(l, TRUE) = l)
      BY <1>1, <2>4, SerialFacts
    <3>2. CASE l \in cfg.keys
      BY <2>2, <2>4, <3>1, <3>2
    <3>3. CASE l \notin cfg.keys
      <4>1. cfg.layers \in Nat
        BY <1>1, ConfigFacts
      <4>2. l \in 0 .. cfg.layers - 1
        BY <1>1, <2>4, <4>1
      <4>3. (IF have[r] THEN mask[r] ELSE Window) = Serial(l, TRUE)
        BY <2>2, <2>4, <3>3, <4>2 DEF MaskAt, Working
      <4>4. have'[r] = have[r] /\ mask'[r] = mask[r]
        <5>1. have[r] \in BOOLEAN
          BY DEF Streams, TypeOK
        <5>. QED
          BY <2>2, <3>3, <5>1
      <4>. QED
        BY <3>1, <4>3, <4>4
    <3>. QED
      BY <3>2, <3>3
  <2>. HIDE DEF l
  <2>. QED
    BY <1>1, <2>2, <2>3, <2>4 DEF MaskAt
<1>6. CASE Mlp(r)
  <2>1. pc[r] = "mlp" /\ pc'[r] = "add" /\ UNCHANGED <<toks, layer, mask, have>>
    BY <1>6, MlpAt
  <2>2. Reached(r)' = Reached(r)
    BY <1>1, <2>1 DEF Reached
  <2>. QED
    BY <1>2, <2>1, <2>2 DEF Working
<1>7. CASE LayerDone(r)
  <2>1. pc[r] = "add" /\ pc'[r] = "layer" /\ layer'[r] = layer[r] + 1 /\ UNCHANGED <<toks, mask, have>>
    BY <1>7, LayerDoneAt
  <2>2. Reached(r)' = Reached(r)
    BY <1>1, <2>1 DEF Reached
  <2>. QED
    BY <1>2, <2>1, <2>2 DEF Working
<1>8. CASE StackDone(r)
  <2>1. pc[r] = "layer" /\ pc'[r] \in {"send", "head"} /\ UNCHANGED <<toks, layer, mask, have>>
    BY <1>8, StackDoneAt
  <2>2. Reached(r)' = Reached(r)
    BY <1>1, <2>1 DEF Reached
  <2>3. CASE pc'[r] = "send"
    BY <1>2, <2>1, <2>2, <2>3 DEF Working
  <2>4. CASE pc'[r] # "send"
    BY <1>3, <2>1, <2>4 DEF Working
  <2>. QED
    BY <2>3, <2>4
<1>9. CASE pc[r] \notin {"begin", "layer", "mlp", "add"}
  <2>1. pc'[r] \in {"dead", "begin", "combine", "sample", "bcast", "end"}
    BY <1>1, <1>9, Moves
  <2>. QED
    BY <1>3, <2>1 DEF Working
<1>10. pc[r] \in {"begin", "layer", "mlp", "add"} =>
         StartPass(r) \/ Attention(r) \/ Mlp(r) \/ LayerDone(r) \/ StackDone(r)
  BY DEF Step, Load, LmHead, Combine, NextGiven, Sample, Bcast
<1>. QED
  BY <1>4, <1>5, <1>6, <1>7, <1>8, <1>9, <1>10


LEMMA HopOthers ==
  ASSUME Streams, Passes, NEW r \in Rank, Step(r), ~Transfer(r), \A x \in Rank : HopAt(x)
  PROVE  \A x \in Rank : HopAt(x)'
<1>1. cfg' = cfg /\ Rank' = Rank /\ PassAt(r) /\ cfg \in Configs /\ Done(r) \in Nat
  BY Moves, Static, DoneTypes DEF Passes, Streams, TypeOK
<1>2. rows'[r] = rows[r] => Done(r)' = Done(r)
  BY <1>1, PassStatic
<1>3. Sent(r)' = Sent(r)
  \/ (pc[r] = "layer" /\ pc'[r] = "head" /\ Last(r))
  BY <1>1, <1>2, Moves DEF Sent
<1>4. Got(r)' = Got(r) \/ First(r)
  BY <1>1, <1>2, Moves DEF Got, Working
<1>5. pc'[r] # "sendmask" /\ pc'[r] # "recvmask" /\ pc[r] # "sendmask" /\ pc[r] # "recvmask"
  BY <1>1, Moves
<1>6. \A x \in Rank \ {r} : /\ Sent(x)' = Sent(x) /\ Got(x)' = Got(x) /\ pc'[x] = pc[x]
  BY <1>1, OthersIdle, PassIdle DEF Idle
<1>7. ASSUME NEW x \in Rank PROVE HopAt(x)'
  <2>1. SUFFICES ASSUME NextRank(x) \in Rank PROVE HopAt(x)'
    BY <1>1, Static DEF HopAt
  <2>2. PICK q \in Rank : q = NextRank(x) /\ ~Last(x) /\ ~First(q) /\ q # x
    BY <1>1, <2>1, Hop
  <2>3. Sent(x)' = Sent(x) /\ Got(q)' = Got(q)
    BY <1>3, <1>4, <1>6, <2>2
  <2>4. (pc'[x] = "sendmask" <=> pc[x] = "sendmask") /\ (pc'[q] = "recvmask" <=> pc[q] = "recvmask")
    BY <1>5, <1>6
  <2>5. NextRank(x)' = q
    BY <1>1, <2>2, Static
  <2>. QED
    BY <1>1, <2>2, <2>3, <2>4, <2>5 DEF HopAt
<1>. QED
  BY <1>7

\* Sender and receiver of a hidden state are in the same pass and decide alike.
LEMMA SameDecision ==
  ASSUME Streams, Passes, Complete, NEW r \in Rank, NEW q \in Rank, q = NextRank(r), HopAt(r), MaskAt(r),
         pc[r] = "send", pc[q] = "recv"
  PROVE  /\ Len(toks[r]) = Len(toks[q])
         /\ SendsMask(r) <=> ReceivesMask(q)
<1>1. /\ PassAt(r) /\ PassAt(q) /\ cfg \in Configs
      /\ Len(toks[r]) >= PromptLen
  BY DEF Passes, Streams, TypeOK, At, BoundsAt
<1>2. /\ Done(r) \in Nat /\ Done(q) \in Nat /\ Len(toks[r]) \in Nat /\ Len(toks[q]) \in Nat
      /\ PromptLen \in Nat \ {0} /\ rows[r] \in Nat
      /\ rows[r] # 0 => PromptLen + Done(r) = rows[r] + 1
      /\ Reached(r) \in Nat
  BY <1>1, DoneTypes
<1>3. Len(toks[r]) = PromptLen + Done(r) - 1
  <2>1. rows[r] = Len(toks[r])
    BY <1>1 DEF PassAt
  <2>. QED
    BY <1>1, <1>2, <2>1
<1>4. Done(r) - 1 = Done(q) + 0
  BY DEF HopAt, Sent, Got, Working
<1>5. Len(toks[q]) = PromptLen + Done(q)
  BY <1>1 DEF PassAt
<1>6. Len(toks[r]) = Len(toks[q])
  BY <1>2, <1>3, <1>4, <1>5
<1>7. Sparse(r) <=> Sparse(q)
  BY <1>6 DEF Sparse
<1>8. /\ Begin(StageOf(r)) \in Nat /\ Count(r) \in Nat /\ Begin(StageOf(q)) \in Nat
      /\ Begin(StageOf(r)) + Count(r) = Begin(StageOf(q))
  BY NextBegins DEF Loading
<1>9. Reached(r) = Begin(StageOf(q))
  BY <1>1, <1>8 DEF Reached, PassAt
<1>10. ASSUME ReceivesMask(q) PROVE have[r]
  <2>1. SharedLayer(Reached(r)) /\ Sparse(r)
    BY <1>7, <1>9, <1>10 DEF ReceivesMask
  <2>2. Reached(r) \in 0 .. cfg.layers - 1 /\ Reached(r) \notin cfg.keys
    BY <1>1, <1>2, <2>1, SharedFacts
  <2>3. (IF have[r] THEN mask[r] ELSE Window) = Serial(Reached(r), TRUE)
    BY <2>1, <2>2 DEF MaskAt
  <2>. QED
    BY <1>2, <2>1, <2>3, SharedInHand
<1>. QED
  BY <1>6, <1>7, <1>8, <1>10 DEF SendsMask, ReceivesMask


LEMMA TransferHops ==
  ASSUME Streams, Passes, Complete, \A x \in Rank : HopAt(x) /\ MaskAt(x), NEW r \in Rank, Transfer(r)
  PROVE  \A x \in Rank : HopAt(x)'
<1>1. PICK q \in Rank : q = NextRank(r)
  BY TransferFacts DEF Streams
<1>2. /\ cfg' = cfg /\ Rank' = Rank /\ q # r /\ cfg \in Configs /\ HopAt(r) /\ MaskAt(r)
      /\ pc[r] \in {"send", "sendmask"} /\ pc[q] \in {"recv", "recvmask"}
      /\ pc'[r] = IF pc[r] = "send" /\ SendsMask(r) THEN "sendmask" ELSE "sample"
      /\ pc'[q] = IF pc[q] = "recv" /\ ReceivesMask(q) THEN "recvmask" ELSE "layer"
      /\ \A x \in Rank \ {r, q} : pc'[x] = pc[x]
      /\ UNCHANGED <<cfg, part, toks, rows, layer, calls, pick>>
  BY <1>1, TransferFacts DEF Streams, TypeOK
<1>3. \A x \in Rank : Done(x)' = Done(x) /\ Done(x) \in Nat
  BY <1>2, PassStatic, DoneTypes DEF Passes
<1>4. \A x \in Rank \ {r} : Sent(x)' = Sent(x) /\ (pc'[x] = "sendmask" <=> pc[x] = "sendmask")
  BY <1>2, <1>3 DEF Sent
<1>5. \A x \in Rank \ {q} : Got(x)' = Got(x) /\ (pc'[x] = "recvmask" <=> pc[x] = "recvmask")
  BY <1>2, <1>3 DEF Got, Working
<1>6. Sent(r)' = Got(q)' /\ (pc'[r] = "sendmask" <=> pc'[q] = "recvmask")
  <2>1. Sent(r) = Got(q) /\ (pc[r] = "sendmask" <=> pc[q] = "recvmask")
    BY <1>1, <1>2 DEF HopAt
  <2>2. CASE pc[r] = "send" /\ pc[q] = "recv"
    <3>1. SendsMask(r) <=> ReceivesMask(q)
      BY <1>1, <1>2, <2>2, SameDecision
    <3>2. Sent(r) = Done(r) - 1 /\ Sent(r)' = Done(r) /\ Got(q) = Done(q) /\ Got(q)' = Done(q) + 1
      BY <1>2, <1>3, <2>2 DEF Sent, Got, Working
    <3>3. Done(r) = Done(q) + 1
      <4>1. Done(r) \in Nat /\ Done(q) \in Nat
        BY <1>3
      <4>2. Done(r) - 1 = Done(q)
        BY <2>1, <3>2
      <4>. QED
        BY <4>1, <4>2
    <3>4. pc'[r] = "sendmask" <=> pc'[q] = "recvmask"
      BY <1>2, <2>2, <3>1
    <3>. QED
      BY <3>2, <3>3, <3>4
  <2>3. CASE pc[r] = "sendmask" /\ pc[q] = "recvmask"
    <3>1. Sent(r)' = Sent(r) /\ Got(q)' = Got(q)
      BY <1>2, <1>3, <2>3 DEF Sent, Got, Working
    <3>. QED
      BY <1>2, <2>1, <2>3, <3>1
  <2>. QED
    BY <1>2, <2>1, <2>2, <2>3
<1>7. ASSUME NEW x \in Rank PROVE HopAt(x)'
  <2>1. SUFFICES ASSUME NextRank(x) \in Rank PROVE HopAt(x)'
    BY <1>2, Static DEF HopAt
  <2>2. PICK n \in Rank : n = NextRank(x)
    BY <2>1
  <2>3. NextRank(x)' = n /\ Sent(x) = Got(n) /\ (pc[x] = "sendmask" <=> pc[n] = "recvmask")
    BY <1>2, <2>2, Static DEF HopAt
  <2>4. CASE x = r
    BY <1>1, <1>2, <1>6, <2>2, <2>3, <2>4 DEF HopAt
  <2>5. CASE x # r
    <3>1. n # q
      <4>1. r \in Int /\ x \in Int /\ cfg.tp \in Int /\ q = r + cfg.tp /\ n = x + cfg.tp
        BY <1>1, <1>2, <2>2, RankPlace, ConfigFacts DEF NextRank
      <4>. QED
        BY <2>5, <4>1
    <3>2. Sent(x)' = Got(n)' /\ (pc'[x] = "sendmask" <=> pc'[n] = "recvmask")
      BY <1>4, <1>5, <2>3, <2>5, <3>1
    <3>. QED
      BY <2>3, <3>2 DEF HopAt
  <2>. QED
    BY <2>4, <2>5
<1>. QED
  BY <1>7

LEMMA TransferMasks ==
  ASSUME Streams, Passes, Complete, \A x \in Rank : HopAt(x) /\ MaskAt(x), NEW r \in Rank, Transfer(r)
  PROVE  \A x \in Rank : MaskAt(x)'
<1>1. PICK q \in Rank : q = NextRank(r)
  BY TransferFacts DEF Streams
<1>2. /\ cfg' = cfg /\ Rank' = Rank /\ q # r /\ cfg \in Configs /\ HopAt(r) /\ MaskAt(r) /\ MaskAt(q)
      /\ pc[r] \in {"send", "sendmask"} /\ pc[q] \in {"recv", "recvmask"}
      /\ pc'[r] = IF pc[r] = "send" /\ SendsMask(r) THEN "sendmask" ELSE "sample"
      /\ pc'[q] = IF pc[q] = "recv" /\ ReceivesMask(q) THEN "recvmask" ELSE "layer"
      /\ \A x \in Rank \ {r, q} : pc'[x] = pc[x]
      /\ \A x \in Rank \ {q} : mask'[x] = mask[x] /\ have'[x] = have[x]
      /\ IF pc[q] = "recv" THEN mask' = mask /\ have' = have
         ELSE mask'[q] = (IF pc[r] = "sendmask" THEN mask[r] ELSE Garbage) /\ have'[q] = TRUE
      /\ UNCHANGED <<cfg, part, toks, rows, layer, calls, pick>>
  BY <1>1, TransferFacts DEF Streams, TypeOK
<1>3. /\ \A l, s : Serial(l, s)' = Serial(l, s)
      /\ \A x \in Rank : /\ Sparse(x)' <=> Sparse(x)
                         /\ ReceivesMask(x)' <=> ReceivesMask(x)
                         /\ have'[x] = have[x] => (SendsMask(x)' <=> SendsMask(x))
                         /\ Begin(StageOf(x))' = Begin(StageOf(x))
  BY <1>2, MaskStatic, Static
<1>4. /\ \A x \in Rank : layer[x] \in Nat /\ Begin(StageOf(x)) \in Nat /\ Reached(x) \in Nat
      /\ layer[q] = 0 /\ layer[r] = Count(r)
  BY <1>2, RankTypes, DoneTypes DEF Streams, Passes, PassAt, At, BoundsAt
<1>5. \A x \in Rank : Reached(x)' = IF pc'[x] \in {"mlp", "add"} THEN Begin(StageOf(x)) + layer[x] + 1
                                    ELSE Begin(StageOf(x)) + layer[x]
  BY <1>2, <1>3, <1>4 DEF Reached
<1>6. ASSUME NEW x \in Rank \ {r, q} PROVE MaskAt(x)'
  <2>1. Reached(x)' = Reached(x) /\ MaskAt(x)
    BY <1>2, <1>3, <1>6 DEF Reached
  <2>. QED
    BY <1>2, <1>3, <1>6, <2>1 DEF MaskAt
<1>7. MaskAt(r)'
  <2>1. Reached(r)' = Reached(r)
    BY <1>2, <1>3 DEF Reached
  <2>2. CASE pc'[r] = "sample"
    BY <2>2 DEF MaskAt, Working
  <2>3. CASE pc'[r] = "sendmask"
    <3>1. pc[r] = "send" /\ SendsMask(r)
      BY <1>2, <2>3
    <3>. QED
      BY <1>2, <1>3, <2>1, <2>3, <3>1 DEF MaskAt
  <2>. QED
    BY <1>2, <2>2, <2>3
<1>8. Reached(q)' = Begin(StageOf(q))
  BY <1>2, <1>4, <1>5
<1>9. ASSUME Sparse(q), Begin(StageOf(q)) \in 0 .. cfg.layers - 1, Begin(StageOf(q)) \notin cfg.keys,
             pc'[q] = "layer"
      PROVE  (IF have'[q] THEN mask'[q] ELSE Window) = Serial(Begin(StageOf(q)), TRUE)
  <2>1. ReceivesMask(q)
    BY <1>2, <1>4, <1>9, SharedFacts DEF ReceivesMask
  <2>2. pc[q] = "recvmask" /\ pc[r] = "sendmask"
    BY <1>1, <1>2, <1>9, <2>1 DEF HopAt
  <2>3. SendsMask(r)
    BY <1>2, <2>2 DEF MaskAt
  <2>4. Reached(r) = Begin(StageOf(q)) /\ Sparse(r) /\ have[r]
    BY <1>1, <1>4, <2>2, <2>3, NextBegins DEF Reached, SendsMask, Loading
  <2>5. mask[r] = Serial(Begin(StageOf(q)), TRUE)
    BY <1>2, <1>9, <2>2, <2>4 DEF MaskAt
  <2>. QED
    BY <1>2, <2>2, <2>5
<1>10. MaskAt(q)'
  <2>1. pc'[q] = "recvmask" => ReceivesMask(q)'
    BY <1>2, <1>3
  <2>2. pc'[q] = "recvmask" \/ pc'[q] = "layer"
    BY <1>2
  <2>. QED
    BY <1>2, <1>3, <1>8, <1>9, <2>1, <2>2 DEF MaskAt, Working
<1>. QED
  BY <1>6, <1>7, <1>10


LEMMA HopsStep ==
  ASSUME Streams, Passes, Hops, [Next]_vars
  PROVE  Hops'
<1>1. SUFFICES ASSUME Complete PROVE (\A x \in Rank : HopAt(x) /\ MaskAt(x))'
  <2>1. cfg' = cfg
    BY Moves, TransferFacts DEF Next, vars, Streams, Passes
  <2>. QED
    BY <2>1, Static DEF Hops
<1>2. \A x \in Rank : HopAt(x) /\ MaskAt(x)
  BY <1>1 DEF Hops
<1>3. ASSUME NEW r \in Rank, Step(r), ~Transfer(r)
      PROVE  (\A x \in Rank : HopAt(x) /\ MaskAt(x))'
  <2>1. cfg' = cfg /\ Rank' = Rank /\ \A x \in Rank : HopAt(x)'
    BY <1>2, <1>3, Moves, Static, HopOthers DEF Passes
  <2>2. MaskAt(r)'
    BY <1>1, <1>2, <1>3, MaskSteps
  <2>3. ASSUME NEW x \in Rank \ {r} PROVE MaskAt(x)'
    <3>1. Idle(x) /\ MaskAt(x)
      BY <1>2, <1>3, OthersIdle
    <3>. QED
      BY <2>1, <3>1, PassIdle, MaskStatic DEF MaskAt, Idle
  <2>. QED
    BY <2>1, <2>2, <2>3
<1>4. ASSUME NEW r \in Rank, Transfer(r)
      PROVE  (\A x \in Rank : HopAt(x) /\ MaskAt(x))'
  <2>1. Rank' = Rank
    BY <1>4, TransferFacts DEF Streams
  <2>. QED
    BY <1>1, <1>2, <1>4, <2>1, TransferHops, TransferMasks
<1>5. CASE UNCHANGED vars
  <2>1. cfg' = cfg /\ Rank' = Rank /\ \A x : Idle(x) /\ NextRank(x)' = NextRank(x)
    BY <1>5, Static DEF vars, Idle
  <2>2. \A x : Sent(x)' = Sent(x) /\ Got(x)' = Got(x) /\ Reached(x)' = Reached(x) /\ pc'[x] = pc[x]
    BY <2>1, PassIdle DEF Idle
  <2>3. \A x \in Rank : HopAt(x)'
    BY <1>2, <2>1, <2>2 DEF HopAt
  <2>4. ASSUME NEW x \in Rank PROVE MaskAt(x)'
    <3>1. Idle(x) /\ MaskAt(x)
      BY <1>2, <2>1
    <3>2. /\ pc'[x] = pc[x] /\ have'[x] = have[x] /\ mask'[x] = mask[x] /\ Reached(x)' = Reached(x)
          /\ (Sparse(x)' <=> Sparse(x)) /\ (SendsMask(x)' <=> SendsMask(x))
          /\ (ReceivesMask(x)' <=> ReceivesMask(x)) /\ cfg' = cfg
          /\ Serial(Reached(x), TRUE)' = Serial(Reached(x), TRUE)
      <4>1. /\ (Sparse(x)' <=> Sparse(x)) /\ (SendsMask(x)' <=> SendsMask(x))
            /\ (ReceivesMask(x)' <=> ReceivesMask(x))
        BY <2>1, <3>1, MaskStatic DEF Idle
      <4>2. Serial(Reached(x), TRUE)' = Serial(Reached(x), TRUE)
        BY <2>1, <2>2 DEF Serial
      <4>. QED
        BY <2>1, <2>2, <3>1, <4>1, <4>2 DEF Idle
    <3>. QED
      BY <3>1, <3>2 DEF MaskAt
  <2>. QED
    BY <2>1, <2>3, <2>4
<1>. QED
  BY <1>3, <1>4, <1>5 DEF Next

LEMMA AlwaysHops == Spec => []Hops
<1>1. Init => Hops
  <2>. SUFFICES ASSUME Init, NEW r \in Rank PROVE HopAt(r) /\ MaskAt(r)
    BY DEF Hops
  <2>1. \A x \in Rank : pc[x] = "load" /\ rows[x] = 0
    BY DEF Init
  <2>2. \A x \in Rank : Sent(x) = 0 /\ Got(x) = 0
    BY <2>1 DEF Sent, Got, Done, Working
  <2>3. HopAt(r)
    BY <2>1, <2>2 DEF HopAt
  <2>4. MaskAt(r)
    BY <2>1 DEF MaskAt, Working
  <2>. QED
    BY <2>3, <2>4
<1>2. Streams /\ Passes /\ Hops /\ [Next]_vars => Hops'
  BY HopsStep
<1>. QED
  BY <1>1, <1>2, AlwaysStreams, AlwaysPasses, PTL DEF Spec

\* Of every checkpoint whose shared layers have an indexer before them, sender and
\* receiver of a hop always agree on whether a mask follows the hidden state, though
\* each decides on its own, with its own stream and the layers of its own stage.
THEOREM MasksAreExpected == Spec => []TransfersMatch
<1>1. ASSUME Hops, Complete, NEW r \in Rank, NextRank(r) \in Rank,
             pc[r] \in {"send", "sendmask"}, pc[NextRank(r)] \in {"recv", "recvmask"}
      PROVE  pc[r] = "send" <=> pc[NextRank(r)] = "recv"
  BY <1>1 DEF Hops, HopAt
<1>2. Hops => TransfersMatch
  BY <1>1 DEF TransfersMatch, HopsAgree
<1>. QED
  BY <1>2, AlwaysHops, PTL


-----------------------------------------------------------------------------
(* The hidden state *)

\* What n layers attend to in a run on a single stage.
Trace(n, s) == [i \in 1 .. n |-> Serial(i - 1, s)]

\* The hidden state of a rank in a pass has been through all layers up to where it is.
HiddenAt(r) ==
  pc[r] \in Working \cup {"recvmask", "send", "sendmask", "head"} =>
    hid[r].toks = toks[r] /\ hid[r].done = Trace(Reached(r), Sparse(r))

Hidden == Complete /\ OneStream => \A r \in Rank : HiddenAt(r)

LEMMA SerialType ==
  ASSUME cfg \in Configs, NEW l \in Nat, NEW s \in BOOLEAN
  PROVE  Serial(l, s) \in -3 .. cfg.layers - 1
<1>1. cfg.keys \subseteq 0 .. cfg.layers - 1 /\ cfg.layers \in Nat \ {0}
  BY ConfigFacts
<1>2. -1 \in -3 .. cfg.layers - 1 /\ -2 \in -3 .. cfg.layers - 1
  BY <1>1
<1>3. CASE s = FALSE
  BY <1>2, <1>3, SerialFacts DEF Dense
<1>4. CASE s = TRUE /\ \E k \in cfg.keys : k <= l
  <2>1. Serial(l, TRUE) \in cfg.keys
    BY <1>4, SerialFacts
  <2>2. PICK k \in 0 .. cfg.layers - 1 : k = Serial(l, TRUE)
    BY <1>1, <2>1
  <2>3. k \in -3 .. cfg.layers - 1
    BY <1>1
  <2>. QED
    BY <1>4, <2>2, <2>3
<1>5. CASE s = TRUE /\ ~(\E k \in cfg.keys : k <= l)
  <2>1. {k \in cfg.keys : k <= l} = {}
    BY <1>5
  <2>2. Serial(l, TRUE) = Window
    BY <2>1 DEF Serial
  <2>. QED
    BY <1>2, <1>5, <2>2 DEF Window
<1>. QED
  BY <1>3, <1>4, <1>5

LEMMA TraceGrows ==
  ASSUME cfg \in Configs, NEW n \in Nat, NEW s \in BOOLEAN
  PROVE  /\ Trace(0, s) = <<>>
         /\ Append(Trace(n, s), Serial(n, s)) = Trace(n + 1, s)
<1>. DEFINE D == -3 .. cfg.layers - 1
<1>1. \A i \in Nat : Serial(i, s) \in D
  BY SerialType
<1>. HIDE DEF D
<1>2. ASSUME NEW m \in Nat
      PROVE  /\ Trace(m, s) \in Seq(D) /\ Len(Trace(m, s)) = m
             /\ \A i \in 1 .. m : Trace(m, s)[i] = Serial(i - 1, s)
  <2>1. \A i \in 1 .. m : Serial(i - 1, s) \in D
    BY <1>1
  <2>2. Trace(m, s) \in Seq(D)
    BY <2>1, IsASeq DEF Trace
  <2>3. DOMAIN Trace(m, s) = 1 .. m /\ \A i \in 1 .. m : Trace(m, s)[i] = Serial(i - 1, s)
    BY DEF Trace
  <2>4. Len(Trace(m, s)) \in Nat /\ DOMAIN Trace(m, s) = 1 .. Len(Trace(m, s))
    BY <2>2, LenProperties
  <2>5. Len(Trace(m, s)) = m
    BY <2>3, <2>4
  <2>. QED
    BY <2>2, <2>3, <2>5
<1>3. Trace(0, s) = <<>>
  BY <1>2, EmptySeq
<1>. DEFINE a == Append(Trace(n, s), Serial(n, s))
            b == Trace(n + 1, s)
<1>4. /\ a \in Seq(D) /\ Len(a) = n + 1
      /\ \A i \in 1 .. n : a[i] = Serial(i - 1, s)
      /\ a[n + 1] = Serial(n, s)
  <2>. DEFINE t == Trace(n, s)
              v == Serial(n, s)
  <2>1. /\ t \in Seq(D) /\ Len(t) = n /\ v \in D
        /\ \A i \in 1 .. n : t[i] = Serial(i - 1, s)
    BY <1>1, <1>2
  <2>. HIDE DEF t, v
  <2>2. /\ Append(t, v) \in Seq(D) /\ Len(Append(t, v)) = n + 1
        /\ \A i \in 1 .. n : Append(t, v)[i] = t[i]
        /\ Append(t, v)[n + 1] = v
    BY <2>1, AppendProperties
  <2>3. \A i \in 1 .. n : Append(t, v)[i] = Serial(i - 1, s)
    BY <2>1, <2>2
  <2>. QED
    BY <2>2, <2>3 DEF t, v
<1>5. /\ b \in Seq(D) /\ Len(b) = n + 1
      /\ \A i \in 1 .. n + 1 : b[i] = Serial(i - 1, s)
  BY <1>2
<1>. HIDE DEF a, b
<1>6. \A i \in 1 .. n + 1 : a[i] = b[i]
  <2>1. ASSUME NEW i \in 1 .. n + 1 PROVE a[i] = b[i]
    <3>1. CASE i = n + 1
      <4>1. i - 1 = n
        BY <3>1
      <4>. QED
        BY <1>4, <1>5, <3>1, <4>1
    <3>2. CASE i # n + 1
      <4>1. i \in 1 .. n
        BY <3>2
      <4>. QED
        BY <1>4, <1>5, <4>1
    <3>. QED
      BY <3>1, <3>2
  <2>. QED
    BY <2>1
<1>7. a = b
  BY <1>4, <1>5, <1>6, SeqEqual
<1>. QED
  BY <1>3, <1>7 DEF a, b

\* A layer selects what it selects in a single process.
LEMMA SelectsAsSerial ==
  ASSUME Streams, Passes, Complete, NEW r \in Rank, MaskAt(r), pc[r] = "layer", layer[r] < Count(r)
  PROVE  Selection(r, Reached(r)) = Serial(Reached(r), Sparse(r))
<1>1. /\ cfg \in Configs /\ Reached(r) \in Nat /\ Sparse(r) \in BOOLEAN /\ cfg.layers \in Nat
      /\ Count(r) <= cfg.layers - Begin(StageOf(r)) /\ Reached(r) = Begin(StageOf(r)) + layer[r]
      /\ Begin(StageOf(r)) \in Nat /\ layer[r] \in Nat /\ Count(r) \in Int
  <2>1. cfg \in Configs /\ PassAt(r) /\ TypeOK
    BY DEF Passes, Streams, TypeOK
  <2>2. /\ Count(r) <= cfg.layers - Begin(StageOf(r)) /\ Begin(StageOf(r)) \in Nat
        /\ Count(r) \in Int /\ cfg.layers \in Nat
    BY <2>1, SplitFacts, ConfigFacts
  <2>3. Reached(r) \in Nat /\ layer[r] \in Nat
    BY <2>1, DoneTypes, RankTypes
  <2>4. Reached(r) = Begin(StageOf(r)) + layer[r]
    BY <2>2, <2>3 DEF Reached
  <2>5. Sparse(r) \in BOOLEAN
    BY DEF Sparse
  <2>. QED
    BY <2>1, <2>2, <2>3, <2>4, <2>5
<1>2. Reached(r) \in 0 .. cfg.layers - 1
  BY <1>1
<1>3. CASE ~Sparse(r)
  BY <1>1, <1>3, SerialFacts DEF Selection
<1>4. CASE Sparse(r) /\ Reached(r) \in cfg.keys
  BY <1>1, <1>4, SerialFacts DEF Selection
<1>5. CASE Sparse(r) /\ Reached(r) \notin cfg.keys
  BY <1>2, <1>5 DEF MaskAt, Working, Selection
<1>. QED
  BY <1>3, <1>4, <1>5


LEMMA HiddenIs ==
  ASSUME cfg' = cfg, NEW r, NEW n, NEW s, Reached(r)' = n, Sparse(r)' = s,
         hid'[r].toks = toks'[r], hid'[r].done = Trace(n, s)
  PROVE  HiddenAt(r)'
<1>1. Trace(Reached(r), Sparse(r))' = [i \in 1 .. n |-> Serial(i - 1, s)]
  BY DEF Trace, Serial
<1>. QED
  BY <1>1 DEF HiddenAt, Trace

LEMMA HiddenStays ==
  ASSUME Streams, cfg' = cfg, NEW r \in Rank, HiddenAt(r), Reached(r)' = Reached(r),
         toks'[r] = toks[r], hid'[r] = hid[r],
         pc[r] \in Working \cup {"recvmask", "send", "sendmask", "head"}
  PROVE  HiddenAt(r)'
<1>1. Sparse(r)' = Sparse(r)
  BY DEF Sparse
<1>2. PICK n, s : n = Reached(r) /\ s = Sparse(r)
  OBVIOUS
<1>. QED
  BY <1>1, <1>2, HiddenIs DEF HiddenAt

LEMMA HiddenSteps ==
  ASSUME Streams, Passes, Complete, NEW r \in Rank, Step(r), ~Transfer(r), MaskAt(r), HiddenAt(r)
  PROVE  HiddenAt(r)'
<1>1. /\ PassAt(r) /\ cfg \in Configs /\ cfg' = cfg /\ layer[r] \in Nat /\ Begin(StageOf(r)) \in Nat
      /\ Begin(StageOf(r))' = Begin(StageOf(r)) /\ Reached(r) \in Nat
      /\ toks'[r] = toks[r] => Sparse(r)' = Sparse(r)
  BY Moves, RankTypes, Static, DoneTypes DEF Passes, Streams, TypeOK, Sparse
<1>. DEFINE In == Working \cup {"recvmask", "send", "sendmask", "head"}
<1>2. ASSUME pc'[r] \notin In
      PROVE  HiddenAt(r)'
  BY <1>2 DEF HiddenAt
<1>3. CASE StartPass(r)
  <2>1. /\ layer'[r] = 0 /\ toks' = toks
        /\ IF First(r) THEN hid'[r] = [toks |-> toks[r], done |-> <<>>] /\ pc'[r] = "layer"
                       ELSE pc'[r] = "recv"
    BY <1>3, StartPassAt
  <2>2. CASE First(r)
    <3>0. Sparse(r) \in BOOLEAN
      BY DEF Sparse
    <3>1. PICK s \in BOOLEAN : s = Sparse(r)
      BY <3>0
    <3>2. Begin(StageOf(r)) = 0
      BY <1>1, <2>2, SplitFacts
    <3>3. Reached(r)' = 0
      BY <1>1, <2>1, <2>2, <3>2 DEF Reached
    <3>4. Trace(0, s) = <<>>
      BY <1>1, TraceGrows
    <3>. QED
      BY <1>1, <2>1, <2>2, <3>1, <3>3, <3>4, HiddenIs
  <2>3. CASE ~First(r)
    BY <1>2, <2>1, <2>3 DEF Working
  <2>. QED
    BY <2>2, <2>3
<1>4. CASE Attention(r)
  <2>0. Sparse(r) \in BOOLEAN
    BY DEF Sparse
  <2>1. PICK l \in Nat, s \in BOOLEAN : l = Reached(r) /\ s = Sparse(r)
    BY <1>1, <2>0
  <2>2. l = Begin(StageOf(r)) + layer[r] /\ pc[r] = "layer" /\ layer[r] < Count(r)
    BY <1>1, <1>4, <2>1 DEF Attention, Reached
  <2>3. /\ pc'[r] = "mlp" /\ toks' = toks /\ layer' = layer /\ hid'[r].toks = hid[r].toks
        /\ hid'[r].done = Append(hid[r].done, Selection(r, l))
    BY <1>4, <2>2, AttentionAt
  <2>4. Reached(r)' = l + 1
    BY <1>1, <2>2, <2>3 DEF Reached
  <2>5. Selection(r, l) = Serial(l, s)
    BY <2>1, <2>2, SelectsAsSerial
  <2>6. hid[r].toks = toks[r] /\ hid[r].done = Trace(l, s)
    BY <2>1, <2>2 DEF HiddenAt, Working
  <2>7. hid'[r].done = Trace(l + 1, s)
    BY <1>1, <2>3, <2>5, <2>6, TraceGrows
  <2>. QED
    BY <1>1, <2>1, <2>3, <2>4, <2>6, <2>7, HiddenIs
<1>5. CASE Mlp(r)
  <2>1. pc[r] = "mlp" /\ pc'[r] = "add" /\ UNCHANGED <<toks, layer, hid>>
    BY <1>5, MlpAt
  <2>2. Reached(r)' = Reached(r)
    BY <1>1, <2>1 DEF Reached
  <2>. QED
    BY <1>1, <2>1, <2>2, HiddenStays DEF Working
<1>6. CASE LayerDone(r)
  <2>1. pc[r] = "add" /\ pc'[r] = "layer" /\ layer'[r] = layer[r] + 1 /\ UNCHANGED <<toks, hid>>
    BY <1>6, LayerDoneAt
  <2>2. Reached(r)' = Reached(r)
    BY <1>1, <2>1 DEF Reached
  <2>. QED
    BY <1>1, <2>1, <2>2, HiddenStays DEF Working
<1>7. CASE StackDone(r)
  <2>1. pc[r] = "layer" /\ pc'[r] \in {"send", "head"} /\ UNCHANGED <<toks, layer, hid>>
    BY <1>7, StackDoneAt
  <2>2. Reached(r)' = Reached(r)
    BY <1>1, <2>1 DEF Reached
  <2>. QED
    BY <1>1, <2>1, <2>2, HiddenStays DEF Working
<1>8. CASE pc[r] \notin {"begin", "layer", "mlp", "add"}
  <2>1. pc'[r] \in {"dead", "begin", "combine", "sample", "bcast", "end"}
    BY <1>1, <1>8, Moves
  <2>. QED
    BY <1>2, <2>1 DEF Working
<1>9. pc[r] \in {"begin", "layer", "mlp", "add"} =>
        StartPass(r) \/ Attention(r) \/ Mlp(r) \/ LayerDone(r) \/ StackDone(r)
  BY DEF Step, Load, LmHead, Combine, NextGiven, Sample, Bcast
<1>. QED
  BY <1>3, <1>4, <1>5, <1>6, <1>7, <1>8, <1>9

LEMMA TransferHidden ==
  ASSUME Streams, Passes, Complete, OneStream, \A x \in Rank : HopAt(x) /\ MaskAt(x) /\ HiddenAt(x),
         NEW r \in Rank, Transfer(r)
  PROVE  \A x \in Rank : HiddenAt(x)'
<1>1. PICK q \in Rank : q = NextRank(r)
  BY TransferFacts DEF Streams
<1>2. /\ cfg' = cfg /\ Rank' = Rank /\ q # r /\ cfg \in Configs /\ HopAt(r) /\ MaskAt(r)
      /\ HiddenAt(r) /\ HiddenAt(q) /\ ~Last(r)
      /\ pc[r] \in {"send", "sendmask"} /\ pc[q] \in {"recv", "recvmask"}
      /\ pc'[r] \in {"sendmask", "sample"} /\ pc'[q] \in {"recvmask", "layer"}
      /\ \A x \in Rank \ {r, q} : pc'[x] = pc[x]
      /\ \A x \in Rank \ {q} : hid'[x] = hid[x]
      /\ IF pc[q] = "recv" THEN hid'[q] = (IF pc[r] = "send" THEN hid[r] ELSE NoHidden)
         ELSE hid' = hid
      /\ UNCHANGED <<cfg, part, toks, rows, layer, calls, pick>>
  BY <1>1, TransferFacts DEF Streams, TypeOK
<1>3. \A x \in Rank : Begin(StageOf(x))' = Begin(StageOf(x)) /\ Sparse(x)' = Sparse(x)
  BY <1>2, Static DEF Sparse
<1>4. /\ layer[q] = 0 /\ layer[r] = Count(r) /\ PassAt(r) /\ PassAt(q)
      /\ Begin(StageOf(r)) \in Nat /\ Begin(StageOf(q)) \in Nat /\ Count(r) \in Nat
      /\ Begin(StageOf(r)) + Count(r) = Begin(StageOf(q))
  BY <1>1, <1>2, NextBegins DEF Streams, Passes, PassAt, At, BoundsAt, Loading
<1>5. Reached(r) = Begin(StageOf(q)) /\ Reached(r)' = Reached(r)
  BY <1>2, <1>3, <1>4 DEF Reached
<1>6. Reached(q) = Begin(StageOf(q)) /\ Reached(q)' = Reached(q)
  BY <1>2, <1>3, <1>4 DEF Reached
<1>7. ASSUME NEW x \in Rank \ {r, q} PROVE HiddenAt(x)'
  <2>1. Reached(x)' = Reached(x) /\ HiddenAt(x)
    BY <1>2, <1>3, <1>7 DEF Reached
  <2>2. CASE pc[x] \in Working \cup {"recvmask", "send", "sendmask", "head"}
    BY <1>2, <1>7, <2>1, <2>2, HiddenStays
  <2>3. CASE pc[x] \notin Working \cup {"recvmask", "send", "sendmask", "head"}
    BY <1>2, <1>7, <2>3 DEF HiddenAt
  <2>. QED
    BY <2>2, <2>3
<1>8. HiddenAt(r)'
  BY <1>2, <1>5, HiddenStays
<1>9. HiddenAt(q)'
  <2>1. CASE pc[q] = "recvmask"
    BY <1>2, <1>6, <2>1, HiddenStays
  <2>2. CASE pc[q] = "recv"
    <3>1. pc[r] = "send" /\ Len(toks[r]) = Len(toks[q])
      <4>1. pc[r] = "send"
        BY <1>1, <1>2, <2>2 DEF HopAt
      <4>. QED
        BY <1>1, <1>2, <2>2, <4>1, SameDecision
    <3>2. toks[r] = toks[q]
      <4>1. cfg.mode = "given"
        <5>1. cfg.pp # 1
          <6>1. StageOf(r) \in 0 .. cfg.pp - 1 /\ cfg.pp \in Nat \ {0} /\ StageOf(r) # cfg.pp - 1
            BY <1>2, ConfigFacts, RankPlace DEF Last
          <6>. QED
            BY <6>1
        <5>. QED
          BY <5>1 DEF OneStream
      <4>2. /\ \A i \in 1 .. Len(toks[r]) : toks[r][i] = Tokens[i]
            /\ \A i \in 1 .. Len(toks[q]) : toks[q][i] = Tokens[i]
        BY <4>1 DEF Streams, At, StreamAt
      <4>3. toks[r] \in Seq(Token) /\ toks[q] \in Seq(Token)
        BY RankTypes DEF Streams
      <4>4. \A i \in 1 .. Len(toks[r]) : toks[r][i] = toks[q][i]
        BY <3>1, <4>2
      <4>. QED
        BY <3>1, <4>3, <4>4, SeqEqual
    <3>3. PICK n, s : n = Reached(r) /\ s = Sparse(r)
      OBVIOUS
    <3>4. Sparse(q)' = s /\ Reached(q)' = n
      <4>1. Sparse(q) = Sparse(r)
        BY <3>2 DEF Sparse
      <4>. QED
        BY <1>3, <1>5, <1>6, <3>3, <4>1
    <3>5. hid[r].toks = toks[r] /\ hid[r].done = Trace(n, s)
      BY <1>2, <3>1, <3>3 DEF HiddenAt
    <3>. QED
      BY <1>2, <2>2, <3>1, <3>2, <3>4, <3>5, HiddenIs
  <2>. QED
    BY <1>2, <2>1, <2>2
<1>. QED
  BY <1>7, <1>8, <1>9


LEMMA HiddenStep ==
  ASSUME Streams, Passes, Hops, Hidden, [Next]_vars
  PROVE  Hidden'
<1>1. SUFFICES ASSUME Complete, OneStream PROVE (\A x \in Rank : HiddenAt(x))'
  <2>1. cfg' = cfg
    BY Moves, TransferFacts DEF Next, vars, Streams, Passes
  <2>. QED
    BY <2>1, Static DEF Hidden
<1>2. \A x \in Rank : HopAt(x) /\ MaskAt(x) /\ HiddenAt(x)
  BY <1>1 DEF Hops, Hidden
<1>3. ASSUME cfg' = cfg, NEW x \in Rank, Idle(x) PROVE HiddenAt(x)'
  <2>1. Reached(x)' = Reached(x) /\ HiddenAt(x)
    BY <1>2, <1>3, PassIdle
  <2>2. CASE pc[x] \in Working \cup {"recvmask", "send", "sendmask", "head"}
    BY <1>3, <2>1, <2>2, HiddenStays DEF Idle
  <2>3. CASE pc[x] \notin Working \cup {"recvmask", "send", "sendmask", "head"}
    BY <1>3, <2>3 DEF HiddenAt, Idle
  <2>. QED
    BY <2>2, <2>3
<1>4. ASSUME NEW r \in Rank, Step(r), ~Transfer(r)
      PROVE  (\A x \in Rank : HiddenAt(x))'
  <2>1. cfg' = cfg /\ Rank' = Rank
    BY <1>4, Moves, Static DEF Passes
  <2>2. HiddenAt(r)'
    BY <1>1, <1>2, <1>4, HiddenSteps
  <2>3. ASSUME NEW x \in Rank \ {r} PROVE HiddenAt(x)'
    <3>1. Idle(x)
      BY <1>4, OthersIdle
    <3>. QED
      BY <1>3, <2>1, <3>1
  <2>. QED
    BY <2>1, <2>2, <2>3
<1>5. ASSUME NEW r \in Rank, Transfer(r)
      PROVE  (\A x \in Rank : HiddenAt(x))'
  <2>1. Rank' = Rank
    BY <1>5, TransferFacts DEF Streams
  <2>. QED
    BY <1>1, <1>2, <1>5, <2>1, TransferHidden
<1>6. CASE UNCHANGED vars
  <2>1. cfg' = cfg /\ Rank' = Rank /\ \A x : Idle(x)
    BY <1>6, Static DEF vars, Idle
  <2>. QED
    BY <1>3, <2>1
<1>. QED
  BY <1>4, <1>5, <1>6 DEF Next

LEMMA AlwaysHidden == Spec => []Hidden
<1>1. Init => Hidden
  <2>. SUFFICES ASSUME Init, NEW r \in Rank PROVE HiddenAt(r)
    BY DEF Hidden
  <2>1. pc[r] = "load"
    BY DEF Init
  <2>. QED
    BY <2>1 DEF HiddenAt, Working
<1>2. Streams /\ Passes /\ Hops /\ Hidden /\ [Next]_vars => Hidden'
  BY HiddenStep
<1>. QED
  BY <1>1, <1>2, AlwaysStreams, AlwaysPasses, AlwaysHops, PTL DEF Spec

\* Whatever the split of the layers over stages and of the linears over ranks, a head is
\* given a hidden state of its own pass that went through all layers in order, each of
\* them attending to what it attends to when one process runs them all, and each sum of
\* a stage having every product of its linears once.
THEOREM PassesAreSerial == Spec => []AttendsAsSerial
<1>1. ASSUME Streams, Passes, Hidden, Complete, OneStream, NEW r \in Rank, pc[r] = "head"
      PROVE  /\ \A q \in Rank : Count(q) > 0 => SumsWhole(q)
             /\ hid[r].toks = toks[r]
             /\ hid[r].done = [i \in 1 .. cfg.layers |-> Serial(i - 1, Sparse(r))]
  <2>1. \A q \in Rank : Count(q) > 0 => SumsWhole(q)
    BY <1>1, StagesSumWhole
  <2>2. hid[r].toks = toks[r] /\ hid[r].done = Trace(Reached(r), Sparse(r))
    BY <1>1 DEF Hidden, HiddenAt
  <2>3. /\ cfg \in Configs /\ Last(r) /\ layer[r] = Count(r) /\ Count(r) \in Int
        /\ Begin(StageOf(r)) \in Nat
    BY <1>1, RankTypes DEF Streams, TypeOK, Passes, PassAt, At, BoundsAt
  <2>4. Begin(StageOf(r)) + Count(r) = cfg.layers
    BY <2>3, SplitFacts
  <2>5. Reached(r) = cfg.layers
    BY <1>1, <2>3, <2>4 DEF Reached
  <2>. QED
    BY <2>1, <2>2, <2>5 DEF Trace
<1>2. Streams /\ Passes /\ Hidden => AttendsAsSerial
  BY <1>1 DEF AttendsAsSerial
<1>. QED
  BY <1>2, AlwaysStreams, AlwaysPasses, AlwaysHidden, PTL

-----------------------------------------------------------------------------
(* The heads *)

\* The place in r's order of calls of what it gives to its i-th head.
HeadPlace(r, i) == (i - 1) * PassCalls(r) + 2 * Count(r) + 1

\* s is the stream the i-th pass of r runs.
RunBy(s, r, i) ==
  /\ Len(s) = PromptLen + i - 1 /\ Len(s) <= Len(toks[r])
  /\ \A k \in 1 .. Len(s) : s[k] = toks[r][k]

GaveAt(r) ==
  Last(r) /\ Sharded /\ Count(r) >= 0 =>
    \A i \in Nat \ {0} : HeadPlace(r, i) <= Len(calls[r]) => RunBy(calls[r][HeadPlace(r, i)], r, i)

\* What a rank picked is the first maximum over the whole vocabulary.
PickAt(r) == Last(r) /\ pc[r] = "sample" => pick[r] = FirstMax([t \in Token |-> Score(toks[r], t)])

Heads == Complete /\ OneStream => \A r \in Rank : GaveAt(r) /\ PickAt(r)


\* A rank between passes or in one has made its calls up to a place; the next one is for
\* its head just when it stands where its layers are done.
LEMMA HeadPlaces ==
  ASSUME Streams, NEW r \in Rank, Last(r), Sharded, pc[r] # "end", pc[r] \notin Loading,
         InPass(r) < PassCalls(r), NEW i \in Nat \ {0}
  PROVE  /\ HeadPlace(r, i) \in Nat \ {0} /\ Len(calls[r]) \in Nat
         /\ HeadPlace(r, i) = Len(calls[r]) + 1 <=> i = Passed(r) + 1 /\ InPass(r) = 2 * Count(r)
<1>1. /\ Passed(r) \in Nat /\ PassCalls(r) \in Nat /\ InPass(r) \in Nat /\ Count(r) \in Nat
      /\ PassCalls(r) = 2 * Count(r) + 1 + (IF cfg.mode = "given" THEN 0 ELSE 1)
  BY Place DEF Loading, HeadCalls
<1>2. Len(calls[r]) = Passed(r) * PassCalls(r) + InPass(r)
  BY Place DEF Loading
<1>3. PICK b \in Nat, d \in Nat, c \in Nat, j \in Nat :
        b = Passed(r) /\ d = PassCalls(r) /\ c = Count(r) /\ j = InPass(r)
  BY <1>1
<1>. DEFINE a == i - 1
            x == 2 * c + 1
            y == j + 1
            m == a * d
            n == b * d
<1>4. x \in 1 .. d /\ y \in 1 .. d /\ a \in Nat
  BY <1>1, <1>3
<1>5. HeadPlace(r, i) = m + x /\ Len(calls[r]) + 1 = n + y /\ Len(calls[r]) = n + j
  <2>1. HeadPlace(r, i) = m + 2 * c + 1
    BY <1>3 DEF HeadPlace
  <2>2. Len(calls[r]) = n + j
    BY <1>2, <1>3
  <2>3. m \in Nat /\ n \in Nat
    BY <1>4
  <2>. HIDE DEF m, n
  <2>. QED
    BY <2>1, <2>2, <2>3
<1>6. m \in Nat /\ n \in Nat
  BY <1>4
<1>7. m + x = n + y <=> a = b /\ x = y
  <2>. HIDE DEF x, y, a
  <2>1. ASSUME m + x = n + y PROVE a = b /\ x = y
    BY <1>4, <2>1, SamePlace
  <2>. QED
    BY <2>1
<1>8. (a = b <=> i = Passed(r) + 1) /\ (x = y <=> InPass(r) = 2 * Count(r))
  BY <1>3
<1>9. HeadPlace(r, i) \in Nat \ {0} /\ Len(calls[r]) \in Nat
  <2>. HIDE DEF m, n
  <2>. QED
    BY <1>4, <1>5, <1>6
<1>. QED
  BY <1>5, <1>7, <1>8, <1>9

\* Tokens are only added to a stream.
LEMMA RunStays ==
  ASSUME Streams, NEW r \in Rank, NEW s, NEW i, RunBy(s, r, i), Len(s) \in Nat,
         toks'[r] = toks[r] \/ \E t \in Token : toks'[r] = Append(toks[r], t)
  PROVE  RunBy(s, r, i)'
<1>1. toks[r] \in Seq(Token) /\ Len(toks[r]) \in Nat
  BY RankTypes DEF Streams
<1>2. CASE toks'[r] = toks[r]
  BY <1>2 DEF RunBy
<1>3. CASE \E t \in Token : toks'[r] = Append(toks[r], t)
  <2>1. /\ Len(toks'[r]) = Len(toks[r]) + 1
        /\ \A k \in 1 .. Len(toks[r]) : toks'[r][k] = toks[r][k]
    BY <1>1, <1>3, AppendProperties
  <2>2. \A k \in 1 .. Len(s) : k \in 1 .. Len(toks[r])
    BY <1>1 DEF RunBy
  <2>. QED
    BY <1>1, <2>1, <2>2 DEF RunBy
<1>. QED
  BY <1>2, <1>3

\* A step that leaves r's calls alone, or enters one that is not for its head.
LEMMA GaveStays ==
  ASSUME Streams, cfg' = cfg, NEW r \in Rank, GaveAt(r), Len(calls[r]) \in Nat,
         toks'[r] = toks[r] \/ \E t \in Token : toks'[r] = Append(toks[r], t),
         \/ calls'[r] = calls[r]
         \/ \E what \in Seq(Token) :
              /\ calls'[r] = Append(calls[r], what)
              /\ Last(r) /\ Sharded /\ Count(r) >= 0 =>
                   \A i \in Nat \ {0} : HeadPlace(r, i) = Len(calls[r]) + 1 =>
                     RunBy(what, r, i)'
  PROVE  GaveAt(r)'
<1>1. /\ (Last(r)' <=> Last(r)) /\ (Sharded' <=> Sharded) /\ Count(r)' = Count(r)
      /\ PassCalls(r)' = PassCalls(r) /\ \A i : HeadPlace(r, i)' = HeadPlace(r, i)
  BY Static DEF HeadPlace
<1>2. SUFFICES ASSUME Last(r), Sharded, Count(r) >= 0, NEW i \in Nat \ {0},
                      HeadPlace(r, i) <= Len(calls'[r])
               PROVE  RunBy(calls[r][HeadPlace(r, i)], r, i)'
  BY <1>1 DEF GaveAt
<1>3. calls[r] \in Seq(Seq(Token)) /\ Count(r) \in Int /\ PassCalls(r) \in Int /\ HeadCalls(r) \in {0, 1}
  BY RankTypes DEF Streams
<1>4. PICK p \in Nat \ {0} : p = HeadPlace(r, i)
  <2>1. PassCalls(r) \in Nat /\ i - 1 \in Nat /\ Count(r) \in Nat
    BY <1>2, <1>3 DEF PassCalls
  <2>2. PICK m \in Nat : m = (i - 1) * PassCalls(r)
    BY <2>1
  <2>3. HeadPlace(r, i) = m + 2 * Count(r) + 1
    BY <2>2 DEF HeadPlace
  <2>. QED
    BY <2>1, <2>3
<1>5. ASSUME p <= Len(calls[r]), calls'[r][p] = calls[r][p]
      PROVE  RunBy(calls[r][HeadPlace(r, i)], r, i)'
  <2>1. RunBy(calls[r][p], r, i)
    BY <1>2, <1>4, <1>5 DEF GaveAt
  <2>2. p \in 1 .. Len(calls[r])
    BY <1>4, <1>5
  <2>3. calls[r][p] \in Seq(Token)
    BY <1>3, <2>2, ElementOfSeq
  <2>4. PICK s \in Seq(Token) : s = calls[r][p]
    BY <2>3
  <2>5. RunBy(s, r, i) /\ Len(s) \in Nat
    BY <2>1, <2>4, LenProperties
  <2>6. RunBy(s, r, i)'
    BY <2>5, RunStays
  <2>. QED
    BY <1>1, <1>4, <1>5, <2>4, <2>6 DEF RunBy
<1>6. CASE calls'[r] = calls[r]
  BY <1>2, <1>4, <1>5, <1>6
<1>7. CASE calls'[r] # calls[r]
  <2>1. PICK what \in Seq(Token) :
              /\ calls'[r] = Append(calls[r], what)
              /\ HeadPlace(r, i) = Len(calls[r]) + 1 => RunBy(what, r, i)'
    BY <1>2, <1>7
  <2>2. /\ Len(calls'[r]) = Len(calls[r]) + 1 /\ calls'[r][Len(calls[r]) + 1] = what
        /\ \A k \in 1 .. Len(calls[r]) : calls'[r][k] = calls[r][k]
    BY <1>3, <2>1, AppendProperties
  <2>3. CASE p <= Len(calls[r])
    <3>1. p \in 1 .. Len(calls[r])
      BY <1>4, <2>3
    <3>. QED
      BY <1>5, <2>2, <2>3, <3>1
  <2>4. CASE p = Len(calls[r]) + 1
    <3>1. RunBy(what, r, i)'
      BY <1>4, <2>1, <2>4
    <3>2. calls'[r][HeadPlace(r, i)'] = what
      BY <1>1, <1>4, <2>2, <2>4
    <3>. QED
      BY <3>1, <3>2 DEF RunBy
  <2>. QED
    BY <1>2, <1>4, <2>2, <2>3, <2>4
<1>. QED
  BY <1>6, <1>7


\* However a divided head is combined, the logits summed or gathered are of the stream
\* every rank of the stage has run.
LEMMA CombinesWhole ==
  ASSUME Streams, \A x \in Rank : GaveAt(x), NEW r \in Rank, Combine(r)
  PROVE  pick'[r] = FirstMax([t \in Token |-> Score(toks[r], t)])
<1>1. /\ TypeOK /\ cfg \in Configs /\ Last(r) /\ pc[r] = "combine" /\ Met(r)
      /\ pick'[r] = FromLogits(r) \/ pick'[r] = FromPairs(r)
  BY CombineAt DEF Streams, At, BoundsAt, TypeOK
<1>2. /\ Sharded
      /\ \A w \in Shards : /\ Given(Root(r) + w, r) \in Seq(Token)
                           /\ \A t \in Token : Logit(r, w, t) \in Int
  BY <1>1, GivenTypes
<1>3. pick'[r] = FirstMax(Whole(r))
  BY <1>1, <1>2, CombinedIsWhole
<1>4. PICK i \in Nat \ {0} : i = Passed(r) + 1
  BY <1>1, Place
<1>5. HeadPlace(r, i) = Len(calls[r]) /\ PromptLen + i - 1 = Len(toks[r])
  <2>1. /\ Len(calls[r]) = Passed(r) * PassCalls(r) + (2 * Count(r) + 1)
        /\ Passed(r) * PassCalls(r) \in Nat /\ Count(r) \in Nat
    BY <1>1, Place DEF InPass
  <2>2. i - 1 = Passed(r) /\ Len(toks[r]) \in Nat /\ PromptLen \in Nat
    <3>1. Passed(r) \in Nat
      BY <1>1, Place
    <3>2. Len(toks[r]) \in Nat /\ PromptLen \in Nat
      BY <1>1, RankTypes, Sizes
    <3>. QED
      BY <1>4, <3>1, <3>2
  <2>3. HeadPlace(r, i) = Passed(r) * PassCalls(r) + 2 * Count(r) + 1
    BY <2>2 DEF HeadPlace
  <2>4. PICK m \in Nat : m = Passed(r) * PassCalls(r)
    BY <2>1
  <2>5. HeadPlace(r, i) = Len(calls[r])
    BY <2>1, <2>3, <2>4
  <2>6. PromptLen + (i - 1) = Len(toks[r])
    BY <2>2 DEF Passed
  <2>. QED
    BY <2>2, <2>5, <2>6
<1>6. ASSUME NEW w \in Shards PROVE Given(Root(r) + w, r) = toks[r]
  <2>1. PICK q \in Stage(r) : q = Root(r) + w
    BY <1>1, StageMates DEF Shards
  <2>2. /\ q \in Rank /\ Count(q) = Count(r) /\ Last(q) /\ PassCalls(q) = PassCalls(r)
    BY <1>1, StageMates DEF PassCalls, HeadCalls
  <2>3. Count(q) \in Nat /\ HeadPlace(q, i) = HeadPlace(r, i)
    BY <1>1, <2>2, Place DEF HeadPlace
  <2>4. HeadPlace(q, i) <= Len(calls[q])
    BY <1>1, <1>5, <2>3 DEF Met
  <2>5. PICK s \in Seq(Token) : s = Given(q, r)
    BY <1>2, <2>1
  <2>6. RunBy(s, q, i)
    BY <1>2, <1>5, <2>2, <2>3, <2>4, <2>5 DEF GaveAt, Given
  <2>7. /\ Len(s) = Len(toks[r]) /\ Len(s) <= Len(toks[q]) /\ Len(s) \in Nat
        /\ toks[q] \in Seq(Token) /\ toks[r] \in Seq(Token) /\ Len(toks[q]) \in Nat
    BY <1>1, <1>5, <2>2, <2>6, LenProperties, RankTypes DEF RunBy
  <2>8. \A k \in 1 .. Len(s) : s[k] = toks[r][k]
    <3>1. ASSUME NEW k \in 1 .. Len(s) PROVE s[k] = toks[r][k]
      <4>1. k \in 1 .. Len(toks[r]) /\ k \in 1 .. Len(toks[q])
        BY <2>7
      <4>2. k \in DOMAIN toks[r] \cap DOMAIN toks[q]
        BY <2>7, <4>1, LenProperties
      <4>. QED
        BY <2>6, <4>2, MatesEqual DEF RunBy
    <3>. QED
      BY <3>1
  <2>9. s = toks[r]
    BY <2>7, <2>8, SeqEqual
  <2>. QED
    BY <2>1, <2>5, <2>9
<1>7. \A t \in Token : Logit(r, t \div Width, t) = Score(toks[r], t)
  <2>1. \A t \in Token : t \div Width \in Shards
    BY <1>1, <1>2, ShardPlaces
  <2>. QED
    BY <1>6, <2>1 DEF Logit
<1>8. Whole(r) = [t \in Token |-> Score(toks[r], t)]
  BY <1>7, Zenon DEF Whole
<1>. QED
  BY <1>3, <1>8

\* What a step does for the heads of the rank that takes it.
LEMMA HeadSteps ==
  ASSUME Streams, Passes, \A x \in Rank : GaveAt(x), NEW r \in Rank, Step(r), ~Transfer(r),
         HiddenAt(r), PickAt(r)
  PROVE  GaveAt(r)' /\ PickAt(r)'
<1>1. /\ cfg' = cfg /\ (Last(r)' <=> Last(r)) /\ GaveAt(r) /\ PassAt(r) /\ cfg \in Configs
      /\ Len(calls[r]) \in Nat /\ toks[r] \in Seq(Token) /\ <<>> \in Seq(Token)
  <2>1. PassAt(r) /\ TypeOK /\ cfg \in Configs
    BY DEF Passes, Streams, TypeOK
  <2>2. cfg' = cfg
    BY <2>1, Moves
  <2>3. Len(calls[r]) \in Nat /\ toks[r] \in Seq(Token) /\ <<>> \in Seq(Token)
    BY <2>1, RankTypes
  <2>. QED
    BY <2>1, <2>2, <2>3, Static
<1>2. ASSUME calls'[r] = calls[r],
             toks'[r] = toks[r] \/ \E t \in Token : toks'[r] = Append(toks[r], t)
      PROVE  GaveAt(r)'
  BY <1>1, <1>2, GaveStays
<1>3. ASSUME NEW what \in Seq(Token), calls'[r] = Append(calls[r], what), toks'[r] = toks[r],
             pc[r] # "end", pc[r] \notin Loading,
             Last(r) /\ Sharded => InPass(r) < PassCalls(r) /\ InPass(r) # 2 * Count(r)
      PROVE  GaveAt(r)'
  <2>1. Last(r) /\ Sharded => \A i \in Nat \ {0} : HeadPlace(r, i) # Len(calls[r]) + 1
    BY <1>3, HeadPlaces
  <2>. QED
    BY <1>1, <1>3, <2>1, GaveStays
<1>4. ASSUME pc'[r] # "sample" PROVE PickAt(r)'
  BY <1>4 DEF PickAt
<1>5. CASE Load(r)
  BY <1>2, <1>4, <1>5, LoadAt
<1>6. CASE StartPass(r)
  BY <1>2, <1>4, <1>6, StartPassAt
<1>7. CASE Attention(r)
  <2>1. /\ pc[r] = "layer" /\ pc'[r] = "mlp" /\ layer[r] < Count(r) /\ toks' = toks
        /\ calls'[r] = Append(calls[r], <<>>)
    BY <1>7, AttentionAt
  <2>2. Last(r) /\ Sharded => InPass(r) < PassCalls(r) /\ InPass(r) # 2 * Count(r)
    <3>1. /\ Count(r) \in Nat /\ layer[r] \in Nat /\ HeadCalls(r) \in {0, 1}
          /\ PassCalls(r) = 2 * Count(r) + HeadCalls(r) + (IF cfg.mode = "given" THEN 0 ELSE 1)
          /\ InPass(r) = 2 * layer[r]
      BY <2>1, Place DEF InPass
    <3>. QED
      BY <2>1, <3>1
  <2>. QED
    BY <1>1, <1>3, <1>4, <2>1, <2>2 DEF Loading
<1>8. CASE Mlp(r)
  <2>1. /\ pc[r] = "mlp" /\ pc'[r] = "add" /\ toks' = toks /\ calls'[r] = Append(calls[r], <<>>)
    BY <1>8, MlpAt
  <2>2. Last(r) /\ Sharded => InPass(r) < PassCalls(r) /\ InPass(r) # 2 * Count(r)
    <3>1. /\ Count(r) \in Nat /\ layer[r] \in Nat /\ HeadCalls(r) \in {0, 1} /\ layer[r] < Count(r)
          /\ PassCalls(r) = 2 * Count(r) + HeadCalls(r) + (IF cfg.mode = "given" THEN 0 ELSE 1)
          /\ InPass(r) = 2 * layer[r] + 1
      BY <2>1, Place DEF InPass, BoundsAt
    <3>. QED
      BY <3>1
  <2>. QED
    BY <1>1, <1>3, <1>4, <2>1, <2>2 DEF Loading
<1>9. CASE LayerDone(r)
  BY <1>2, <1>4, <1>9, LayerDoneAt
<1>10. CASE StackDone(r)
  <2>1. pc'[r] \in {"head", "send"} /\ calls' = calls /\ toks' = toks
    BY <1>10, StackDoneAt
  <2>. QED
    BY <1>2, <1>4, <2>1
<1>11. CASE LmHead(r)
  <2>1. /\ pc[r] = "head" /\ toks' = toks
        /\ IF Sharded
           THEN pc'[r] = "combine" /\ calls'[r] = Append(calls[r], hid[r].toks)
           ELSE /\ pc'[r] = "sample" /\ calls' = calls
                /\ pick'[r] = FirstMax([t \in Token |-> Score(hid[r].toks, t)])
    BY <1>11, LmHeadAt
  <2>2. hid[r].toks = toks[r]
    BY <2>1 DEF HiddenAt
  <2>3. CASE ~Sharded
    BY <1>2, <2>1, <2>2, <2>3 DEF PickAt
  <2>4. CASE Sharded
    <3>1. ASSUME NEW i \in Nat \ {0}, HeadPlace(r, i) = Len(calls[r]) + 1, Last(r)
          PROVE  RunBy(toks[r], r, i)'
      <4>1. InPass(r) = 2 * Count(r) /\ InPass(r) < PassCalls(r)
        BY <2>1, <2>4, <3>1, Place DEF InPass, HeadCalls
      <4>2. i = Passed(r) + 1
        BY <2>1, <2>4, <3>1, <4>1, HeadPlaces DEF Loading
      <4>3. Len(toks[r]) = PromptLen + i - 1 /\ Len(toks[r]) \in Nat
        BY <1>1, <4>2, LenProperties, Sizes DEF Passed
      <4>. QED
        BY <2>1, <4>3 DEF RunBy
    <3>2. GaveAt(r)'
      <4>1. calls'[r] = Append(calls[r], toks[r]) /\ toks'[r] = toks[r]
        BY <2>1, <2>2, <2>4
      <4>. QED
        BY <1>1, <3>1, <4>1, GaveStays
    <3>. QED
      BY <1>4, <2>1, <2>4, <3>2
  <2>. QED
    BY <2>3, <2>4
<1>12. CASE Combine(r)
  <2>1. pc'[r] = "sample" /\ calls' = calls /\ toks' = toks
    BY <1>12, CombineAt
  <2>2. pick'[r] = FirstMax([t \in Token |-> Score(toks[r], t)])
    BY <1>12, CombinesWhole
  <2>. QED
    BY <1>2, <2>1, <2>2 DEF PickAt
<1>13. CASE NextGiven(r)
  <2>1. Len(toks[r]) < Len(Tokens) => Tokens[Len(toks[r]) + 1] \in Token
    BY <1>1, Sizes, ElementOfSeq, LenProperties
  <2>2. /\ pc'[r] # "sample" /\ calls' = calls
        /\ toks'[r] = toks[r] \/ \E t \in Token : toks'[r] = Append(toks[r], t)
    BY <1>13, <2>1, NextGivenAt
  <2>. QED
    BY <1>2, <1>4, <2>2
<1>14. CASE Sample(r)
  <2>1. /\ pc[r] = "sample" /\ pc'[r] = "bcast" /\ toks' = toks /\ cfg.mode # "given"
        /\ \E t \in Token : calls'[r] = Append(calls[r], <<t>>)
    BY <1>14, SampleAt
  <2>2. PICK what \in Seq(Token) : calls'[r] = Append(calls[r], what)
    <3>1. \A t \in Token : <<t>> \in Seq(Token)
      OBVIOUS
    <3>. QED
      BY <2>1, <3>1
  <2>3. Last(r) /\ Sharded => InPass(r) < PassCalls(r) /\ InPass(r) # 2 * Count(r)
    <3>1. /\ Count(r) \in Nat /\ InPass(r) = 2 * Count(r) + HeadCalls(r)
          /\ PassCalls(r) = 2 * Count(r) + HeadCalls(r) + 1
      BY <2>1, Place DEF InPass
    <3>. QED
      BY <3>1 DEF HeadCalls
  <2>. QED
    BY <1>3, <1>4, <2>1, <2>2, <2>3 DEF Loading
<1>15. CASE Bcast(r)
  <2>1. /\ pc'[r] # "sample" /\ calls' = calls
        /\ toks'[r] = toks[r] \/ \E t \in Token : toks'[r] = Append(toks[r], t)
    BY <1>15, BcastAt
  <2>. QED
    BY <1>2, <1>4, <2>1
<1>. QED
  BY <1>5, <1>6, <1>7, <1>8, <1>9, <1>10, <1>11, <1>12, <1>13, <1>14, <1>15 DEF Step

LEMMA HeadsStep ==
  ASSUME Streams, Passes, Hidden, Heads, [Next]_vars
  PROVE  Heads'
<1>1. SUFFICES ASSUME Complete, OneStream PROVE (\A x \in Rank : GaveAt(x) /\ PickAt(x))'
  <2>1. cfg' = cfg
    BY Moves, TransferFacts DEF Next, vars, Streams, Passes
  <2>. QED
    BY <2>1, Static DEF Heads
<1>2. \A x \in Rank : GaveAt(x) /\ PickAt(x) /\ HiddenAt(x)
  BY <1>1 DEF Heads, Hidden
<1>3. ASSUME cfg' = cfg, NEW x \in Rank, toks'[x] = toks[x], calls'[x] = calls[x]
      PROVE  GaveAt(x)'
  BY <1>2, <1>3, GaveStays, RankTypes DEF Streams
<1>4. ASSUME cfg' = cfg, NEW x \in Rank, Idle(x) PROVE GaveAt(x)' /\ PickAt(x)'
  <2>1. GaveAt(x)'
    BY <1>3, <1>4 DEF Idle
  <2>2. PickAt(x)'
    BY <1>2, <1>4, Static DEF Idle, PickAt
  <2>. QED
    BY <2>1, <2>2
<1>5. ASSUME NEW r \in Rank, Step(r), ~Transfer(r)
      PROVE  (\A x \in Rank : GaveAt(x) /\ PickAt(x))'
  <2>1. cfg' = cfg /\ Rank' = Rank
    BY <1>5, Moves, Static DEF Passes
  <2>2. GaveAt(r)' /\ PickAt(r)'
    BY <1>2, <1>5, HeadSteps
  <2>3. ASSUME NEW x \in Rank \ {r} PROVE GaveAt(x)' /\ PickAt(x)'
    <3>1. Idle(x)
      BY <1>5, OthersIdle
    <3>. QED
      BY <1>4, <2>1, <3>1
  <2>. QED
    BY <2>1, <2>2, <2>3
<1>6. ASSUME NEW r \in Rank, Transfer(r)
      PROVE  (\A x \in Rank : GaveAt(x) /\ PickAt(x))'
  <2>1. PICK q \in Rank : q = NextRank(r)
    BY <1>6, TransferFacts DEF Streams
  <2>2. /\ cfg' = cfg /\ Rank' = Rank /\ q # r /\ ~Last(r)
        /\ pc'[r] \in {"sendmask", "sample"} /\ pc'[q] \in {"recvmask", "layer"}
        /\ \A x \in Rank \ {r, q} : pc'[x] = pc[x]
        /\ UNCHANGED <<cfg, part, toks, rows, layer, calls, pick>>
    BY <1>6, <2>1, TransferFacts DEF Streams
  <2>3. ASSUME NEW x \in Rank PROVE PickAt(x)'
    <3>1. Last(x)' <=> Last(x)
      BY <2>2, Static
    <3>2. x = r \/ x = q \/ pc'[x] = pc[x]
      BY <2>2
    <3>. QED
      BY <1>2, <2>2, <3>1, <3>2 DEF PickAt
  <2>. QED
    BY <1>3, <2>2, <2>3
<1>7. CASE UNCHANGED vars
  <2>1. cfg' = cfg /\ Rank' = Rank /\ \A x : Idle(x)
    BY <1>7, Static DEF vars, Idle
  <2>. QED
    BY <1>4, <2>1
<1>. QED
  BY <1>5, <1>6, <1>7 DEF Next

LEMMA AlwaysHeads == Spec => []Heads
<1>1. Init => Heads
  <2>. SUFFICES ASSUME Init, NEW r \in Rank PROVE GaveAt(r) /\ PickAt(r)
    BY DEF Heads
  <2>1. pc[r] = "load" /\ calls[r] = <<>> /\ cfg \in Configs
    BY DEF Init
  <2>2. Count(r) \in Int /\ HeadCalls(r) \in {0, 1} /\ Len(calls[r]) = 0
    BY <2>1, SplitFacts DEF HeadCalls
  <2>3. ASSUME Count(r) >= 0, NEW i \in Nat \ {0} PROVE ~(HeadPlace(r, i) <= Len(calls[r]))
    <3>1. PassCalls(r) \in Nat /\ i - 1 \in Nat
      BY <2>2, <2>3 DEF PassCalls
    <3>2. PICK m \in Nat : m = (i - 1) * PassCalls(r)
      BY <3>1
    <3>3. HeadPlace(r, i) = m + 2 * Count(r) + 1
      BY <3>2 DEF HeadPlace
    <3>. QED
      BY <2>2, <2>3, <3>3
  <2>. QED
    BY <2>1, <2>3 DEF GaveAt, PickAt
<1>2. Streams /\ Passes /\ Hidden /\ Heads /\ [Next]_vars => Heads'
  BY HeadsStep
<1>. QED
  BY <1>1, <1>2, AlwaysStreams, AlwaysPasses, AlwaysHidden, PTL DEF Spec

\* Every rank of the last stage comes out of every pass with the first largest logit over
\* the whole vocabulary, for the stream of that pass: divided over the ranks or not, and
\* whether zero-filled logits are summed or the winners of the shards compared.
THEOREM HeadsTakeFirstMax == Spec => []HeadsAgree
<1>1. ASSUME Streams, Passes, NEW r \in Rank, PickAt(r), Last(r), pc[r] = "sample"
      PROVE  pick[r] = FirstMax([t \in Token |-> Score(SubSeq(toks[r], 1, rows[r]), t)])
  <2>1. toks[r] \in Seq(Token) /\ rows[r] = Len(toks[r])
    BY <1>1, RankTypes DEF Streams, Passes, PassAt
  <2>2. SubSeq(toks[r], 1, rows[r]) = toks[r]
    <3>1. PICK s \in Seq(Token) : s = toks[r]
      BY <2>1
    <3>2. Len(s) \in 0 .. Len(s) /\ Len(s) \in Nat
      BY LenProperties
    <3>3. /\ SubSeq(s, 1, Len(s)) \in Seq(Token) /\ Len(SubSeq(s, 1, Len(s))) = Len(s)
          /\ \A i \in 1 .. Len(s) : SubSeq(s, 1, Len(s))[i] = s[i]
      BY <3>2, PrefixType
    <3>4. SubSeq(s, 1, Len(s)) = s
      BY <3>3, SeqEqual
    <3>. QED
      BY <2>1, <3>1, <3>4
  <2>. QED
    BY <1>1, <2>2 DEF PickAt
<1>2. Streams /\ Passes /\ Heads => HeadsAgree
  BY <1>1 DEF HeadsAgree, Heads
<1>. QED
  BY <1>2, AlwaysStreams, AlwaysPasses, AlwaysHeads, PTL

=============================================================================
