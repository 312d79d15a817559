---------------------------- MODULE StartupProofs ----------------------------
(***************************************************************************)
(* Proofs about Startup, for every number of ranks, layers, rows, packing  *)
(* workers, every prefetch distance and eviction lag, with and without     *)
(* serial loading and prefault.                                            *)
(***************************************************************************)
EXTENDS Startup, SequenceTheorems, TLAPS

-----------------------------------------------------------------------------
(* The inductive invariant *)

Kinds == {"barrier", "gather", "vote", "nccl", "custom"}

\* Collectives a rank enters before the upload, and before the handshake.
Own == IF Prefault THEN 1 ELSE 0
Before == (IF Serial THEN N ELSE 0) + Own
Layered == Before + L

\* Where a rank is in a collective.
Waiting == {"prefaulted", "endturn", "uploaded", "gathered", "voted", "serve"}

\* How many collectives a rank has entered, n, and how many layers it has uploaded,
\* u, are decided by where it is, p, and by the turn t that it counts.
At(r, p, n, t, u) ==
  /\ p \in {"config", "meet", "write", "join"} => n = 0 /\ t = 0
  /\ p \in {"turn", "endturn"} => Serial /\ t < N
  /\ p = "turn" => n = t + (IF t > r THEN Own ELSE 0)
  /\ p = "endturn" => n = t + 1 + (IF t >= r THEN Own ELSE 0)
  /\ p \in {"parse", "prefault", "prefaulted", "build"} /\ Serial => t = r
  /\ p \in {"parse", "prefault"} => n = IF Serial THEN r ELSE 0
  /\ p \in {"prefault", "prefaulted"} => Prefault
  /\ p \in {"prefaulted", "build"} => n = (IF Serial THEN r ELSE 0) + Own
  /\ p = "begin" => n = Before
  /\ p = "pack" => n = Before + u /\ u < L
  /\ p = "uploaded" => n = Before + u /\ u > 0
  /\ p \in {"alloc", "joining", "reduce"} => n = Layered
  /\ p = "gathered" => n = Layered + 1
  /\ p = "voted" => n = Layered + 2
  /\ p = "serve" => n = Layered + 3
  /\ p \in {"unwind", "dead"} => n <= Layered
  /\ u = IF n <= Before THEN 0 ELSE IF n <= Layered THEN n - Before ELSE L

Place(r) == At(r, pc[r], Len(coll[r]), turn[r], up[r])

Places == \A r \in Rank : Place(r)

\* Which kind the n-th collective of a rank is does not depend on the rank.
Scripted ==
  \A r \in Rank : \A n \in 1 .. Len(coll[r]) :
    /\ n <= Layered => coll[r][n] = "barrier"
    /\ n = Layered + 1 => coll[r][n] = "gather"
    /\ n = Layered + 2 => coll[r][n] = "vote"
    /\ n = Layered + 3 => coll[r][n] = mode[r]

\* A collective that a rank has left has been entered by all ranks.
Skew ==
  \A r, q \in Rank :
    Len(coll[r]) <= Len(coll[q]) + (IF pc[r] \in Waiting THEN 1 ELSE 0)

\* A rank that has decided found what every rank that votes has said, and what it
\* frees keeps the others from another decision.
Votes ==
  /\ \A r \in Rank : mode[r] # "unset" <=> pc[r] = "serve"
  /\ \A r \in Rank : mode[r] = "custom" => \A q \in Rank : Ok(q) /\ pc[q] \in {"voted", "serve"}
  /\ \A r \in Rank : mode[r] = "nccl" => ~created[r]

\* What has been packed of a layer is of that layer.
PackedRows ==
  /\ \A r \in Rank : \A w \in packed[r] : \A i \in Share(w) : stage[r][i] = up[r]
  /\ \A r \in Rank : pc[r] # "pack" /\ pc[r] \notin {"dead", "unwind"} => packed[r] = {}

\* Once a prefetch thread has been started, every rank is through with prefaulting.
Begun ==
  (\E r \in Rank : pfOn[r] # "off") => \A q \in Rank : Len(coll[q]) >= Before

IndInv ==
  TypeOK /\ Places /\ Scripted /\ Skew /\ Votes /\ PackedRows /\ Begun /\ DeviceHoldsLayers

-----------------------------------------------------------------------------
(* Sizes *)

LEMMA Sizes ==
  /\ Own \in 0 .. 1 /\ Before \in Nat /\ Layered \in Nat
  /\ Layered = Before + L /\ L > 0
  /\ (Serial => Before = N + Own)
  /\ (~Serial => Before = Own)
  /\ \A r \in Rank : r \in Nat /\ r < N
BY ParamAssumption DEF Own, Before, Layered, Rank

LEMMA LenCalls ==
  ASSUME TypeOK, NEW r \in Rank
  PROVE  Len(coll[r]) \in Nat /\ coll[r] \in Seq(Kinds)
BY LenProperties DEF TypeOK, Kinds

\* What a rank's entering a collective does.
LEMMA EnterEffect ==
  ASSUME TypeOK, NEW r \in Rank, NEW kind \in Kinds, Enter(r, kind)
  PROVE  /\ coll' \in [Rank -> Seq(Kinds)]
         /\ \A q \in Rank \ {r} : coll'[q] = coll[q]
         /\ Len(coll'[r]) = Len(coll[r]) + 1
         /\ \A n \in 1 .. Len(coll[r]) : coll'[r][n] = coll[r][n]
         /\ coll'[r][Len(coll[r]) + 1] = kind
<1>1. coll \in [Rank -> Seq(Kinds)]
  BY DEF TypeOK, Kinds
<1>2. /\ coll'[r] = Append(coll[r], kind)
      /\ \A q \in Rank \ {r} : coll'[q] = coll[q]
      /\ coll' \in [Rank -> Seq(Kinds)]
  BY <1>1, AppendProperties DEF Enter
<1>. QED
  BY <1>1, <1>2, AppendProperties

\* Where the ranks are after one of them has moved.
LEMMA GotoEffect ==
  ASSUME TypeOK, NEW r \in Rank, NEW there, Goto(r, there)
  PROVE  pc'[r] = there /\ \A q \in Rank \ {r} : pc'[q] = pc[q]
BY DEF Goto, TypeOK

-----------------------------------------------------------------------------
(* Types *)

LEMMA InitType == Init => TypeOK
BY ParamAssumption, EmptySeq DEF Init, TypeOK, Rank, Layer, NoLayer

LEMMA TypeStep ==
  ASSUME IndInv, [Next]_vars
  PROVE  TypeOK'
<1>. USE ParamAssumption DEF IndInv
<1>1. ASSUME NEW r \in Rank, r = 0, Truncate \/ Write
      PROVE  TypeOK'
  <2>1. CASE Truncate
    BY <1>1, <2>1 DEF TypeOK, Truncate, Goto, loading, upload, thread, peers
  <2>2. CASE Write
    BY <1>1, <2>2 DEF TypeOK, Write, Goto, loading, upload, thread, peers
  <2>. QED
    BY <1>1, <2>1, <2>2
<1>2. ASSUME NEW r \in Rank, Configure(r) \/ Read(r) \/ Join(r) \/ PollTimeout(r)
      PROVE  TypeOK'
  <2>1. CASE Read(r)
    BY <1>2, <2>1 DEF TypeOK, Read, Goto, loading, upload, thread, peers
  <2>2. CASE Configure(r)
    BY <2>2 DEF TypeOK, Configure, Goto, meeting, loading, upload, thread, peers
  <2>3. CASE PollTimeout(r)
    BY <2>3 DEF TypeOK, PollTimeout, Goto, meeting, loading, upload, thread, peers
  <2>4. CASE Join(r)
    BY <2>4 DEF TypeOK, Join, Goto, meeting, loading, upload, thread, peers
  <2>. QED
    BY <1>2, <2>1, <2>2, <2>3, <2>4
<1>3. ASSUME NEW r \in Rank, Turn(r) \/ Parse(r) \/ Prefaulted(r)
      PROVE  TypeOK'
  <2>1. CASE Turn(r)
    BY <2>1 DEF TypeOK, Turn, Goto, meeting, loading, upload, thread, peers
  <2>2. CASE Prefaulted(r)
    BY <2>2 DEF TypeOK, Prefaulted, Goto, meeting, loading, upload, thread, peers
  <2>3. CASE Parse(r)
    BY <2>3 DEF TypeOK, Parse, Goto, meeting, loading, upload, thread, peers
  <2>. QED
    BY <1>3, <2>1, <2>2, <2>3
<1>4. ASSUME NEW r \in Rank, OtherTurn(r)
      PROVE  TypeOK'
  <2>1. coll' \in [Rank -> Seq(Kinds)]
    BY <1>4, EnterEffect DEF OtherTurn, Kinds
  <2>. QED
    BY <1>4, <2>1 DEF TypeOK, OtherTurn, Kinds, Goto, meeting, loading, upload, thread, peers
<1>5. ASSUME NEW r \in Rank, PrefaultStripe(r)
      PROVE  TypeOK'
  <2>1. coll' \in [Rank -> Seq(Kinds)]
    BY <1>5, EnterEffect DEF PrefaultStripe, Kinds
  <2>. QED
    BY <1>5, <2>1 DEF TypeOK, PrefaultStripe, Kinds, Goto, meeting, loading, upload, thread, peers
<1>6. ASSUME NEW r \in Rank, Build(r)
      PROVE  TypeOK'
  <2>1. coll' \in [Rank -> Seq(Kinds)]
    BY <1>6, EnterEffect DEF Build, Kinds, TypeOK
  <2>. QED
    BY <1>6, <2>1 DEF TypeOK, Build, Kinds, Goto, meeting, loading, upload, thread, peers
<1>7. ASSUME NEW r \in Rank, EndTurn(r)
      PROVE  TypeOK'
  <2>1. turn[r] + 1 \in 0 .. N
    BY <1>7, ParamAssumption DEF TypeOK, EndTurn, Places, Place, At
  <2>. QED
    BY <1>7, <2>1 DEF TypeOK, EndTurn, Goto, meeting, loading, upload, thread, peers
<1>8. ASSUME NEW r \in Rank, BeginUpload(r) \/ NextLayer(r) \/ Alloc(r) \/ JoinThread(r) \/ Die(r)
      PROVE  TypeOK'
  <2>1. CASE BeginUpload(r)
    BY <2>1 DEF TypeOK, BeginUpload, ColdDrop, Goto, meeting, loading, upload, peers
  <2>2. CASE NextLayer(r)
    BY <2>2 DEF TypeOK, NextLayer, Goto, meeting, loading, upload, thread, peers
  <2>3. CASE Alloc(r) \/ JoinThread(r)
    BY <2>3 DEF TypeOK, Alloc, JoinThread, Goto, meeting, loading, upload, thread, peers
  <2>4. CASE Die(r)
    BY <2>4 DEF TypeOK, Die, Goto, meeting, loading, upload, peers
  <2>. QED
    BY <1>8, <2>1, <2>2, <2>3, <2>4
<1>9. ASSUME NEW r \in Rank, NEW w \in Worker, Pack(r, w)
      PROVE  TypeOK'
  <2>1. up[r] \in Layer
    BY <1>9 DEF TypeOK, Pack, Places, Place, At, Layer
  <2>2. stage' \in [Rank -> [0 .. Rows - 1 -> Layer \cup {NoLayer}]]
    <3>1. [i \in 0 .. Rows - 1 |-> IF i \in Share(w) THEN up[r] ELSE stage[r][i]]
            \in [0 .. Rows - 1 -> Layer \cup {NoLayer}]
      BY <2>1 DEF TypeOK
    <3>. QED
      BY <1>9, <3>1 DEF TypeOK, Pack
  <2>. QED
    BY <1>9, <2>1, <2>2 DEF TypeOK, Pack, meeting, loading, thread, peers
<1>10. ASSUME NEW r \in Rank, CopyLayer(r)
       PROVE  TypeOK'
  <2>1. coll' \in [Rank -> Seq(Kinds)]
    BY <1>10, EnterEffect DEF CopyLayer, Kinds
  <2>2. up[r] \in Layer /\ up[r] + 1 \in 0 .. L
    BY <1>10 DEF TypeOK, CopyLayer, Places, Place, At, Layer
  <2>3. {stage[r][i] : i \in 0 .. Rows - 1} \in SUBSET (Layer \cup {NoLayer})
    <3>1. \A i \in 0 .. Rows - 1 : stage[r][i] \in Layer \cup {NoLayer}
      BY DEF TypeOK
    <3>. QED
      BY <3>1
  <2>4. device' \in [Rank -> [Layer -> SUBSET (Layer \cup {NoLayer})]]
    BY <1>10, <2>2, <2>3 DEF TypeOK, CopyLayer
  <2>. QED
    BY <1>10, <2>1, <2>2, <2>4 DEF TypeOK, CopyLayer, Kinds, Goto, meeting, loading, thread, peers
<1>11. ASSUME NEW r \in Rank, Prefetch(r)
       PROVE  TypeOK'
  <2>1. Touch(r) => pf[r] \in Layer /\ pf[r] + 1 \in 0 .. L
    BY DEF TypeOK, Touch, Layer
  <2>2. CASE Touch(r)
    BY <2>1, <2>2 DEF TypeOK, Touch, meeting, loading, upload, peers
  <2>3. CASE ThreadEnds(r)
    BY <2>3 DEF TypeOK, ThreadEnds, meeting, loading, upload, peers
  <2>. QED
    BY <1>11, <2>2, <2>3 DEF Prefetch
<1>12. ASSUME NEW r \in Rank, Create(r)
       PROVE  TypeOK'
  <2>1. coll' \in [Rank -> Seq(Kinds)]
    BY <1>12, EnterEffect DEF Create, Kinds
  <2>. QED
    BY <1>12, <2>1 DEF TypeOK, Create, Kinds, Goto, meeting, loading, upload, thread
<1>13. ASSUME NEW r \in Rank, Vote(r)
       PROVE  TypeOK'
  <2>1. coll' \in [Rank -> Seq(Kinds)]
    BY <1>13, EnterEffect DEF Vote, Kinds
  <2>2. opened' \in [Rank -> SUBSET Rank]
    BY <1>13 DEF TypeOK, Vote, Others
  <2>. QED
    BY <1>13, <2>1, <2>2 DEF TypeOK, Vote, Kinds, Goto, meeting, loading, upload, thread
<1>14. ASSUME NEW r \in Rank, Decide(r)
       PROVE  TypeOK'
  <2>1. coll' \in [Rank -> Seq(Kinds)]
    BY <1>14, EnterEffect DEF Decide, Kinds
  <2>2. Elected \in BOOLEAN
    BY DEF Elected
  <2>. QED
    BY <1>14, <2>1, <2>2 DEF TypeOK, Decide, Kinds, Goto, meeting, loading, upload, thread
<1>15. CASE UNCHANGED vars
  BY <1>15 DEF TypeOK, vars
<1>. QED
  BY <1>1, <1>2, <1>3, <1>4, <1>5, <1>6, <1>7, <1>8, <1>9, <1>10, <1>11, <1>12, <1>13, <1>14, <1>15
  DEF Next, Step

-----------------------------------------------------------------------------
(* The number of collectives a rank has entered *)

\* Where each step of the program leads from a place, as a fact about numbers.
LEMMA AtMoves ==
  ASSUME NEW r \in Rank, NEW p, NEW n \in Nat, NEW t \in 0 .. N, NEW u \in 0 .. L,
         At(r, p, n, t, u)
  PROVE  /\ p = "config" => At(r, "meet", n, t, u)
         /\ p = "meet" => \A q \in {"write", "join", "dead"} : At(r, q, n, t, u)
         /\ p = "write" => At(r, "join", n, t, u)
         /\ p = "join" => At(r, IF Serial THEN "turn" ELSE "parse", n, t, u)
         /\ p = "turn" /\ t = r => At(r, "parse", n, t, u)
         /\ p = "turn" /\ t # r => At(r, "endturn", n + 1, t, u)
         /\ p = "parse" => At(r, IF Prefault THEN "prefault" ELSE "build", n, t, u)
         /\ p = "prefault" => At(r, "prefaulted", n + 1, t, u)
         /\ p = "prefaulted" => At(r, "build", n, t, u)
         /\ p = "build" /\ Serial => At(r, "endturn", n + 1, t, u)
         /\ p = "build" /\ ~Serial => At(r, "begin", n, t, u)
         /\ p = "endturn" => At(r, IF t + 1 = N THEN "begin" ELSE "turn", n, t + 1, u)
         /\ p = "begin" => At(r, "pack", n, t, u)
         /\ p = "pack" => At(r, "uploaded", n + 1, t, u + 1)
         /\ p = "uploaded" => At(r, IF u = L THEN "alloc" ELSE "pack", n, t, u)
         /\ p = "alloc" => At(r, "joining", n, t, u)
         /\ p = "joining" => At(r, "reduce", n, t, u)
         /\ p = "unwind" => At(r, "dead", n, t, u)
         /\ p = "reduce" => At(r, "gathered", n + 1, t, u)
         /\ p = "gathered" => At(r, "voted", n + 1, t, u)
         /\ p = "voted" => At(r, "serve", n + 1, t, u)
         /\ p \in {"config", "parse", "prefault", "build", "begin", "pack", "alloc", "reduce"}
              => At(r, "unwind", n, t, u) /\ At(r, "dead", n, t, u)
<1>0. /\ Own \in Nat /\ (Prefault => Own = 1) /\ (~Prefault => Own = 0)
      /\ Before \in Nat /\ Layered = Before + L
      /\ (Serial => Before = N + Own) /\ (~Serial => Before = Own)
      /\ r \in Nat /\ r < N /\ N \in Nat /\ L \in Nat /\ L > 0
  BY Sizes, ParamAssumption DEF Own
<1>1. p \in {"config", "meet", "write", "join"} => n = 0 /\ t = 0
  BY DEF At
<1>2. p = "config" => At(r, "meet", n, t, u)
  BY <1>0, ParamAssumption DEF At
<1>3. p = "meet" => \A q \in {"write", "join", "dead"} : At(r, q, n, t, u)
  BY <1>0, ParamAssumption DEF At
<1>4. p = "write" => At(r, "join", n, t, u)
  BY <1>0, ParamAssumption DEF At
<1>5. p = "join" => At(r, IF Serial THEN "turn" ELSE "parse", n, t, u)
  BY <1>0, ParamAssumption DEF At
<1>6. p = "turn" /\ t = r => At(r, "parse", n, t, u)
  BY <1>0, ParamAssumption DEF At
<1>7. p = "turn" /\ t # r => At(r, "endturn", n + 1, t, u)
  BY <1>0, ParamAssumption DEF At
<1>8. p = "parse" => At(r, IF Prefault THEN "prefault" ELSE "build", n, t, u)
  BY <1>0, ParamAssumption DEF At
<1>9. p = "prefault" => At(r, "prefaulted", n + 1, t, u)
  BY <1>0, ParamAssumption DEF At
<1>10. p = "prefaulted" => At(r, "build", n, t, u)
  BY <1>0, ParamAssumption DEF At
<1>11. p = "build" /\ Serial => At(r, "endturn", n + 1, t, u)
  BY <1>0, ParamAssumption DEF At
<1>12. p = "build" /\ ~Serial => At(r, "begin", n, t, u)
  BY <1>0, ParamAssumption DEF At
<1>13. p = "endturn" => At(r, IF t + 1 = N THEN "begin" ELSE "turn", n, t + 1, u)
  BY <1>0, ParamAssumption DEF At
<1>14. p = "begin" => At(r, "pack", n, t, u)
  BY <1>0, ParamAssumption DEF At
<1>15. p = "pack" => At(r, "uploaded", n + 1, t, u + 1)
  BY <1>0, ParamAssumption DEF At
<1>16. p = "uploaded" => At(r, IF u = L THEN "alloc" ELSE "pack", n, t, u)
  BY <1>0, ParamAssumption DEF At
<1>17. p = "alloc" => At(r, "joining", n, t, u)
  BY <1>0, ParamAssumption DEF At
<1>18. p = "joining" => At(r, "reduce", n, t, u)
  BY <1>0, ParamAssumption DEF At
<1>19. p = "unwind" => At(r, "dead", n, t, u)
  BY <1>0, ParamAssumption DEF At
<1>20. p = "reduce" => At(r, "gathered", n + 1, t, u)
  BY <1>0, ParamAssumption DEF At
<1>21. p = "gathered" => At(r, "voted", n + 1, t, u)
  BY <1>0, ParamAssumption DEF At
<1>22. p = "voted" => At(r, "serve", n + 1, t, u)
  BY <1>0, ParamAssumption DEF At
<1>23. p \in {"config", "parse", "prefault", "build", "begin", "pack", "alloc", "reduce"}
       => At(r, "unwind", n, t, u) /\ At(r, "dead", n, t, u)
  BY <1>0, ParamAssumption DEF At
<1>. QED
  BY <1>2, <1>3, <1>4, <1>5, <1>6, <1>7, <1>8, <1>9, <1>10, <1>11, <1>12, <1>13, <1>14, <1>15, <1>16, <1>17, <1>18, <1>19, <1>20, <1>21, <1>22, <1>23


\* A step of one rank disturbs that rank's place only.
LEMMA PlaceFrame ==
  ASSUME Places, NEW r \in Rank, At(r, pc'[r], Len(coll'[r]), turn'[r], up'[r]),
         \A q \in Rank \ {r} : /\ pc'[q] = pc[q] /\ coll'[q] = coll[q]
                               /\ turn'[q] = turn[q] /\ up'[q] = up[q]
  PROVE  Places'
<1>1. ASSUME NEW q \in Rank
      PROVE  At(q, pc'[q], Len(coll'[q]), turn'[q], up'[q])
  <2>1. CASE q = r
    BY <2>1
  <2>2. CASE q # r
    <3>1. pc'[q] = pc[q] /\ coll'[q] = coll[q] /\ turn'[q] = turn[q] /\ up'[q] = up[q]
      BY <2>2
    <3>2. At(q, pc[q], Len(coll[q]), turn[q], up[q])
      BY DEF Places, Place
    <3>. QED
      BY <3>1, <3>2
  <2>. QED
    BY <2>1, <2>2
<1>. QED
  BY <1>1 DEF Places, Place

LEMMA InitPlaces == Init => Places
BY Sizes, EmptySeq DEF Init, Places, Place, At

LEMMA PlaceHere ==
  ASSUME TypeOK, Places, NEW r \in Rank
  PROVE  /\ At(r, pc[r], Len(coll[r]), turn[r], up[r])
         /\ Len(coll[r]) \in Nat /\ turn[r] \in 0 .. N /\ up[r] \in 0 .. L
BY LenCalls DEF TypeOK, Places, Place

\* A step that only moves a rank, and one that enters a collective.
LEMMA PlaceMove ==
  ASSUME TypeOK, Places, NEW r \in Rank, NEW there, Goto(r, there), UNCHANGED <<coll, turn, up>>,
         At(r, there, Len(coll[r]), turn[r], up[r])
  PROVE  Places'
<1>1. /\ pc'[r] = there /\ Len(coll'[r]) = Len(coll[r])
      /\ turn'[r] = turn[r] /\ up'[r] = up[r]
      /\ \A q \in Rank \ {r} : /\ pc'[q] = pc[q] /\ coll'[q] = coll[q]
                               /\ turn'[q] = turn[q] /\ up'[q] = up[q]
  BY GotoEffect
<1>2. At(r, pc'[r], Len(coll'[r]), turn'[r], up'[r])
  BY <1>1
<1>. QED
  BY <1>1, <1>2, PlaceFrame

LEMMA PlaceCall ==
  ASSUME TypeOK, Places, NEW r \in Rank, NEW there, NEW kind \in Kinds,
         Goto(r, there), Enter(r, kind), UNCHANGED <<turn, up>>,
         At(r, there, Len(coll[r]) + 1, turn[r], up[r])
  PROVE  Places'
<1>1. /\ pc'[r] = there /\ Len(coll'[r]) = Len(coll[r]) + 1
      /\ turn'[r] = turn[r] /\ up'[r] = up[r]
      /\ \A q \in Rank \ {r} : /\ pc'[q] = pc[q] /\ coll'[q] = coll[q]
                               /\ turn'[q] = turn[q] /\ up'[q] = up[q]
  BY GotoEffect, EnterEffect
<1>2. At(r, pc'[r], Len(coll'[r]), turn'[r], up'[r])
  BY <1>1
<1>. QED
  BY <1>1, <1>2, PlaceFrame

LEMMA PlacesStep ==
  ASSUME IndInv, [Next]_vars
  PROVE  Places'
<1>0. TypeOK /\ Places
  BY DEF IndInv
<1>. USE <1>0
<1>1. ASSUME NEW r \in Rank, r = 0 /\ Truncate
      PROVE  Places'
  <2>1. Goto(r, "write") /\ UNCHANGED <<coll, turn, up>> /\ pc[r] \in {"meet"}
    BY <1>1 DEF Truncate, loading, upload
  <2>2. At(r, "write", Len(coll[r]), turn[r], up[r])
    BY <2>1, PlaceHere, AtMoves
  <2>. QED
    BY <2>1, <2>2, PlaceMove
<1>2. ASSUME NEW r \in Rank, r = 0 /\ Write
      PROVE  Places'
  <2>1. Goto(r, "join") /\ UNCHANGED <<coll, turn, up>> /\ pc[r] \in {"write"}
    BY <1>2 DEF Write, loading, upload
  <2>2. At(r, "join", Len(coll[r]), turn[r], up[r])
    BY <2>1, PlaceHere, AtMoves
  <2>. QED
    BY <2>1, <2>2, PlaceMove
<1>3. ASSUME NEW r \in Rank, Configure(r)
      PROVE  Places'
  <2>1. Goto(r, "meet") /\ UNCHANGED <<coll, turn, up>> /\ pc[r] \in {"config"}
    BY <1>3 DEF Configure, loading, upload
  <2>2. At(r, "meet", Len(coll[r]), turn[r], up[r])
    BY <2>1, PlaceHere, AtMoves
  <2>. QED
    BY <2>1, <2>2, PlaceMove
<1>4. ASSUME NEW r \in Rank, Read(r)
      PROVE  Places'
  <2>1. Goto(r, "join") /\ UNCHANGED <<coll, turn, up>> /\ pc[r] \in {"meet"}
    BY <1>4 DEF Read, loading, upload
  <2>2. At(r, "join", Len(coll[r]), turn[r], up[r])
    BY <2>1, PlaceHere, AtMoves
  <2>. QED
    BY <2>1, <2>2, PlaceMove
<1>5. ASSUME NEW r \in Rank, PollTimeout(r)
      PROVE  Places'
  <2>1. Goto(r, "dead") /\ UNCHANGED <<coll, turn, up>> /\ pc[r] \in {"meet"}
    BY <1>5 DEF PollTimeout, loading, upload
  <2>2. At(r, "dead", Len(coll[r]), turn[r], up[r])
    BY <2>1, PlaceHere, AtMoves
  <2>. QED
    BY <2>1, <2>2, PlaceMove
<1>6. ASSUME NEW r \in Rank, Join(r)
      PROVE  Places'
  <2>1. Goto(r, IF Serial THEN "turn" ELSE "parse") /\ UNCHANGED <<coll, turn, up>> /\ pc[r] \in {"join"}
    BY <1>6 DEF Join, loading, upload
  <2>2. At(r, IF Serial THEN "turn" ELSE "parse", Len(coll[r]), turn[r], up[r])
    BY <2>1, PlaceHere, AtMoves
  <2>. QED
    BY <2>1, <2>2, PlaceMove
<1>7. ASSUME NEW r \in Rank, Turn(r)
      PROVE  Places'
  <2>1. Goto(r, "parse") /\ UNCHANGED <<coll, turn, up>> /\ pc[r] \in {"turn"} /\ turn[r] = r
    BY <1>7 DEF Turn, loading, upload
  <2>2. At(r, "parse", Len(coll[r]), turn[r], up[r])
    BY <2>1, PlaceHere, AtMoves
  <2>. QED
    BY <2>1, <2>2, PlaceMove
<1>8. ASSUME NEW r \in Rank, OtherTurn(r)
      PROVE  Places'
  <2>1. Goto(r, "endturn") /\ Enter(r, "barrier") /\ UNCHANGED <<turn, up>> /\ pc[r] = "turn" /\ turn[r] # r
    BY <1>8 DEF OtherTurn, loading, upload
  <2>2. "barrier" \in Kinds
    BY DEF Kinds
  <2>3. At(r, "endturn", Len(coll[r]) + 1, turn[r], up[r])
    BY <2>1, PlaceHere, AtMoves
  <2>. QED
    BY <2>1, <2>2, <2>3, PlaceCall
<1>9. ASSUME NEW r \in Rank, Parse(r)
      PROVE  Places'
  <2>1. Goto(r, IF Prefault THEN "prefault" ELSE "build") /\ UNCHANGED <<coll, turn, up>> /\ pc[r] \in {"parse"}
    BY <1>9 DEF Parse, loading, upload
  <2>2. At(r, IF Prefault THEN "prefault" ELSE "build", Len(coll[r]), turn[r], up[r])
    BY <2>1, PlaceHere, AtMoves
  <2>. QED
    BY <2>1, <2>2, PlaceMove
<1>10. ASSUME NEW r \in Rank, PrefaultStripe(r)
      PROVE  Places'
  <2>1. Goto(r, "prefaulted") /\ Enter(r, "barrier") /\ UNCHANGED <<turn, up>> /\ pc[r] = "prefault"
    BY <1>10 DEF PrefaultStripe, upload
  <2>2. "barrier" \in Kinds
    BY DEF Kinds
  <2>3. At(r, "prefaulted", Len(coll[r]) + 1, turn[r], up[r])
    BY <2>1, PlaceHere, AtMoves
  <2>. QED
    BY <2>1, <2>2, <2>3, PlaceCall
<1>11. ASSUME NEW r \in Rank, Prefaulted(r)
      PROVE  Places'
  <2>1. Goto(r, "build") /\ UNCHANGED <<coll, turn, up>> /\ pc[r] \in {"prefaulted"}
    BY <1>11 DEF Prefaulted, loading, upload
  <2>2. At(r, "build", Len(coll[r]), turn[r], up[r])
    BY <2>1, PlaceHere, AtMoves
  <2>. QED
    BY <2>1, <2>2, PlaceMove
<1>12. ASSUME NEW r \in Rank, Build(r)
      PROVE  Places'
  <2>1. pc[r] = "build" /\ UNCHANGED <<turn, up>> /\ "barrier" \in Kinds
    BY <1>12 DEF Build, loading, upload, Kinds
  <2>2. CASE Serial
    <3>1. Goto(r, "endturn") /\ Enter(r, "barrier")
      BY <1>12, <2>2 DEF Build
    <3>2. At(r, "endturn", Len(coll[r]) + 1, turn[r], up[r])
      BY <2>1, <2>2, PlaceHere, AtMoves
    <3>. QED
      BY <2>1, <3>1, <3>2, PlaceCall
  <2>3. CASE ~Serial
    <3>1. Goto(r, "begin") /\ UNCHANGED coll
      BY <1>12, <2>3 DEF Build
    <3>2. At(r, "begin", Len(coll[r]), turn[r], up[r])
      BY <2>1, <2>3, PlaceHere, AtMoves
    <3>. QED
      BY <2>1, <3>1, <3>2, PlaceMove
  <2>. QED
    BY <2>2, <2>3
<1>13. ASSUME NEW r \in Rank, EndTurn(r)
      PROVE  Places'
  <2>1. /\ pc[r] = "endturn" /\ UNCHANGED <<coll, up>>
        /\ turn' = [turn EXCEPT ![r] = @ + 1]
        /\ Goto(r, IF turn[r] + 1 = N THEN "begin" ELSE "turn")
    BY <1>13 DEF EndTurn, upload
  <2>2. turn'[r] = turn[r] + 1 /\ \A q \in Rank \ {r} : turn'[q] = turn[q]
    BY <2>1 DEF TypeOK
  <2>3. /\ pc'[r] = (IF turn[r] + 1 = N THEN "begin" ELSE "turn")
        /\ \A q \in Rank \ {r} : pc'[q] = pc[q]
    BY <2>1, GotoEffect
  <2>4. At(r, pc'[r], Len(coll'[r]), turn'[r], up'[r])
    BY <2>1, <2>2, <2>3, PlaceHere, AtMoves
  <2>. QED
    BY <2>1, <2>2, <2>3, <2>4, PlaceFrame
<1>14. ASSUME NEW r \in Rank, BeginUpload(r)
      PROVE  Places'
  <2>1. Goto(r, "pack") /\ UNCHANGED <<coll, turn, up>> /\ pc[r] \in {"begin"}
    BY <1>14 DEF BeginUpload, loading, upload
  <2>2. At(r, "pack", Len(coll[r]), turn[r], up[r])
    BY <2>1, PlaceHere, AtMoves
  <2>. QED
    BY <2>1, <2>2, PlaceMove
<1>15. ASSUME NEW r \in Rank, CopyLayer(r)
      PROVE  Places'
  <2>1. /\ pc[r] = "pack" /\ UNCHANGED turn
        /\ up' = [up EXCEPT ![r] = @ + 1]
        /\ Goto(r, "uploaded") /\ Enter(r, "barrier")
    BY <1>15 DEF CopyLayer, loading
  <2>2. up'[r] = up[r] + 1 /\ \A q \in Rank \ {r} : up'[q] = up[q]
    BY <2>1 DEF TypeOK
  <2>3. pc'[r] = "uploaded" /\ \A q \in Rank \ {r} : pc'[q] = pc[q]
    BY <2>1, GotoEffect
  <2>4. Len(coll'[r]) = Len(coll[r]) + 1 /\ \A q \in Rank \ {r} : coll'[q] = coll[q]
    BY <2>1, EnterEffect DEF Kinds
  <2>5. At(r, pc'[r], Len(coll'[r]), turn'[r], up'[r])
    BY <2>1, <2>2, <2>3, <2>4, PlaceHere, AtMoves
  <2>. QED
    BY <2>1, <2>2, <2>3, <2>4, <2>5, PlaceFrame
<1>16. ASSUME NEW r \in Rank, NextLayer(r)
      PROVE  Places'
  <2>1. Goto(r, IF up[r] = L THEN "alloc" ELSE "pack") /\ UNCHANGED <<coll, turn, up>> /\ pc[r] \in {"uploaded"}
    BY <1>16 DEF NextLayer, loading, upload
  <2>2. At(r, IF up[r] = L THEN "alloc" ELSE "pack", Len(coll[r]), turn[r], up[r])
    BY <2>1, PlaceHere, AtMoves
  <2>. QED
    BY <2>1, <2>2, PlaceMove
<1>17. ASSUME NEW r \in Rank, Alloc(r)
      PROVE  Places'
  <2>1. Goto(r, "joining") /\ UNCHANGED <<coll, turn, up>> /\ pc[r] \in {"alloc"}
    BY <1>17 DEF Alloc, loading, upload
  <2>2. At(r, "joining", Len(coll[r]), turn[r], up[r])
    BY <2>1, PlaceHere, AtMoves
  <2>. QED
    BY <2>1, <2>2, PlaceMove
<1>18. ASSUME NEW r \in Rank, JoinThread(r)
      PROVE  Places'
  <2>1. Goto(r, IF pc[r] = "unwind" THEN "dead" ELSE "reduce") /\ UNCHANGED <<coll, turn, up>> /\ pc[r] \in {"joining", "unwind"}
    BY <1>18 DEF JoinThread, loading, upload
  <2>2. At(r, IF pc[r] = "unwind" THEN "dead" ELSE "reduce", Len(coll[r]), turn[r], up[r])
    BY <2>1, PlaceHere, AtMoves
  <2>. QED
    BY <2>1, <2>2, PlaceMove
<1>19. ASSUME NEW r \in Rank, Create(r)
      PROVE  Places'
  <2>1. Goto(r, "gathered") /\ Enter(r, "gather") /\ UNCHANGED <<turn, up>> /\ pc[r] = "reduce"
    BY <1>19 DEF Create, loading, upload
  <2>2. "gather" \in Kinds
    BY DEF Kinds
  <2>3. At(r, "gathered", Len(coll[r]) + 1, turn[r], up[r])
    BY <2>1, PlaceHere, AtMoves
  <2>. QED
    BY <2>1, <2>2, <2>3, PlaceCall
<1>20. ASSUME NEW r \in Rank, Vote(r)
      PROVE  Places'
  <2>1. Goto(r, "voted") /\ Enter(r, "vote") /\ UNCHANGED <<turn, up>> /\ pc[r] = "gathered"
    BY <1>20 DEF Vote, loading, upload
  <2>2. "vote" \in Kinds
    BY DEF Kinds
  <2>3. At(r, "voted", Len(coll[r]) + 1, turn[r], up[r])
    BY <2>1, PlaceHere, AtMoves
  <2>. QED
    BY <2>1, <2>2, <2>3, PlaceCall
<1>21. ASSUME NEW r \in Rank, Decide(r)
      PROVE  Places'
  <2>1. PICK kind \in Kinds : Enter(r, kind)
    BY <1>21 DEF Decide, Kinds
  <2>2. Goto(r, "serve") /\ UNCHANGED <<turn, up>> /\ pc[r] = "voted"
    BY <1>21 DEF Decide, loading, upload
  <2>3. At(r, "serve", Len(coll[r]) + 1, turn[r], up[r])
    BY <2>2, PlaceHere, AtMoves
  <2>. QED
    BY <2>1, <2>2, <2>3, PlaceCall
<1>22. ASSUME NEW r \in Rank, Die(r)
      PROVE  Places'
  <2>1. /\ UNCHANGED <<coll, turn, up>>
        /\ pc[r] \in {"config", "parse", "prefault", "build", "begin", "pack", "alloc", "reduce"}
    BY <1>22 DEF Die, loading, upload
  <2>2. PICK there \in {"unwind", "dead"} : Goto(r, there)
    BY <1>22 DEF Die
  <2>3. At(r, there, Len(coll[r]), turn[r], up[r])
    BY <2>1, PlaceHere, AtMoves
  <2>. QED
    BY <2>1, <2>2, <2>3, PlaceMove
<1>23. CASE UNCHANGED vars \/ \E r \in Rank : Prefetch(r) \/ \E w \in Worker : Pack(r, w)
  <2>1. UNCHANGED <<pc, coll, turn, up>>
    BY <1>23 DEF vars, Prefetch, Touch, ThreadEnds, Pack, loading, upload
  <2>. QED
    BY <2>1 DEF Places, Place
<1>. QED
  BY <1>1, <1>2, <1>3, <1>4, <1>5, <1>6, <1>7, <1>8, <1>9, <1>10, <1>11, <1>12, <1>13, <1>14, <1>15, <1>16, <1>17, <1>18, <1>19, <1>20, <1>21, <1>22, <1>23
  DEF Next, Step

\* What the place of a rank bounds, as a fact about numbers.
LEMMA AtBounds ==
  ASSUME NEW r \in Rank, NEW p, NEW n \in Nat, NEW t \in 0 .. N, NEW u \in 0 .. L,
         At(r, p, n, t, u)
  PROVE  /\ p \in {"prefaulted", "endturn", "uploaded"} => n <= Layered
         /\ p = "prefault" => n < Before
         /\ p = "begin" => n = Before /\ u = 0
         /\ p \in {"turn", "parse", "prefault", "build", "endturn", "begin", "pack", "uploaded"}
              => n <= Layered
         /\ n <= Before => u = 0
         /\ n > Before /\ n <= Layered => u = n - Before
         /\ n > Layered => u = L
<1>0. /\ Own \in Nat /\ (Prefault => Own = 1) /\ (~Prefault => Own = 0)
      /\ Before \in Nat /\ Layered = Before + L
      /\ (Serial => Before = N + Own) /\ (~Serial => Before = Own)
      /\ r \in Nat /\ r < N /\ N \in Nat /\ L \in Nat /\ L > 0
  BY Sizes, ParamAssumption DEF Own
<1>1. p \in {"prefaulted", "endturn", "uploaded"} => n <= Layered
  BY <1>0, ParamAssumption DEF At
<1>2. p = "prefault" => n < Before
  BY <1>0, ParamAssumption DEF At
<1>3. p = "begin" => n = Before /\ u = 0
  BY <1>0, ParamAssumption DEF At
<1>4. p \in {"turn", "parse", "prefault", "build", "endturn", "begin", "pack", "uploaded"}
        => n <= Layered
  BY <1>0, ParamAssumption DEF At
<1>5. /\ n <= Before => u = 0
      /\ n > Before /\ n <= Layered => u = n - Before
      /\ n > Layered => u = L
  BY <1>0, ParamAssumption DEF At
<1>. QED
  BY <1>1, <1>2, <1>3, <1>4, <1>5

\* Where a rank can be.
Points == {"config", "meet", "write", "join", "turn", "parse", "prefault", "prefaulted",
            "build", "endturn", "begin", "pack", "uploaded", "alloc", "joining", "unwind",
            "reduce", "gathered", "voted", "serve", "dead"}

\* A rank that has entered as many collectives as one that votes, votes too.
LEMMA AtEnd ==
  ASSUME NEW r \in Rank, NEW p \in Points, NEW n \in Nat, NEW t \in 0 .. N, NEW u \in 0 .. L,
         At(r, p, n, t, u)
  PROVE  /\ n <= Layered + 3
         /\ n >= Layered + 1 => p \in {"gathered", "voted", "serve"}
         /\ n >= Layered + 2 => p \in {"voted", "serve"}
         /\ n >= Layered + 3 => p = "serve"
<1>0. /\ Own \in Nat /\ (Prefault => Own = 1) /\ (~Prefault => Own = 0)
      /\ Before \in Nat /\ Layered = Before + L
      /\ (Serial => Before = N + Own) /\ (~Serial => Before = Own)
      /\ r \in Nat /\ r < N /\ N \in Nat /\ L \in Nat /\ L > 0
  BY Sizes, ParamAssumption DEF Own
<1>1. p \notin {"gathered", "voted", "serve"} => n <= Layered
  <2>1. p \in {"config", "meet", "write", "join", "turn", "endturn"} => n <= Layered
    BY <1>0, ParamAssumption DEF At
  <2>2. p \in {"parse", "prefault", "prefaulted", "build", "begin"} => n <= Layered
    BY <1>0, ParamAssumption DEF At
  <2>3. p \in {"pack", "uploaded", "alloc", "joining", "reduce", "unwind", "dead"} => n <= Layered
    BY <1>0, ParamAssumption DEF At
  <2>. QED
    BY <2>1, <2>2, <2>3 DEF Points
<1>2. /\ p = "gathered" => n = Layered + 1
      /\ p = "voted" => n = Layered + 2
      /\ p = "serve" => n = Layered + 3
  BY DEF At
<1>. QED
  BY <1>0, <1>1, <1>2

\* The layers that two ranks have uploaded differ as their collectives do.
LEMMA AtCompared ==
  ASSUME NEW r \in Rank, NEW p, NEW n \in Nat, NEW t \in 0 .. N, NEW u \in 0 .. L,
         At(r, p, n, t, u),
         NEW s \in Rank, NEW o, NEW m \in Nat, NEW v \in 0 .. N, NEW w \in 0 .. L,
         At(s, o, m, v, w)
  PROVE  /\ n <= m => u <= w
         /\ n <= m + 1 => u <= w + 1
<1>1. /\ n <= Before => u = 0
      /\ n > Before /\ n <= Layered => u = n - Before
      /\ n > Layered => u = L
  BY AtBounds
<1>2. /\ m <= Before => w = 0
      /\ m > Before /\ m <= Layered => w = m - Before
      /\ m > Layered => w = L
  BY AtBounds
<1>. QED
  BY <1>1, <1>2, Sizes, ParamAssumption

-----------------------------------------------------------------------------
(* How far apart the ranks are *)

LEMMA StepKinds ==
  ASSUME TypeOK, Skew, [Next]_vars
  PROVE  \/ UNCHANGED <<pc, coll>>
         \/ \E r \in Rank :
              /\ \A q \in Rank : Len(coll[r]) <= Len(coll[q])
              /\ \A q \in Rank \ {r} : pc'[q] = pc[q] /\ coll'[q] = coll[q]
              /\ \/ coll'[r] = coll[r]
                 \/ Len(coll'[r]) = Len(coll[r]) + 1 /\ pc'[r] \in Waiting
<1>. DEFINE Through(r) == \A q \in Rank : Len(coll[r]) <= Len(coll[q])
            Apart(r) == /\ \A q \in Rank \ {r} : pc'[q] = pc[q] /\ coll'[q] = coll[q]
                        /\ \/ coll'[r] = coll[r]
                           \/ Len(coll'[r]) = Len(coll[r]) + 1 /\ pc'[r] \in Waiting
<1>1. \A r \in Rank : pc[r] \notin Waiting \/ Met(r) => Through(r)
  <2>1. ASSUME NEW r \in Rank, NEW q \in Rank, pc[r] \notin Waiting \/ Met(r)
        PROVE  Len(coll[r]) <= Len(coll[q])
    <3>1. Len(coll[r]) \in Nat /\ Len(coll[q]) \in Nat
      BY LenCalls
    <3>2. CASE pc[r] \notin Waiting
      <4>1. Len(coll[r]) <= Len(coll[q]) + (IF pc[r] \in Waiting THEN 1 ELSE 0)
        BY DEF Skew
      <4>. QED
        BY <3>1, <3>2, <4>1
    <3>3. CASE Met(r)
      BY <3>1, <3>3 DEF Met
    <3>. QED
      BY <2>1, <3>2, <3>3
  <2>. QED
    BY <2>1
<1>2. ASSUME NEW r \in Rank, NEW there, Goto(r, there), UNCHANGED coll
      PROVE  Apart(r)
  BY <1>2, GotoEffect
<1>3. ASSUME NEW r \in Rank, NEW there \in Waiting, NEW kind \in Kinds, Goto(r, there), Enter(r, kind)
      PROVE  Apart(r)
  BY <1>3, GotoEffect, EnterEffect
<1>4. "barrier" \in Kinds /\ "gather" \in Kinds /\ "vote" \in Kinds
        /\ "nccl" \in Kinds /\ "custom" \in Kinds
  BY DEF Kinds
<1>5. ASSUME NEW r \in Rank, (r = 0 /\ (Truncate \/ Write)) \/ Configure(r) \/ Read(r) \/ Join(r)
                             \/ Turn(r) \/ Parse(r) \/ Prefaulted(r) \/ PollTimeout(r)
      PROVE  Through(r) /\ Apart(r)
  <2>1. pc[r] \notin Waiting \/ Met(r)
    BY <1>5 DEF Truncate, Write, Configure, Read, Join, Turn, Parse, Prefaulted, PollTimeout, Waiting
  <2>2. UNCHANGED coll /\ \E there : Goto(r, there)
    BY <1>5 DEF Truncate, Write, Configure, Read, Join, Turn, Parse, Prefaulted, PollTimeout
  <2>. QED
    BY <1>1, <1>2, <2>1, <2>2
<1>6. ASSUME NEW r \in Rank, EndTurn(r) \/ BeginUpload(r) \/ NextLayer(r) \/ Alloc(r)
                             \/ JoinThread(r) \/ Die(r)
      PROVE  Through(r) /\ Apart(r)
  <2>1. pc[r] \notin Waiting \/ Met(r)
    BY <1>6 DEF EndTurn, BeginUpload, NextLayer, Alloc, JoinThread, Die, Waiting
  <2>2. UNCHANGED coll /\ \E there : Goto(r, there)
    BY <1>6 DEF EndTurn, BeginUpload, NextLayer, Alloc, JoinThread, Die
  <2>. QED
    BY <1>1, <1>2, <2>1, <2>2
<1>7. ASSUME NEW r \in Rank, OtherTurn(r) \/ PrefaultStripe(r) \/ CopyLayer(r) \/ Create(r)
                             \/ Vote(r) \/ Decide(r)
      PROVE  Through(r) /\ Apart(r)
  <2>1. pc[r] \notin Waiting \/ Met(r)
    BY <1>7 DEF OtherTurn, PrefaultStripe, CopyLayer, Create, Vote, Decide, Waiting
  <2>2. \E there \in Waiting : \E kind \in Kinds : Goto(r, there) /\ Enter(r, kind)
    BY <1>4, <1>7 DEF OtherTurn, PrefaultStripe, CopyLayer, Create, Vote, Decide, Waiting
  <2>. QED
    BY <1>1, <1>3, <2>1, <2>2
<1>8. ASSUME NEW r \in Rank, Build(r)
      PROVE  Through(r) /\ Apart(r)
  <2>1. pc[r] \notin Waiting
    BY <1>8 DEF Build, Waiting
  <2>2. CASE Serial
    BY <1>1, <1>3, <1>4, <1>8, <2>1, <2>2 DEF Build, Waiting
  <2>3. CASE ~Serial
    BY <1>1, <1>2, <1>8, <2>1, <2>3 DEF Build
  <2>. QED
    BY <2>2, <2>3
<1>9. CASE UNCHANGED vars \/ \E r \in Rank : Prefetch(r) \/ \E w \in Worker : Pack(r, w)
  BY <1>9 DEF vars, Prefetch, Touch, ThreadEnds, Pack
<1>. QED
  BY <1>5, <1>6, <1>7, <1>8, <1>9 DEF Next, Step

LEMMA InitSkew == Init => Skew
BY EmptySeq DEF Init, Skew, Waiting

LEMMA SkewStep ==
  ASSUME TypeOK, TypeOK', Skew, [Next]_vars
  PROVE  Skew'
<1>1. CASE UNCHANGED <<pc, coll>>
  BY <1>1 DEF Skew
<1>2. CASE ~UNCHANGED <<pc, coll>>
  <2>1. PICK r \in Rank :
          /\ \A q \in Rank : Len(coll[r]) <= Len(coll[q])
          /\ \A q \in Rank \ {r} : pc'[q] = pc[q] /\ coll'[q] = coll[q]
          /\ \/ coll'[r] = coll[r]
             \/ Len(coll'[r]) = Len(coll[r]) + 1 /\ pc'[r] \in Waiting
    BY <1>2, StepKinds
  <2>2. \A q \in Rank : Len(coll[q]) \in Nat /\ Len(coll'[q]) \in Nat
    BY LenCalls, LenProperties DEF TypeOK
  <2>3. \A q \in Rank : Len(coll'[q]) >= Len(coll[q])
    BY <2>1, <2>2
  <2>4. ASSUME NEW p \in Rank, NEW q \in Rank
        PROVE  Len(coll'[p]) <= Len(coll'[q]) + (IF pc'[p] \in Waiting THEN 1 ELSE 0)
    <3>1. CASE p = r
      <4>1. Len(coll[p]) <= Len(coll[q]) /\ Len(coll[q]) <= Len(coll'[q])
        BY <2>1, <2>3, <3>1
      <4>2. CASE coll'[p] = coll[p]
        <5>1. Len(coll'[p]) <= Len(coll'[q])
          BY <2>2, <4>1, <4>2
        <5>2. CASE pc'[p] \in Waiting
          BY <2>2, <5>1, <5>2
        <5>3. CASE pc'[p] \notin Waiting
          BY <2>2, <5>1, <5>3
        <5>. QED
          BY <5>2, <5>3
      <4>3. CASE Len(coll'[p]) = Len(coll[p]) + 1 /\ pc'[p] \in Waiting
        BY <2>2, <4>1, <4>3
      <4>. QED
        BY <2>1, <3>1, <4>2, <4>3
    <3>2. CASE p # r
      <4>1. Len(coll[p]) <= Len(coll[q]) + (IF pc[p] \in Waiting THEN 1 ELSE 0)
        BY DEF Skew
      <4>2. pc'[p] = pc[p] /\ coll'[p] = coll[p]
        BY <2>1, <3>2
      <4>3. CASE pc[p] \in Waiting
        BY <2>2, <2>3, <4>1, <4>2, <4>3
      <4>4. CASE pc[p] \notin Waiting
        BY <2>2, <2>3, <4>1, <4>2, <4>4
      <4>. QED
        BY <4>3, <4>4
    <3>. QED
      BY <3>1, <3>2
  <2>. QED
    BY <2>4 DEF Skew
<1>. QED
  BY <1>1, <1>2

LEMMA NeverLess ==
  ASSUME TypeOK, Skew, [Next]_vars, NEW q \in Rank
  PROVE  Len(coll'[q]) >= Len(coll[q])
BY StepKinds, LenCalls

\* The ranks that no collective holds have all entered equally many.
LEMMA Abreast ==
  ASSUME TypeOK, Skew, NEW r \in Rank, NEW q \in Rank, pc[r] \notin Waiting \/ Met(r)
  PROVE  Len(coll[r]) <= Len(coll[q])
<1>1. Len(coll[r]) \in Nat /\ Len(coll[q]) \in Nat
  BY LenCalls
<1>2. CASE pc[r] \notin Waiting
  <2>1. Len(coll[r]) <= Len(coll[q]) + (IF pc[r] \in Waiting THEN 1 ELSE 0)
    BY DEF Skew
  <2>. QED
    BY <1>1, <1>2, <2>1
<1>3. CASE Met(r)
  BY <1>1, <1>3 DEF Met
<1>. QED
  BY <1>2, <1>3

LEMMA SerialParse ==
  ASSUME IndInv
  PROVE  OneRankParses
<1>1. TypeOK /\ Places /\ Skew
  BY DEF IndInv
<1>2. ASSUME Serial, NEW r \in Rank, NEW q \in Rank, pc[r] = "parse", pc[q] = "parse"
      PROVE  r = q
  <2>1. Len(coll[r]) = r /\ Len(coll[q]) = q
    BY <1>1, <1>2 DEF Places, Place, At
  <2>2. Len(coll[r]) <= Len(coll[q]) /\ Len(coll[q]) <= Len(coll[r])
    BY <1>1, <1>2, Abreast DEF Waiting
  <2>. QED
    BY <2>1, <2>2 DEF Rank
<1>. QED
  BY <1>2 DEF OneRankParses

-----------------------------------------------------------------------------
(* Which collectives they are *)

\* The script of a rank's collectives c, which depends on the mode m only.
Script(c, m) ==
  \A n \in 1 .. Len(c) :
    /\ n <= Layered => c[n] = "barrier"
    /\ n = Layered + 1 => c[n] = "gather"
    /\ n = Layered + 2 => c[n] = "vote"
    /\ n = Layered + 3 => c[n] = m

LEMMA ScriptNext ==
  ASSUME NEW c \in Seq(Kinds), NEW d \in Seq(Kinds), NEW m, NEW o, NEW k,
         Script(c, m), Len(d) = Len(c) + 1,
         \A n \in 1 .. Len(c) : d[n] = c[n],
         d[Len(c) + 1] = k,
         \/ Len(c) < Layered /\ k = "barrier"
         \/ Len(c) = Layered /\ k = "gather"
         \/ Len(c) = Layered + 1 /\ k = "vote"
         \/ Len(c) = Layered + 2 /\ k = o
  PROVE  Script(d, o)
<1>1. Len(c) \in Nat /\ Len(d) \in Nat /\ Layered \in Nat
  BY LenProperties, Sizes
<1>2. ASSUME NEW n \in 1 .. Len(d)
      PROVE  /\ n <= Layered => d[n] = "barrier"
             /\ n = Layered + 1 => d[n] = "gather"
             /\ n = Layered + 2 => d[n] = "vote"
             /\ n = Layered + 3 => d[n] = o
  <2>1. CASE n = Len(c) + 1
    BY <1>1, <2>1
  <2>2. CASE n # Len(c) + 1
    <3>1. n \in 1 .. Len(c) /\ n < Layered + 3
      BY <1>1, <2>2
    <3>2. /\ n <= Layered => c[n] = "barrier"
          /\ n = Layered + 1 => c[n] = "gather"
          /\ n = Layered + 2 => c[n] = "vote"
      BY <3>1 DEF Script
    <3>. QED
      BY <1>1, <3>1, <3>2
  <2>. QED
    BY <2>1, <2>2
<1>. QED
  BY <1>2 DEF Script

\* A rank that enters a collective which is next in the script keeps to it.
LEMMA ScriptCall ==
  ASSUME TypeOK, Scripted, NEW r \in Rank, NEW k \in Kinds, Enter(r, k),
         \A q \in Rank \ {r} : mode'[q] = mode[q],
         \/ Len(coll[r]) < Layered /\ k = "barrier"
         \/ Len(coll[r]) = Layered /\ k = "gather"
         \/ Len(coll[r]) = Layered + 1 /\ k = "vote"
         \/ Len(coll[r]) = Layered + 2 /\ k = mode'[r]
  PROVE  Scripted'
<1>1. /\ coll'[r] \in Seq(Kinds) /\ coll[r] \in Seq(Kinds)
      /\ \A q \in Rank \ {r} : coll'[q] = coll[q]
      /\ Len(coll'[r]) = Len(coll[r]) + 1
      /\ \A n \in 1 .. Len(coll[r]) : coll'[r][n] = coll[r][n]
      /\ coll'[r][Len(coll[r]) + 1] = k
  BY EnterEffect, LenCalls
<1>2. \A q \in Rank : Script(coll[q], mode[q])
  BY DEF Scripted, Script
<1>3. Script(coll'[r], mode'[r])
  BY <1>1, <1>2, ScriptNext
<1>4. \A q \in Rank \ {r} : Script(coll'[q], mode'[q])
  BY <1>1, <1>2
<1>5. \A q \in Rank : Script(coll'[q], mode'[q])
  BY <1>3, <1>4
<1>. QED
  BY <1>5 DEF Scripted, Script

LEMMA InitScripted == Init => Scripted
BY EmptySeq DEF Init, Scripted

LEMMA ScriptedStep ==
  ASSUME IndInv, [Next]_vars
  PROVE  Scripted'
<1>0. TypeOK /\ Places /\ Scripted
  BY DEF IndInv
<1>. USE <1>0
<1>1. \A r \in Rank : /\ At(r, pc[r], Len(coll[r]), turn[r], up[r])
                      /\ Len(coll[r]) \in Nat /\ turn[r] \in 0 .. N /\ up[r] \in 0 .. L
  BY PlaceHere
<1>2. "barrier" \in Kinds /\ "gather" \in Kinds /\ "vote" \in Kinds
        /\ "nccl" \in Kinds /\ "custom" \in Kinds
  BY DEF Kinds
<1>3. \A r \in Rank : /\ At(r, "endturn", Len(coll[r]) + 1, turn[r], up[r]) => Len(coll[r]) < Layered
                      /\ At(r, "prefaulted", Len(coll[r]) + 1, turn[r], up[r]) => Len(coll[r]) < Layered
  <2>1. TAKE r \in Rank
  <2>2. Len(coll[r]) + 1 \in Nat /\ Len(coll[r]) \in Nat /\ Layered \in Nat
    BY <1>1, Sizes
  <2>. QED
    BY <1>1, <2>2, AtBounds
<1>4. ASSUME NEW r \in Rank, OtherTurn(r)
      PROVE  Scripted'
  <2>1. pc[r] = "turn" /\ turn[r] # r /\ Enter(r, "barrier") /\ UNCHANGED mode
    BY <1>4 DEF OtherTurn, peers
  <2>2. Len(coll[r]) < Layered
    BY <1>1, <1>3, <2>1, AtMoves
  <2>. QED
    BY <1>2, <2>1, <2>2, ScriptCall
<1>5. ASSUME NEW r \in Rank, PrefaultStripe(r)
      PROVE  Scripted'
  <2>1. pc[r] = "prefault" /\ Enter(r, "barrier") /\ UNCHANGED mode
    BY <1>5 DEF PrefaultStripe, peers
  <2>2. Len(coll[r]) < Layered
    BY <1>1, <1>3, <2>1, AtMoves
  <2>. QED
    BY <1>2, <2>1, <2>2, ScriptCall
<1>6. ASSUME NEW r \in Rank, Build(r)
      PROVE  Scripted'
  <2>1. pc[r] = "build" /\ UNCHANGED mode
    BY <1>6 DEF Build, peers
  <2>2. CASE Serial
    <3>1. Enter(r, "barrier")
      BY <1>6, <2>2 DEF Build
    <3>2. Len(coll[r]) < Layered
      BY <1>1, <1>3, <2>1, <2>2, AtMoves
    <3>. QED
      BY <1>2, <2>1, <3>1, <3>2, ScriptCall
  <2>3. CASE ~Serial
    <3>1. UNCHANGED coll
      BY <1>6, <2>3 DEF Build
    <3>. QED
      BY <2>1, <3>1 DEF Scripted
  <2>. QED
    BY <2>2, <2>3
<1>7. ASSUME NEW r \in Rank, CopyLayer(r)
      PROVE  Scripted'
  <2>1. pc[r] = "pack" /\ Enter(r, "barrier") /\ UNCHANGED mode
    BY <1>7 DEF CopyLayer, peers
  <2>2. Len(coll[r]) < Layered
    <3>1. Len(coll[r]) = Before + up[r] /\ up[r] < L
      BY <1>1, <2>1 DEF At
    <3>. QED
      BY <1>1, <3>1, Sizes, ParamAssumption
  <2>. QED
    BY <1>2, <2>1, <2>2, ScriptCall
<1>8. ASSUME NEW r \in Rank, Create(r)
      PROVE  Scripted'
  <2>1. pc[r] = "reduce" /\ Enter(r, "gather") /\ UNCHANGED mode
    BY <1>8 DEF Create
  <2>2. Len(coll[r]) = Layered
    BY <1>1, <2>1 DEF At
  <2>. QED
    BY <1>2, <2>1, <2>2, ScriptCall
<1>9. ASSUME NEW r \in Rank, Vote(r)
      PROVE  Scripted'
  <2>1. pc[r] = "gathered" /\ Enter(r, "vote") /\ UNCHANGED mode
    BY <1>9 DEF Vote
  <2>2. Len(coll[r]) = Layered + 1
    BY <1>1, <2>1 DEF At
  <2>. QED
    BY <1>2, <2>1, <2>2, ScriptCall
<1>10. ASSUME NEW r \in Rank, Decide(r)
       PROVE  Scripted'
  <2>1. PICK k \in Kinds : Enter(r, k) /\ mode' = [mode EXCEPT ![r] = k]
    BY <1>2, <1>10 DEF Decide
  <2>2. Len(coll[r]) = Layered + 2
    BY <1>1, <1>10 DEF At, Decide
  <2>3. k = mode'[r] /\ \A q \in Rank \ {r} : mode'[q] = mode[q]
    BY <2>1 DEF TypeOK
  <2>. QED
    BY <2>1, <2>2, <2>3, ScriptCall
<1>11. CASE UNCHANGED <<coll, mode>>
  BY <1>11 DEF Scripted
<1>12. ASSUME NEW r \in Rank,
              \/ (r = 0 /\ (Truncate \/ Write)) \/ Configure(r) \/ Read(r) \/ Join(r) \/ Turn(r)
              \/ Parse(r) \/ Prefaulted(r) \/ PollTimeout(r) \/ EndTurn(r) \/ BeginUpload(r)
              \/ NextLayer(r) \/ Alloc(r) \/ JoinThread(r) \/ Die(r)
       PROVE  UNCHANGED <<coll, mode>>
  BY <1>12 DEF Truncate, Write, Configure, Read, Join, Turn, Parse, Prefaulted, PollTimeout,
       EndTurn, BeginUpload, NextLayer, Alloc, JoinThread, Die, peers
<1>13. CASE UNCHANGED vars \/ \E r \in Rank : Prefetch(r) \/ \E w \in Worker : Pack(r, w)
  BY <1>11, <1>13 DEF vars, Prefetch, Touch, ThreadEnds, Pack, peers
<1>. QED
  BY <1>4, <1>5, <1>6, <1>7, <1>8, <1>9, <1>10, <1>11, <1>12, <1>13 DEF Next, Step

-----------------------------------------------------------------------------
(* The vote *)

LEMMA InitVotes == Init => Votes
BY DEF Init, Votes

\* All ranks have voted when one of them leaves the vote.
LEMMA AllVoted ==
  ASSUME TypeOK, Places, NEW r \in Rank, pc[r] = "voted", Met(r), NEW q \in Rank
  PROVE  pc[q] \in {"voted", "serve"}
<1>1. /\ At(q, pc[q], Len(coll[q]), turn[q], up[q])
      /\ Len(coll[q]) \in Nat /\ turn[q] \in 0 .. N /\ up[q] \in 0 .. L
      /\ Len(coll[r]) \in Nat
  BY PlaceHere
<1>2. Len(coll[r]) = Layered + 2
  BY PlaceHere DEF At
<1>3. Len(coll[q]) >= Layered + 2
  BY <1>2 DEF Met
<1>4. pc[q] \in Points
  BY DEF TypeOK, Points
<1>. QED
  BY <1>1, <1>3, <1>4, AtEnd

LEMMA VotesStep ==
  ASSUME IndInv, [Next]_vars
  PROVE  Votes'
<1>0. TypeOK /\ Places /\ Votes
  BY DEF IndInv
<1>. USE <1>0
<1>1. ASSUME NEW r \in Rank, Create(r)
      PROVE  Votes'
  <2>1. \A q \in Rank : mode[q] # "custom"
    BY <1>1 DEF Create, Votes
  <2>2. /\ pc[r] = "reduce" /\ pc'[r] = "gathered" /\ \A q \in Rank \ {r} : pc'[q] = pc[q]
        /\ \A q \in Rank \ {r} : created'[q] = created[q]
        /\ UNCHANGED mode
    BY <1>1, GotoEffect DEF Create, TypeOK
  <2>. QED
    BY <2>1, <2>2 DEF Votes
<1>2. ASSUME NEW r \in Rank, Vote(r)
      PROVE  Votes'
  <2>1. \A q \in Rank : mode[q] # "custom"
    BY <1>2 DEF Vote, Votes
  <2>2. /\ pc[r] = "gathered" /\ pc'[r] = "voted" /\ \A q \in Rank \ {r} : pc'[q] = pc[q]
        /\ UNCHANGED <<created, mode>>
    BY <1>2, GotoEffect DEF Vote
  <2>. QED
    BY <2>1, <2>2 DEF Votes
<1>3. ASSUME NEW r \in Rank, Decide(r)
      PROVE  Votes'
  <2>1. \A q \in Rank : pc[q] \in {"voted", "serve"}
    BY <1>3, AllVoted DEF Decide
  <2>2. pc[r] = "voted" /\ pc'[r] = "serve" /\ \A q \in Rank \ {r} : pc'[q] = pc[q]
    BY <1>3, GotoEffect DEF Decide
  <2>3. CASE Elected
    <3>1. \A q \in Rank : Ok(q)
      BY <2>3 DEF Elected, Votes
    <3>2. /\ mode'[r] = "custom" /\ \A q \in Rank \ {r} : mode'[q] = mode[q]
          /\ created'[r] = TRUE /\ \A q \in Rank \ {r} : created'[q] = created[q]
          /\ \A q \in Rank : opened'[q] = opened[q]
      BY <1>3, <2>3 DEF Decide, TypeOK
    <3>3. \A q \in Rank : Ok(q)'
      BY <3>1, <3>2 DEF Ok
    <3>4. \A q \in Rank : pc'[q] \in {"voted", "serve"}
      BY <2>1, <2>2
    <3>5. \A q \in Rank : mode'[q] # "unset" <=> pc'[q] = "serve"
      BY <2>2, <3>2 DEF Votes
    <3>6. \A q \in Rank : mode'[q] = "nccl" => ~created'[q]
      BY <3>2 DEF Votes
    <3>. QED
      BY <3>3, <3>4, <3>5, <3>6 DEF Votes
  <2>4. CASE ~Elected
    <3>1. \A q \in Rank : mode[q] # "custom"
      BY <2>4 DEF Elected, Votes
    <3>2. /\ mode'[r] = "nccl" /\ \A q \in Rank \ {r} : mode'[q] = mode[q]
          /\ created'[r] = FALSE /\ \A q \in Rank \ {r} : created'[q] = created[q]
      BY <1>3, <2>4 DEF Decide, TypeOK
    <3>. QED
      BY <2>2, <3>1, <3>2 DEF Votes
  <2>. QED
    BY <2>3, <2>4
<1>4. ASSUME UNCHANGED peers,
             \A q \in Rank : /\ pc[q] \in {"voted", "serve"} => pc'[q] = pc[q]
                             /\ pc'[q] = "serve" => pc[q] = "serve"
      PROVE  Votes'
  BY <1>4 DEF Votes, Ok, peers
<1>5. ASSUME NEW r \in Rank, NEW there, Goto(r, there), UNCHANGED peers,
             pc[r] \notin {"voted", "serve"}, there # "serve"
      PROVE  Votes'
  BY <1>4, <1>5, GotoEffect
<1>6. ASSUME NEW r \in Rank,
             \/ (r = 0 /\ (Truncate \/ Write)) \/ Configure(r) \/ Read(r) \/ Join(r) \/ Turn(r)
             \/ Parse(r) \/ Prefaulted(r) \/ PollTimeout(r)
      PROVE  Votes'
  <2>1. /\ pc[r] \notin {"voted", "serve"} /\ UNCHANGED peers
        /\ \E there : there # "serve" /\ Goto(r, there)
    BY <1>6 DEF Truncate, Write, Configure, Read, Join, Turn, Parse, Prefaulted, PollTimeout
  <2>. QED
    BY <1>5, <2>1
<1>7. ASSUME NEW r \in Rank,
             OtherTurn(r) \/ PrefaultStripe(r) \/ Build(r) \/ EndTurn(r) \/ BeginUpload(r)
      PROVE  Votes'
  <2>1. /\ pc[r] \notin {"voted", "serve"} /\ UNCHANGED peers
        /\ \E there : there # "serve" /\ Goto(r, there)
    BY <1>7 DEF OtherTurn, PrefaultStripe, Build, EndTurn, BeginUpload
  <2>. QED
    BY <1>5, <2>1
<1>8. ASSUME NEW r \in Rank, CopyLayer(r) \/ NextLayer(r) \/ Alloc(r) \/ JoinThread(r) \/ Die(r)
      PROVE  Votes'
  <2>1. /\ pc[r] \notin {"voted", "serve"} /\ UNCHANGED peers
        /\ \E there : there # "serve" /\ Goto(r, there)
    BY <1>8 DEF CopyLayer, NextLayer, Alloc, JoinThread, Die
  <2>. QED
    BY <1>5, <2>1
<1>9. CASE UNCHANGED vars \/ \E r \in Rank : Prefetch(r) \/ \E w \in Worker : Pack(r, w)
  <2>1. UNCHANGED <<pc, peers>>
    BY <1>9 DEF vars, Prefetch, Touch, ThreadEnds, Pack, peers
  <2>. QED
    BY <1>4, <2>1
<1>. QED
  BY <1>1, <1>2, <1>3, <1>6, <1>7, <1>8, <1>9 DEF Next, Step

LEMMA Agreed ==
  ASSUME IndInv
  PROVE  AllOrNone
BY DEF IndInv, TypeOK, Votes, AllOrNone, Ok

LEMMA Matched ==
  ASSUME IndInv
  PROVE  CollectivesMatch
<1>0. TypeOK /\ Places /\ Scripted /\ Votes
  BY DEF IndInv
<1>1. \A r \in Rank : /\ At(r, pc[r], Len(coll[r]), turn[r], up[r])
                      /\ Len(coll[r]) \in Nat /\ turn[r] \in 0 .. N /\ up[r] \in 0 .. L
                      /\ pc[r] \in Points
  BY <1>0, PlaceHere DEF TypeOK, Points
<1>2. \A r \in Rank : Len(coll[r]) <= Layered + 3
  BY <1>1, AtEnd
<1>3. \A r \in Rank : Len(coll[r]) >= Layered + 3 => pc[r] = "serve"
  BY <1>1, AtEnd
<1>4. ASSUME NEW r \in Rank, NEW q \in Rank, pc[r] = "serve", pc[q] = "serve"
      PROVE  mode[r] = mode[q]
  <2>1. mode[r] \in {"nccl", "custom"} /\ mode[q] \in {"nccl", "custom"}
    BY <1>0, <1>4 DEF Votes, TypeOK
  <2>2. \A s \in Rank : mode[s] = "custom" => created[r] /\ created[q]
    BY <1>0 DEF Votes, Ok
  <2>3. /\ mode[r] = "nccl" => ~created[r]
        /\ mode[q] = "nccl" => ~created[q]
    BY <1>0 DEF Votes
  <2>. QED
    BY <2>1, <2>2, <2>3
<1>5. ASSUME NEW r \in Rank, NEW q \in Rank, NEW n \in DOMAIN coll[r] \cap DOMAIN coll[q]
      PROVE  coll[r][n] = coll[q][n]
  <2>1. n \in 1 .. Len(coll[r]) /\ n \in 1 .. Len(coll[q]) /\ n <= Layered + 3
    <3>1. DOMAIN coll[r] = 1 .. Len(coll[r]) /\ DOMAIN coll[q] = 1 .. Len(coll[q])
      BY <1>0, LenCalls, LenProperties
    <3>2. n \in 1 .. Len(coll[r]) /\ n \in 1 .. Len(coll[q])
      BY <3>1
    <3>. QED
      BY <1>1, <1>2, <3>2, Sizes
  <2>2. CASE n <= Layered + 2
    <3>1. n <= Layered \/ n = Layered + 1 \/ n = Layered + 2
      <4>1. n \in Int /\ Layered \in Int
        BY <1>1, <2>1, Sizes
      <4>. QED
        BY <2>2, <4>1
    <3>. QED
      BY <1>0, <2>1, <3>1 DEF Scripted
  <2>3. CASE n = Layered + 3
    <3>1. pc[r] = "serve" /\ pc[q] = "serve"
      BY <1>1, <1>3, <2>1, <2>3, Sizes
    <3>2. mode[r] = mode[q]
      BY <1>4, <3>1
    <3>. QED
      BY <1>0, <2>1, <2>3, <3>2 DEF Scripted
  <2>. QED
    BY <2>1, <2>2, <2>3, Sizes
<1>. QED
  BY <1>5 DEF CollectivesMatch

-----------------------------------------------------------------------------
(* The page cache *)

LEMMA InitBegun == Init => Begun
BY DEF Init, Begun

\* Only the start of an upload starts a prefetch thread.
LEMMA ThreadStarts ==
  ASSUME TypeOK, [Next]_vars, NEW r \in Rank, pfOn'[r] # "off", pfOn[r] = "off"
  PROVE  \E q \in Rank : BeginUpload(q)
<1>1. CASE UNCHANGED pfOn
  BY <1>1
<1>2. ASSUME NEW q \in Rank,
             \/ (q = 0 /\ (Truncate \/ Write)) \/ Configure(q) \/ Read(q) \/ Join(q) \/ Turn(q)
             \/ Parse(q) \/ Prefaulted(q) \/ PollTimeout(q) \/ OtherTurn(q)
             \/ PrefaultStripe(q) \/ Build(q) \/ EndTurn(q)
      PROVE  UNCHANGED pfOn
  BY <1>2 DEF Truncate, Write, Configure, Read, Join, Turn, Parse, Prefaulted, PollTimeout,
       OtherTurn, PrefaultStripe, Build, EndTurn, thread
<1>3. ASSUME NEW q \in Rank,
             \/ CopyLayer(q) \/ NextLayer(q) \/ Alloc(q) \/ JoinThread(q) \/ Die(q)
             \/ Create(q) \/ Vote(q) \/ Decide(q) \/ Touch(q) \/ \E w \in Worker : Pack(q, w)
      PROVE  UNCHANGED pfOn
  BY <1>3 DEF CopyLayer, NextLayer, Alloc, JoinThread, Die, Create, Vote, Decide, Touch, Pack, thread
<1>4. ASSUME NEW q \in Rank, ThreadEnds(q)
      PROVE  pfOn'[r] = pfOn[r] \/ pfOn[r] = "run"
  BY <1>4 DEF ThreadEnds, TypeOK
<1>5. CASE UNCHANGED vars
  BY <1>1, <1>5 DEF vars, thread
<1>. QED
  BY <1>1, <1>2, <1>3, <1>4, <1>5 DEF Next, Step, Prefetch

LEMMA BegunStep ==
  ASSUME IndInv, TypeOK', [Next]_vars
  PROVE  Begun'
<1>1. TypeOK /\ TypeOK' /\ Places /\ Skew /\ Begun
  BY DEF IndInv
<1>2. \A q \in Rank : Len(coll'[q]) >= Len(coll[q]) /\ Len(coll[q]) \in Nat /\ Len(coll'[q]) \in Nat
  BY <1>1, NeverLess, LenCalls, LenProperties DEF TypeOK
<1>3. ASSUME NEW r \in Rank, pfOn'[r] # "off", NEW q \in Rank
      PROVE  Len(coll[q]) >= Before
  <2>1. CASE pfOn[r] # "off"
    BY <1>1, <2>1 DEF Begun
  <2>2. CASE pfOn[r] = "off"
    <3>1. PICK s \in Rank : BeginUpload(s)
      BY <1>1, <1>3, <2>2, ThreadStarts
    <3>2. Len(coll[s]) = Before
      BY <1>1, <3>1, PlaceHere DEF At, BeginUpload
    <3>. QED
      BY <1>1, <3>1, <3>2, Abreast DEF BeginUpload, Waiting
  <2>. QED
    BY <2>1, <2>2
<1>. QED
  BY <1>2, <1>3, Sizes DEF Begun

\* Only a prefault, a packing worker and a prefetch thread bring layers into the
\* page cache; only the cold drop and the eviction drop them.
LEMMA CacheSteps ==
  ASSUME [Next]_vars
  PROVE  \/ UNCHANGED cache
         \/ \E r \in Rank :
              \/ PrefaultStripe(r)
              \/ pc[r] = "pack" /\ cache' = cache \cup {up[r]}
              \/ pf[r] <= up[r] + Ahead /\ cache' = cache \cup {pf[r]}
              \/ BeginUpload(r) /\ cache' = ColdDrop
              \/ NextLayer(r) /\ cache' = cache \ Evicted(r)
<1>1. ASSUME NEW r \in Rank,
             \/ (r = 0 /\ (Truncate \/ Write)) \/ Configure(r) \/ Read(r) \/ Join(r) \/ Turn(r)
             \/ Parse(r) \/ Prefaulted(r) \/ PollTimeout(r) \/ OtherTurn(r) \/ Build(r) \/ EndTurn(r)
      PROVE  UNCHANGED cache
  BY <1>1 DEF Truncate, Write, Configure, Read, Join, Turn, Parse, Prefaulted, PollTimeout,
       OtherTurn, Build, EndTurn
<1>2. ASSUME NEW r \in Rank,
             \/ CopyLayer(r) \/ Alloc(r) \/ JoinThread(r) \/ Die(r)
             \/ Create(r) \/ Vote(r) \/ Decide(r) \/ ThreadEnds(r)
      PROVE  UNCHANGED cache
  BY <1>2 DEF CopyLayer, Alloc, JoinThread, Die, Create, Vote, Decide, ThreadEnds
<1>3. CASE UNCHANGED vars
  BY <1>3 DEF vars
<1>4. ASSUME NEW r \in Rank, Touch(r)
      PROVE  pf[r] <= up[r] + Ahead /\ cache' = cache \cup {pf[r]}
  BY <1>4 DEF Touch
<1>5. ASSUME NEW r \in Rank, NEW w \in Worker, Pack(r, w)
      PROVE  pc[r] = "pack" /\ cache' = cache \cup {up[r]}
  BY <1>5 DEF Pack
<1>6. ASSUME NEW r \in Rank, BeginUpload(r)
      PROVE  cache' = ColdDrop
  BY <1>6 DEF BeginUpload
<1>7. ASSUME NEW r \in Rank, NextLayer(r)
      PROVE  cache' = cache \ Evicted(r)
  BY <1>7 DEF NextLayer
<1>. QED
  BY <1>1, <1>2, <1>3, <1>4, <1>5, <1>6, <1>7 DEF Next, Step, Prefetch

\* The places of the ranks and how far apart they are bound the layers uploaded.
LEMMA UploadSkew ==
  ASSUME TypeOK, Places, Skew, NEW r \in Rank, NEW q \in Rank
  PROVE  /\ up[r] <= up[q] + 1
         /\ pc[r] \notin Waiting \/ Met(r) => up[r] <= up[q]
<1>1. /\ At(r, pc[r], Len(coll[r]), turn[r], up[r])
      /\ Len(coll[r]) \in Nat /\ turn[r] \in 0 .. N /\ up[r] \in 0 .. L
      /\ At(q, pc[q], Len(coll[q]), turn[q], up[q])
      /\ Len(coll[q]) \in Nat /\ turn[q] \in 0 .. N /\ up[q] \in 0 .. L
  BY PlaceHere
<1>2. /\ Len(coll[r]) <= Len(coll[q]) => up[r] <= up[q]
      /\ Len(coll[r]) <= Len(coll[q]) + 1 => up[r] <= up[q] + 1
  BY <1>1, AtCompared
<1>3. Len(coll[r]) <= Len(coll[q]) + 1
  <2>1. Len(coll[r]) <= Len(coll[q]) + (IF pc[r] \in Waiting THEN 1 ELSE 0)
    BY DEF Skew
  <2>2. CASE pc[r] \in Waiting
    BY <2>1, <2>2
  <2>3. CASE pc[r] \notin Waiting
    BY <1>1, <2>1, <2>3
  <2>. QED
    BY <2>2, <2>3
<1>4. pc[r] \notin Waiting \/ Met(r) => Len(coll[r]) <= Len(coll[q])
  BY Abreast
<1>. QED
  BY <1>2, <1>3, <1>4

LEMMA UploadsOnly ==
  ASSUME TypeOK, TypeOK', Places, Places', Skew, [Next]_vars, NEW q \in Rank
  PROVE  up[q] <= up'[q]
<1>1. /\ At(q, pc[q], Len(coll[q]), turn[q], up[q])
      /\ Len(coll[q]) \in Nat /\ turn[q] \in 0 .. N /\ up[q] \in 0 .. L
  BY PlaceHere
<1>2. /\ At(q, pc'[q], Len(coll'[q]), turn'[q], up'[q])
      /\ Len(coll'[q]) \in Nat /\ turn'[q] \in 0 .. N /\ up'[q] \in 0 .. L
  BY LenProperties DEF TypeOK, Places, Place
<1>. QED
  BY <1>1, <1>2, NeverLess, AtCompared

LEMMA InitWindow == Init => WindowBounded
BY DEF Init, WindowBounded

LEMMA WindowStep ==
  ASSUME IndInv, TypeOK', Places', WindowBounded, [Next]_vars
  PROVE  WindowBounded'
<1>0. TypeOK /\ Places /\ Skew /\ Begun
  BY DEF IndInv
<1>. SUFFICES ASSUME EvictLag >= 0, NEW s \in Rank, pfOn'[s] # "off",
                     NEW l \in cache', NEW q \in Rank
              PROVE  l <= up'[q] + Ahead + 1
  BY DEF WindowBounded
<1>1. /\ l \in Int /\ up[q] \in Nat /\ up'[q] \in Nat /\ up[q] <= up'[q] /\ Ahead \in Nat
  <2>1. up[q] <= up'[q]
    BY <1>0, UploadsOnly
  <2>. QED
    BY <1>0, <2>1, ParamAssumption DEF TypeOK, Layer
<1>2. CASE \E r \in Rank : BeginUpload(r)
  BY <1>2 DEF BeginUpload, ColdDrop
<1>3. CASE ~ \E r \in Rank : BeginUpload(r)
  <2>1. pfOn[s] # "off"
    BY <1>0, <1>3, ThreadStarts
  <2>2. CASE l \in cache
    BY <1>1, <2>1, <2>2 DEF WindowBounded
  <2>3. CASE l \notin cache
    <3>1. PICK r \in Rank : \/ PrefaultStripe(r)
                            \/ pc[r] = "pack" /\ l = up[r]
                            \/ pf[r] <= up[r] + Ahead /\ l = pf[r]
      BY <1>3, <2>3, CacheSteps
    <3>2. up[r] \in Nat /\ up[r] <= up[q] + 1
      <4>1. up[r] <= up[q] + 1
        BY <1>0, UploadSkew
      <4>. QED
        BY <1>0, <4>1, ParamAssumption DEF TypeOK
    <3>3. CASE PrefaultStripe(r)
      <4>1. Len(coll[r]) < Before
        BY <1>0, <3>3, PlaceHere, AtBounds DEF PrefaultStripe
      <4>2. Len(coll[r]) >= Before
        BY <1>0, <2>1 DEF Begun
      <4>. QED
        BY <1>0, <4>1, <4>2, LenCalls, Sizes
    <3>4. CASE pc[r] = "pack" /\ l = up[r]
      BY <1>1, <3>2, <3>4
    <3>5. CASE pf[r] <= up[r] + Ahead /\ l = pf[r]
      BY <1>1, <3>2, <3>5
    <3>. QED
      BY <3>1, <3>3, <3>4, <3>5
  <2>. QED
    BY <2>2, <2>3
<1>. QED
  BY <1>2, <1>3

LEMMA EvictStep ==
  ASSUME IndInv, TypeOK', [Next]_vars
  PROVE  \A l \in cache \ cache' :
           \/ \A q \in Rank : up[q] > l
           \/ \E r \in Rank : pc[r] = "begin" /\ pc'[r] = "pack"
<1>0. TypeOK /\ Places /\ Skew
  BY DEF IndInv
<1>1. TAKE l \in cache \ cache'
<1>2. PICK r \in Rank : \/ BeginUpload(r)
                        \/ PrefaultStripe(r)
                        \/ NextLayer(r) /\ l \in Evicted(r)
  BY CacheSteps
<1>3. CASE BeginUpload(r)
  BY <1>0, <1>3, GotoEffect DEF BeginUpload
<1>4. CASE PrefaultStripe(r)
  BY <1>4 DEF PrefaultStripe
<1>5. CASE NextLayer(r) /\ l \in Evicted(r)
  <2>1. l = up[r] - 1 - EvictLag /\ EvictLag >= 0 /\ up[r] \in Nat /\ EvictLag \in Int
    BY <1>0, <1>5, ParamAssumption DEF Evicted, TypeOK
  <2>2. ASSUME NEW q \in Rank
        PROVE  up[q] > l
    <3>1. up[r] <= up[q] /\ up[q] \in Nat
      <4>1. Met(r)
        BY <1>5 DEF NextLayer
      <4>2. up[r] <= up[q]
        BY <1>0, <4>1, UploadSkew
      <4>. QED
        BY <1>0, <4>2, ParamAssumption DEF TypeOK
    <3>. QED
      BY <2>1, <3>1
  <2>. QED
    BY <2>2
<1>. QED
  BY <1>2, <1>3, <1>4, <1>5

-----------------------------------------------------------------------------
(* The packing workers *)

LEMMA DivBounds ==
  ASSUME NEW a \in Nat, NEW b \in Nat \ {0}
  PROVE  a \div b \in Nat /\ b * (a \div b) <= a /\ a < b * (a \div b) + b
OBVIOUS

LEMMA DivLess ==
  ASSUME NEW a \in Nat, NEW b \in Nat \ {0}, NEW k \in Nat
  PROVE  /\ a < k * b => a \div b < k
         /\ a >= k * b => a \div b >= k
OBVIOUS

\* Between them the workers pack every row.
LEMMA SharesCover ==
  ASSUME NEW i \in 0 .. Rows - 1
  PROVE  \E w \in Worker : i \in Share(w)
<1>. DEFINE a == (i + 1) * Threads - 1
            w == a \div Rows
<1>0. Rows \in Nat \ {0} /\ Threads \in Nat \ {0} /\ i \in Nat /\ i + 1 <= Rows
  BY ParamAssumption
<1>1. a \in Nat /\ (i + 1) * Threads <= Rows * Threads /\ (i + 1) * Threads \in Nat
      /\ Rows * Threads \in Nat
  BY <1>0
<1>2. w \in Nat /\ Rows * w <= a /\ a < Rows * w + Rows
  BY <1>0, <1>1, DivBounds
<1>. HIDE DEF w
<1>3. Rows * w \in Nat /\ Rows * (w + 1) = Rows * w + Rows /\ Rows * (w + 1) \in Nat
  BY <1>0, <1>2
<1>4. w < Threads
  <2>1. Rows * w < Rows * Threads
    BY <1>1, <1>2, <1>3
  <2>. QED
    BY <1>0, <1>2, <2>1
<1>5. (Rows * w) \div Threads < i + 1
  <2>1. Rows * w < (i + 1) * Threads
    BY <1>1, <1>2, <1>3
  <2>. QED
    BY <1>0, <1>3, <2>1, DivLess
<1>6. (Rows * (w + 1)) \div Threads >= i + 1
  <2>1. Rows * (w + 1) >= (i + 1) * Threads
    BY <1>1, <1>2, <1>3
  <2>. QED
    BY <1>0, <1>3, <2>1, DivLess
<1>7. (Rows * w) \div Threads \in Nat /\ (Rows * (w + 1)) \div Threads \in Nat
  BY <1>0, <1>3, DivBounds
<1>8. w \in Worker
  BY <1>0, <1>2, <1>4 DEF Worker
<1>9. i \in Share(w)
  BY <1>0, <1>5, <1>6, <1>7 DEF Share
<1>. QED
  BY <1>8, <1>9

LEMMA InitPacked == Init => PackedRows /\ DeviceHoldsLayers
BY DEF Init, PackedRows, DeviceHoldsLayers, Layer

LEMMA PackedStep ==
  ASSUME IndInv, [Next]_vars
  PROVE  PackedRows' /\ DeviceHoldsLayers'
<1>0. TypeOK /\ Places /\ PackedRows /\ DeviceHoldsLayers
  BY DEF IndInv
<1>. USE <1>0
<1>1. ASSUME NEW r \in Rank, NEW w \in Worker, Pack(r, w)
      PROVE  PackedRows' /\ DeviceHoldsLayers'
  <2>1. /\ pc[r] = "pack" /\ UNCHANGED <<pc, up, device>>
        /\ packed'[r] = packed[r] \cup {w}
        /\ \A q \in Rank \ {r} : packed'[q] = packed[q] /\ stage'[q] = stage[q]
        /\ \A i \in 0 .. Rows - 1 : stage'[r][i] = IF i \in Share(w) THEN up[r] ELSE stage[r][i]
    BY <1>1 DEF Pack, TypeOK
  <2>2. \A v \in Worker : Share(v) \subseteq 0 .. Rows - 1
    <3>1. TAKE v \in Worker
    <3>2. v \in Nat /\ v + 1 <= Threads /\ Rows \in Nat \ {0} /\ Threads \in Nat \ {0}
      BY ParamAssumption DEF Worker
    <3>3. Rows * v \in Nat /\ Rows * (v + 1) \in Nat /\ Rows * (v + 1) < (Rows + 1) * Threads
      BY <3>2
    <3>4. (Rows * v) \div Threads \in Nat /\ (Rows * (v + 1)) \div Threads \in Nat
      BY <3>2, <3>3, DivBounds
    <3>5. (Rows * (v + 1)) \div Threads < Rows + 1
      BY <3>2, <3>3, DivLess
    <3>. QED
      BY <3>2, <3>4, <3>5 DEF Share
  <2>3. ASSUME NEW v \in packed'[r], NEW i \in Share(v)
        PROVE  stage'[r][i] = up[r]
    <3>1. v \in Worker /\ i \in 0 .. Rows - 1
      BY <2>1, <2>2, <2>3 DEF TypeOK
    <3>2. CASE i \in Share(w)
      BY <2>1, <3>1, <3>2
    <3>3. CASE i \notin Share(w)
      <4>1. v \in packed[r]
        BY <2>1, <2>3, <3>3
      <4>2. stage[r][i] = up[r]
        BY <2>3, <4>1 DEF PackedRows
      <4>. QED
        BY <2>1, <3>1, <3>3, <4>2
    <3>. QED
      BY <3>2, <3>3
  <2>4. \A q \in Rank : \A v \in packed'[q] : \A i \in Share(v) : stage'[q][i] = up'[q]
    BY <2>1, <2>3 DEF PackedRows
  <2>. QED
    BY <2>1, <2>4 DEF PackedRows, DeviceHoldsLayers
<1>2. ASSUME NEW r \in Rank, CopyLayer(r)
      PROVE  PackedRows' /\ DeviceHoldsLayers'
  <2>1. up[r] \in Layer
    <3>1. up[r] \in 0 .. L /\ up[r] < L
      BY <1>2, PlaceHere DEF CopyLayer, At
    <3>. QED
      BY <3>1, ParamAssumption DEF Layer
  <2>2. /\ pc[r] = "pack" /\ packed[r] = Worker
        /\ pc'[r] = "uploaded" /\ \A q \in Rank \ {r} : pc'[q] = pc[q]
        /\ up'[r] = up[r] + 1 /\ packed'[r] = {} /\ UNCHANGED stage
        /\ \A q \in Rank \ {r} : up'[q] = up[q] /\ packed'[q] = packed[q] /\ device'[q] = device[q]
    BY <1>2, GotoEffect DEF CopyLayer, TypeOK
  <2>3. /\ device'[r][up[r]] = {stage[r][i] : i \in 0 .. Rows - 1}
        /\ \A l \in Layer \ {up[r]} : device'[r][l] = device[r][l]
    BY <1>2, <2>1 DEF CopyLayer, TypeOK
  <2>4. \A i \in 0 .. Rows - 1 : stage[r][i] = up[r]
    BY <2>2, SharesCover DEF PackedRows
  <2>5. {stage[r][i] : i \in 0 .. Rows - 1} = {up[r]}
    <3>1. 0 \in 0 .. Rows - 1
      BY ParamAssumption
    <3>. QED
      BY <2>4, <3>1
  <2>6. ASSUME NEW l \in Layer, l < up'[r]
        PROVE  device'[r][l] = {l}
    <3>1. CASE l = up[r]
      BY <2>3, <2>5, <3>1
    <3>2. CASE l # up[r]
      <4>1. l < up[r]
        BY <2>1, <2>2, <2>6, <3>2 DEF Layer
      <4>. QED
        BY <2>3, <3>2, <4>1 DEF DeviceHoldsLayers
    <3>. QED
      BY <3>1, <3>2
  <2>7. DeviceHoldsLayers'
    BY <2>2, <2>6 DEF DeviceHoldsLayers
  <2>8. PackedRows'
    BY <2>2 DEF PackedRows
  <2>. QED
    BY <2>7, <2>8
<1>3. ASSUME UNCHANGED upload,
             \A q \in Rank : /\ pc[q] \in {"dead", "unwind"} => pc'[q] \in {"dead", "unwind"}
                             /\ pc[q] = "pack" => pc'[q] \in {"pack", "dead", "unwind"}
      PROVE  PackedRows' /\ DeviceHoldsLayers'
  BY <1>3 DEF PackedRows, DeviceHoldsLayers, upload
<1>4. ASSUME NEW r \in Rank, NEW there, Goto(r, there), UNCHANGED upload,
             \/ pc[r] \notin {"pack", "dead", "unwind"}
             \/ there \in {"dead", "unwind"}
      PROVE  PackedRows' /\ DeviceHoldsLayers'
  BY <1>3, <1>4, GotoEffect
<1>5. ASSUME NEW r \in Rank,
             \/ (r = 0 /\ (Truncate \/ Write)) \/ Configure(r) \/ Read(r) \/ Join(r) \/ Turn(r)
             \/ Parse(r) \/ Prefaulted(r) \/ PollTimeout(r)
      PROVE  PackedRows' /\ DeviceHoldsLayers'
  <2>1. /\ pc[r] \notin {"pack", "dead", "unwind"} /\ UNCHANGED upload
        /\ \E there : Goto(r, there)
    BY <1>5 DEF Truncate, Write, Configure, Read, Join, Turn, Parse, Prefaulted, PollTimeout
  <2>. QED
    BY <1>4, <2>1
<1>6. ASSUME NEW r \in Rank,
             OtherTurn(r) \/ PrefaultStripe(r) \/ Build(r) \/ EndTurn(r) \/ BeginUpload(r)
      PROVE  PackedRows' /\ DeviceHoldsLayers'
  <2>1. /\ pc[r] \notin {"pack", "dead", "unwind"} /\ UNCHANGED upload
        /\ \E there : Goto(r, there)
    BY <1>6 DEF OtherTurn, PrefaultStripe, Build, EndTurn, BeginUpload
  <2>. QED
    BY <1>4, <2>1
<1>7. ASSUME NEW r \in Rank, NextLayer(r) \/ Alloc(r) \/ Create(r) \/ Vote(r) \/ Decide(r)
      PROVE  PackedRows' /\ DeviceHoldsLayers'
  <2>1. /\ pc[r] \notin {"pack", "dead", "unwind"} /\ UNCHANGED upload
        /\ \E there : Goto(r, there)
    BY <1>7 DEF NextLayer, Alloc, Create, Vote, Decide
  <2>. QED
    BY <1>4, <2>1
<1>8. ASSUME NEW r \in Rank, JoinThread(r) \/ Die(r)
      PROVE  PackedRows' /\ DeviceHoldsLayers'
  <2>1. /\ UNCHANGED upload
        /\ \E there : Goto(r, there) /\ (pc[r] = "joining" \/ there \in {"dead", "unwind"})
    BY <1>8 DEF JoinThread, Die
  <2>. QED
    BY <1>4, <2>1
<1>9. CASE UNCHANGED vars \/ \E r \in Rank : Prefetch(r)
  <2>1. UNCHANGED <<pc, upload>>
    BY <1>9 DEF vars, Prefetch, Touch, ThreadEnds, upload
  <2>. QED
    BY <1>3, <2>1
<1>. QED
  BY <1>1, <1>2, <1>5, <1>6, <1>7, <1>8, <1>9 DEF Next, Step

-----------------------------------------------------------------------------
(* The theorems *)

LEMMA InitInv == Init => IndInv /\ WindowBounded
BY InitType, InitPlaces, InitScripted, InitSkew, InitVotes, InitPacked, InitBegun, InitWindow
   DEF IndInv

LEMMA InvStep ==
  ASSUME IndInv, WindowBounded, [Next]_vars
  PROVE  IndInv' /\ WindowBounded'
<1>1. TypeOK' /\ Places' /\ Scripted' /\ Votes' /\ PackedRows' /\ DeviceHoldsLayers'
  BY TypeStep, PlacesStep, ScriptedStep, VotesStep, PackedStep
<1>2. Skew'
  BY <1>1, SkewStep DEF IndInv
<1>3. Begun'
  BY <1>1, BegunStep
<1>4. WindowBounded'
  BY <1>1, WindowStep
<1>. QED
  BY <1>1, <1>2, <1>3, <1>4 DEF IndInv

\* The inductive invariant: a rank's place in the program fixes how many collectives
\* it has entered and which, and no rank is two ahead of another.
THEOREM Invariant == Spec => [](IndInv /\ WindowBounded)
<1>1. Init => IndInv /\ WindowBounded
  BY InitInv
<1>2. IndInv /\ WindowBounded /\ [Next]_vars => (IndInv /\ WindowBounded)'
  BY InvStep
<1>. QED
  BY <1>1, <1>2, PTL DEF Spec

\* Every variable keeps its type.
THEOREM TypeCorrect == Spec => []TypeOK
<1>1. IndInv /\ WindowBounded => TypeOK
  BY DEF IndInv
<1>. QED
  BY <1>1, Invariant, PTL

\* The ranks enter the same collectives in the same order, whichever of them fails
\* to get its staging memory, with any number of layers and ranks
\* (src/nccl_comm.cpp:240-268).
THEOREM CollectivesAgree == Spec => []CollectivesMatch
<1>1. IndInv /\ WindowBounded => CollectivesMatch
  BY Matched
<1>. QED
  BY <1>1, Invariant, PTL

\* One rank at a time parses the tensor directories of the load in turns
\* (src/server.cpp:192-206).
THEOREM TurnsExclude == Spec => []OneRankParses
<1>1. IndInv /\ WindowBounded => OneRankParses
  BY SerialParse
<1>. QED
  BY <1>1, Invariant, PTL

\* The page cache stays a window behind the slowest rank (src/model_gpu.cpp:872-882).
THEOREM PrefetchIsPaced == Spec => []WindowBounded
<1>1. IndInv /\ WindowBounded => WindowBounded
  OBVIOUS
<1>. QED
  BY <1>1, Invariant, PTL

\* The workers' shares leave no row of a layer to what the staging buffer held
\* before (src/model_gpu.cpp:189-233).
THEOREM UploadIsWhole == Spec => []DeviceHoldsLayers
<1>1. IndInv /\ WindowBounded => DeviceHoldsLayers
  BY DEF IndInv
<1>. QED
  BY <1>1, Invariant, PTL

\* The ranks do not divide over how they sum: a rank that goes through peers' memory
\* has all of it mapped, and the others go the same way (src/nccl_comm.cpp:225-227).
THEOREM VoteIsShared == Spec => []AllOrNone
<1>1. IndInv /\ WindowBounded => AllOrNone
  BY Agreed
<1>. QED
  BY <1>1, Invariant, PTL

\* The eviction drops no layer that some rank has still to read
\* (src/model_gpu.cpp:1013-1022).
THEOREM EvictionTrailsAll == Spec => EvictsOnlyUploaded
<1>1. ASSUME IndInv /\ WindowBounded, [Next]_vars
      PROVE  [\A l \in cache \ cache' :
                \/ \A q \in Rank : up[q] > l
                \/ \E r \in Rank : pc[r] = "begin" /\ pc'[r] = "pack"]_vars
  <2>1. TypeOK'
    BY <1>1, TypeStep
  <2>. QED
    BY <1>1, <2>1, EvictStep
<1>. QED
  BY <1>1, Invariant, PTL DEF Spec, EvictsOnlyUploaded

=============================================================================
