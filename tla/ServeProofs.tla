----------------------------- MODULE ServeProofs ------------------------------
(***************************************************************************)
(* Proofs about Serve, for every number of connections, every text the     *)
(* tokens make, all stop strings and every size of the sockets' buffers.   *)
(***************************************************************************)
EXTENDS Serve, StreamLemmas

-----------------------------------------------------------------------------
(* Stop strings and characters *)

\* The lengths of finitely many strings are bounded.
LEMMA LengthsBounded ==
  ASSUME NEW S, NEW s \in Seq(Seq(S))
  PROVE  \E b \in Nat : \A n \in 1 .. Len(s) : Len(s[n]) \in Nat /\ Len(s[n]) <= b
<1>. DEFINE Bound(k) == \E b \in Nat : \A n \in 1 .. k : Len(s[n]) <= b
            Bad == {k \in 0 .. Len(s) : ~Bound(k)}
<1>1. Len(s) \in Nat /\ \A n \in 1 .. Len(s) : Len(s[n]) \in Nat
  <2>1. Len(s) \in Nat /\ \A n \in 1 .. Len(s) : s[n] \in Seq(S)
    BY LenProperties, ElementOfSeq
  <2>. QED
    BY <2>1, LenProperties
<1>. HIDE DEF Bound
<1>2. Bad = {}
  <2>1. SUFFICES ASSUME Bad # {} PROVE FALSE
    OBVIOUS
  <2>2. Bad \in SUBSET Nat
    BY <1>1
  <2>3. PICK m \in Bad : \A k \in Bad : m <= k
    BY <2>1, <2>2, Least
  <2>4. m \in 0 .. Len(s) /\ ~Bound(m)
    OBVIOUS
  <2>5. m # 0
    <3>1. SUFFICES ASSUME m = 0 PROVE FALSE
      OBVIOUS
    <3>2. \A n \in 1 .. m : Len(s[n]) <= 0
      BY <3>1
    <3>. QED
      BY <2>4, <3>2 DEF Bound
  <2>6. m - 1 \in 0 .. Len(s) /\ Bound(m - 1)
    <3>1. m \in Nat /\ m - 1 \in 0 .. Len(s) /\ ~(m <= m - 1)
      BY <1>1, <2>4, <2>5
    <3>2. m - 1 \notin Bad
      BY <2>3, <3>1
    <3>. QED
      BY <3>1, <3>2
  <2>7. PICK b \in Nat : \A n \in 1 .. m - 1 : Len(s[n]) <= b
    BY <2>6 DEF Bound
  <2>. DEFINE c == IF Len(s[m]) <= b THEN b ELSE Len(s[m])
  <2>8. m \in 1 .. Len(s) /\ Len(s[m]) \in Nat
    BY <1>1, <2>4, <2>5
  <2>9. c \in Nat /\ \A n \in 1 .. m : Len(s[n]) <= c
    <3>1. c \in Nat /\ b <= c /\ Len(s[m]) <= c
      BY <2>7, <2>8
    <3>. HIDE DEF c
    <3>2. ASSUME NEW n \in 1 .. m
          PROVE  Len(s[n]) <= c
      <4>1. n = m \/ n \in 1 .. m - 1
        BY <2>8
      <4>2. CASE n = m
        BY <3>1, <4>2
      <4>3. CASE n \in 1 .. m - 1
        <5>1. Len(s[n]) <= b /\ b \in Nat
          BY <2>7, <4>3
        <5>2. Len(s[n]) \in Nat
          BY <1>1, <2>8
        <5>. QED
          BY <3>1, <5>1, <5>2
      <4>. QED
        BY <4>1, <4>2, <4>3
    <3>. QED
      BY <3>1, <3>2
  <2>. QED
    BY <2>4, <2>9 DEF Bound
<1>3. Bound(Len(s))
  <2>1. Len(s) \in 0 .. Len(s)
    BY <1>1
  <2>. QED
    BY <1>2, <2>1
<1>. QED
  BY <1>1, <1>3 DEF Bound

\* The hold-back window is long enough for any stop string but its last byte.
LEMMA HoldBackCovers ==
  ASSUME NEW r \in Request
  PROVE  /\ HoldBack(r) \in Nat
         /\ \A n \in DOMAIN r.stop : r.stop[n] # <<>> =>
              Len(r.stop[n]) \in Nat /\ Len(r.stop[n]) > 0 /\ Len(r.stop[n]) - 1 <= HoldBack(r)
<1>. DEFINE N == {n \in DOMAIN r.stop : r.stop[n] # <<>>}
            T == {0} \cup {Len(r.stop[n]) - 1 : n \in N}
<1>1. /\ r.stop \in Seq(Seq(Byte)) /\ DOMAIN r.stop = 1 .. Len(r.stop)
      /\ \A n \in DOMAIN r.stop : r.stop[n] \in Seq(Byte)
  <2>1. r.stop \in Seq(Seq(Byte))
    BY DEF Request
  <2>. QED
    BY <2>1, LenProperties, ElementOfSeq
<1>2. PICK b \in Nat : \A n \in 1 .. Len(r.stop) : Len(r.stop[n]) \in Nat /\ Len(r.stop[n]) <= b
  BY <1>1, LengthsBounded
<1>3. \A n \in N : Len(r.stop[n]) \in Nat /\ Len(r.stop[n]) > 0 /\ Len(r.stop[n]) <= b
  <2>1. \A n \in N : Len(r.stop[n]) \in Nat /\ Len(r.stop[n]) <= b
    BY <1>1, <1>2
  <2>2. \A n \in N : Len(r.stop[n]) # 0
    BY <1>1, EmptySeq
  <2>. QED
    BY <2>1, <2>2
<1>4. T \in SUBSET (0 .. b) /\ T # {}
  <2>1. \A n \in N : Len(r.stop[n]) - 1 \in 0 .. b
    BY <1>3
  <2>. QED
    BY <2>1
<1>. HIDE DEF T
<1>5. \E m \in T : \A k \in T : m >= k
  BY <1>4, Greatest
<1>6. Max(T) \in T /\ \A k \in T : Max(T) >= k
  BY <1>5 DEF Max
<1>7. HoldBack(r) = Max(T)
  BY DEF HoldBack, T
<1>8. \A n \in N : Len(r.stop[n]) - 1 \in T
  BY DEF T
<1>9. HoldBack(r) \in T /\ \A k \in T : HoldBack(r) >= k
  BY <1>6, <1>7
<1>. DEFINE h == HoldBack(r)
<1>. HIDE DEF h, N
<1>10. h \in Nat
  <2>1. h \in T
    BY <1>9 DEF h
  <2>2. h \in 0 .. b
    BY <1>4, <2>1
  <2>. QED
    BY <1>2, <2>2
<1>11. \A n \in N : Len(r.stop[n]) - 1 <= h
  <2>1. \A n \in N : h >= Len(r.stop[n]) - 1
    BY <1>8, <1>9 DEF h
  <2>. QED
    BY <1>3, <1>10, <2>1
<1>. QED
  BY <1>3, <1>10, <1>11 DEF h, N

\* utf8_trunc goes back to the byte that begins a character.
LEMMA TruncAtCharacter ==
  ASSUME NEW t \in Seq(Byte), NEW n \in Nat
  PROVE  /\ n >= Len(t) => Trunc(t, n) = Len(t)
         /\ n < Len(t) => /\ Trunc(t, n) \in 0 .. n
                          /\ Trunc(t, n) > 0 => t[Trunc(t, n) + 1] \notin Continue
<1>. DEFINE T == {0} \cup {m \in 1 .. n : t[m + 1] \notin Continue}
<1>1. T \in SUBSET (0 .. n) /\ T # {}
  OBVIOUS
<1>. HIDE DEF T
<1>2. \E m \in T : \A k \in T : m >= k
  BY <1>1, Greatest
<1>3. Max(T) \in T
  BY <1>2 DEF Max
<1>4. Len(t) \in Nat
  BY LenProperties
<1>5. n < Len(t) => Trunc(t, n) = Max(T)
  BY <1>4 DEF Trunc, T
<1>6. n >= Len(t) => Trunc(t, n) = Len(t)
  BY DEF Trunc
<1>. QED
  BY <1>1, <1>3, <1>5, <1>6 DEF T

\* What flush(false) streams leaves the window alone and ends with a character.
LEMMA UptoHoldsBack ==
  ASSUME NEW r \in Request, NEW t \in Seq(Byte)
  PROVE  /\ Upto(r, t) \in 0 .. Len(t)
         /\ Upto(r, t) = 0 \/ Upto(r, t) + HoldBack(r) <= Len(t)
         /\ HoldBack(r) > 0 /\ Upto(r, t) > 0 =>
              Upto(r, t) < Len(t) /\ t[Upto(r, t) + 1] \notin Continue
<1>. DEFINE h == HoldBack(r)
            n == IF Len(t) > h THEN Len(t) - h ELSE 0
<1>1. h \in Nat /\ Len(t) \in Nat
  BY HoldBackCovers, LenProperties
<1>. HIDE DEF h
<1>2. n \in Nat
  BY <1>1
<1>3. Upto(r, t) = Trunc(t, n)
  BY DEF Upto, h
<1>4. CASE n >= Len(t)
  <2>1. Upto(r, t) = Len(t) /\ (Len(t) = 0 \/ h = 0)
    BY <1>1, <1>2, <1>3, <1>4, TruncAtCharacter
  <2>. QED
    BY <1>1, <2>1 DEF h
<1>5. CASE n < Len(t)
  <2>1. /\ Upto(r, t) \in 0 .. n
        /\ Upto(r, t) > 0 => t[Upto(r, t) + 1] \notin Continue
    BY <1>2, <1>3, <1>5, TruncAtCharacter
  <2>. QED
    BY <1>1, <1>5, <2>1 DEF h
<1>. QED
  BY <1>1, <1>2, <1>4, <1>5

LEMMA MaxOfTwo ==
  ASSUME NEW a \in Nat, NEW b \in Nat
  PROVE  Max({a, b}) = IF a >= b THEN a ELSE b
BY DEF Max

\* Where a string is found in a text that has grown, but was not found before.
LEMMA FoundLater ==
  ASSUME NEW t \in Seq(Byte), NEW p \in Seq(Byte), NEW s \in Seq(Byte), s # <<>>,
         Found(t, s) = {}, NEW i \in Found(t \o p, s)
  PROVE  /\ i \in 1 .. Len(t \o p) /\ i + Len(s) - 1 > Len(t)
         /\ i + Len(s) - 1 <= Len(t \o p)
<1>1. /\ Len(t) \in Nat /\ Len(p) \in Nat /\ Len(s) \in Nat /\ Len(s) > 0
      /\ t \o p \in Seq(Byte) /\ Len(t \o p) = Len(t) + Len(p)
  <2>1. Len(s) # 0
    BY EmptySeq
  <2>. QED
    BY <2>1, LenProperties, ConcatProperties
<1>2. /\ i \in 1 .. Len(t \o p) /\ i + Len(s) - 1 <= Len(t \o p)
      /\ SubSeq(t \o p, i, i + Len(s) - 1) = s
  BY DEF Found
<1>3. ASSUME i + Len(s) - 1 <= Len(t)
      PROVE  FALSE
  <2>. DEFINE e == i + Len(s) - 1
  <2>1. e \in Nat /\ i \in 1 .. Len(t) /\ e <= Len(t) /\ i <= e + 1 /\ e - i + 1 = Len(s)
    BY <1>1, <1>2, <1>3
  <2>. HIDE DEF e
  <2>2. e \in 1 .. Len(t)
    BY <1>1, <2>1
  <2>3. SubSeq(t \o p, i, e) = SubSeq(t, i, e)
    BY <2>1, <2>2, SubSeqOfConcat1
  <2>4. SubSeq(t, i, e) = s
    BY <1>2, <2>3 DEF e
  <2>5. i \in Found(t, s)
    BY <1>3, <2>1, <2>4 DEF Found, e
  <2>. QED
    BY <2>5
<1>. QED
  BY <1>1, <1>2, <1>3

\* A stop string cuts the text where it begins, which is behind what was streamed.
LEMMA CutBehindStreamed ==
  ASSUME NEW r \in Request, NEW t \in Seq(Byte), NEW p \in Seq(Byte), Stops(r, t) = {},
         Stops(r, t \o p) # {}, NEW em \in 0 .. Len(t), em = 0 \/ em + HoldBack(r) <= Len(t)
  PROVE  \E k \in em .. Len(t \o p) : Cut(r, t \o p) = SubSeq(t \o p, 1, k)
<1>. DEFINE u == t \o p
            N == Stops(r, u)
            n == Min(N)
            F == Found(u, r.stop[n])
            i == Min(F)
<1>0. r.stop \in Seq(Seq(Byte)) /\ DOMAIN r.stop = 1 .. Len(r.stop) /\ Len(t) \in Nat
  <2>1. r.stop \in Seq(Seq(Byte))
    BY DEF Request
  <2>. QED
    BY <2>1, LenProperties
<1>1. n \in N
  <2>1. N \in SUBSET Nat
    BY <1>0 DEF Stops
  <2>. HIDE DEF N
  <2>2. N # {}
    BY DEF N
  <2>3. \E m \in N : \A k \in N : m <= k
    BY <2>1, <2>2, Least
  <2>. QED
    BY <2>3 DEF Min
<1>2. n \in DOMAIN r.stop /\ r.stop[n] # <<>> /\ F # {} /\ r.stop[n] \in Seq(Byte)
  <2>1. n \in DOMAIN r.stop /\ r.stop[n] # <<>> /\ F # {}
    BY <1>1 DEF Stops
  <2>. QED
    BY <1>0, <2>1, ElementOfSeq
<1>3. Found(t, r.stop[n]) = {}
  BY <1>2 DEF Stops
<1>4. /\ Len(r.stop[n]) \in Nat /\ Len(r.stop[n]) > 0 /\ Len(r.stop[n]) - 1 <= HoldBack(r)
      /\ HoldBack(r) \in Nat
  BY <1>2, HoldBackCovers
<1>5. Cut(r, u) = SubSeq(u, 1, i - 1)
  BY DEF Cut
<1>. HIDE DEF n, N
<1>6. i \in F
  <2>1. F \in SUBSET Nat
    BY DEF Found
  <2>. HIDE DEF F
  <2>2. \E m \in F : \A k \in F : m <= k
    BY <1>2, <2>1, Least
  <2>. QED
    BY <2>2 DEF Min
<1>. HIDE DEF i
<1>7. i \in 1 .. Len(u) /\ i + Len(r.stop[n]) - 1 > Len(t)
  BY <1>2, <1>3, <1>6, FoundLater
<1>. HIDE DEF u
<1>8. Len(u) \in Nat
  BY LenProperties, ConcatProperties DEF u
<1>9. i - 1 \in em .. Len(u)
  BY <1>0, <1>4, <1>7, <1>8
<1>. QED
  BY <1>5, <1>9 DEF u

-----------------------------------------------------------------------------
(* The inductive invariant *)

\* Where a thread is while its request generates.
Gen == {"decode", "called", "flush", "finish"}

Places == {"away", "backlog", "reading", "lock", "closing", "caught", "closed"} \cup Gen

\* The text of a completion: no stop string is in it while it grows, what was
\* streamed of it leaves the hold-back window alone and ends before a character, and
\* all of it has been handed on when the request ends.
TextInv(where, r, t, n, e) ==
  /\ where \notin Gen \cup {"closing"} => t = <<>> /\ n = 0 /\ e = 0
  /\ where \in {"finish", "closing"} => e = Len(t)
  /\ where \in {"decode", "called"} =>
       Stops(r, t) = {} /\ (e = 0 \/ e + HoldBack(r) <= Len(t))
  /\ where \in {"decode", "called", "flush"} /\ HoldBack(r) > 0 /\ 0 < e /\ e < Len(t) =>
       t[e + 1] \notin Continue

Ending(r) == IF Streams(r) THEN <<"final", "done">> ELSE <<"head", "body">>

NoDelta(d) == \A i \in 1 .. Len(d) : d[i] # "delta"

\* The response: w was sent to the client, d is still to be written.
Shape(where, r, w, d) ==
  /\ where \in {"away", "backlog", "reading"} => w = <<>> /\ d = <<>>
  /\ where \notin Gen => NoDelta(d)
  /\ where \in {"lock"} \cup Gen => ~r.bad /\ r.path # "other"
  /\ where \in {"lock"} \cup Gen /\ ~r.stream => w = <<>> /\ d = <<>>
  /\ where = "lock" /\ r.stream => w \o d = Begins(r)
  /\ where \in Gen /\ r.stream =>
       w \in {Begins(r), Begins(r) \o <<"delta">>} /\ d \in {<<>>, <<"delta">>}
  /\ where \in {"closing", "caught"} /\ ~Streams(r) => w \o d = Ending(r)
  /\ where = "closing" /\ Streams(r) =>
       \E m \in {<<>>, <<"delta">>} : w \o d = (Begins(r) \o m) \o Ending(r)

\* How much of the text its deltas bring: g bytes, e when none is still to be written.
Told(where, r, d, e, g) ==
  /\ where \notin Gen \cup {"closing", "caught"} => g = 0
  /\ where \in Gen /\ r.stream /\ d = <<>> => g = e
  /\ where = "closing" /\ r.stream => g = e

\* What a client can see of the server.
Seen(where, r, w, d, a, k, e, g) ==
  /\ k # "gone" => a = TRUE /\ Shape(where, r, w, d) /\ Told(where, r, d, e, g)
  /\ k = "gone" => w = <<>>

\* All of it, for one connection.
ConnInv(where, r, w, d, a, t, n, e, k, g) ==
  /\ n <= r.max /\ e <= Len(t)
  /\ TextInv(where, r, t, n, e)
  /\ Seen(where, r, w, d, a, k, e, g)

ConnOK(c) ==
  ConnInv(th[c], req[c], wire[c], todo[c], alive[c], text[c], count[c], emitted[c], client[c],
          got[c])

Types ==
  /\ main \in {"setup", "opened", "bound", "accept", "exited"}
  /\ running \in BOOLEAN /\ listens \in BOOLEAN
  /\ \A c \in Conn : req[c] \in Requests[c]
  /\ th \in [Conn -> Places]
  /\ todo \in [Conn -> Seq(Item)]
  /\ wire \in [Conn -> Seq(Item)]
  /\ alive \in [Conn -> BOOLEAN]
  /\ text \in [Conn -> Seq(Byte)]
  /\ count \in [Conn -> Nat]
  /\ emitted \in [Conn -> Nat]
  /\ got \in [Conn -> Nat]
  /\ unread \in [Conn -> 0 .. Buffer]
  /\ client \in [Conn -> {"reads", "stalls", "gone"}]

\* One thread at most is in run(), and it holds gen_mu_.
LockInv ==
  /\ lock = {c \in Conn : th[c] \in Gen}
  /\ \A c, d \in lock : c = d

IndInv ==
  /\ Types
  /\ LockInv
  /\ \A c \in Conn : ConnOK(c)

LEMMA Facts ==
  ASSUME IndInv, NEW c \in Conn
  PROVE  /\ req[c] \in Request /\ req[c].max \in Nat /\ req[c].stream \in BOOLEAN
         /\ th[c] \in Places
         /\ todo[c] \in Seq(Item) /\ wire[c] \in Seq(Item)
         /\ alive[c] \in BOOLEAN /\ client[c] \in {"reads", "stalls", "gone"}
         /\ text[c] \in Seq(Byte) /\ Len(text[c]) \in Nat
         /\ count[c] \in Nat /\ emitted[c] \in Nat /\ got[c] \in Nat
         /\ unread[c] \in 0 .. Buffer /\ Buffer \in Nat /\ Buffer > 0
         /\ count[c] <= req[c].max /\ emitted[c] <= Len(text[c])
         /\ TextInv(th[c], req[c], text[c], count[c], emitted[c])
         /\ Seen(th[c], req[c], wire[c], todo[c], alive[c], client[c], emitted[c], got[c])
<1>1. Types /\ ConnOK(c)
  BY DEF IndInv
<1>2. req[c] \in Request
  <2>1. req[c] \in Requests[c] /\ Requests[c] \in SUBSET Request
    BY <1>1, ServeAssumption DEF Types
  <2>. QED
    BY <2>1
<1>3. req[c].max \in Nat /\ req[c].stream \in BOOLEAN
  BY <1>2 DEF Request
<1>4. Buffer \in Nat /\ Buffer > 0
  BY ServeAssumption
<1>5. Len(text[c]) \in Nat
  <2>1. text[c] \in Seq(Byte)
    BY <1>1 DEF Types
  <2>. QED
    BY <2>1, LenProperties
<1>6. /\ count[c] <= req[c].max /\ emitted[c] <= Len(text[c])
      /\ TextInv(th[c], req[c], text[c], count[c], emitted[c])
      /\ Seen(th[c], req[c], wire[c], todo[c], alive[c], client[c], emitted[c], got[c])
  BY <1>1 DEF ConnOK, ConnInv
<1>. QED
  BY <1>1, <1>2, <1>3, <1>4, <1>5, <1>6 DEF Types

\* What a step of one connection leaves alone.
Others(c) ==
  \A x \in Conn \ {c} :
    /\ th'[x] = th[x] /\ req'[x] = req[x] /\ wire'[x] = wire[x] /\ todo'[x] = todo[x]
    /\ alive'[x] = alive[x] /\ text'[x] = text[x] /\ count'[x] = count[x]
    /\ emitted'[x] = emitted[x] /\ client'[x] = client[x] /\ got'[x] = got[x]

\* How gen_mu_ goes with the places of its holder.
LockMoves(c) ==
  \/ lock' = lock /\ (th'[c] \in Gen <=> th[c] \in Gen)
  \/ lock = {} /\ lock' = {c} /\ th'[c] \in Gen
  \/ lock' = {} /\ th[c] \in Gen /\ th'[c] \notin Gen

LEMMA Frame ==
  ASSUME IndInv, NEW c \in Conn, Types', Others(c), LockMoves(c), ConnOK(c)'
  PROVE  IndInv'
<1>1. LockInv'
  <2>1. /\ lock = {x \in Conn : th[x] \in Gen}
        /\ \A x, y \in lock : x = y
    BY DEF IndInv, LockInv
  <2>2. \A x \in Conn \ {c} : th'[x] = th[x]
    BY DEF Others
  <2>3. CASE lock' = lock /\ (th'[c] \in Gen <=> th[c] \in Gen)
    BY <2>1, <2>2, <2>3 DEF LockInv
  <2>4. CASE lock = {} /\ lock' = {c} /\ th'[c] \in Gen
    BY <2>1, <2>2, <2>4 DEF LockInv
  <2>5. CASE lock' = {} /\ th[c] \in Gen /\ th'[c] \notin Gen
    <3>1. \A x \in Conn : th[x] \in Gen => x = c
      BY <2>1, <2>5
    <3>. QED
      BY <2>2, <2>5, <3>1 DEF LockInv
  <2>. QED
    BY <2>3, <2>4, <2>5 DEF LockMoves
<1>2. \A x \in Conn : ConnOK(x)'
  <2>1. ASSUME NEW x \in Conn \ {c}
        PROVE  ConnOK(x)'
    <3>1. ConnOK(x)
      BY DEF IndInv
    <3>. QED
      BY <3>1 DEF ConnOK, Others
  <2>. QED
    BY <2>1
<1>. QED
  BY <1>1, <1>2 DEF IndInv

-----------------------------------------------------------------------------
(* Steps that leave the text alone *)

LEMMA OnConnect ==
  ASSUME IndInv, NEW c \in Conn, Connect(c)
  PROVE  IndInv'
<1>1. Types
  BY DEF IndInv
<1>2. /\ th[c] = "away" /\ th' = [th EXCEPT ![c] = "backlog"]
      /\ UNCHANGED <<server, req, todo, sock, gen>>
  BY DEF Connect
<1>3. Types' /\ Others(c) /\ LockMoves(c)
  BY <1>1, <1>2 DEF Types, Others, LockMoves, server, sock, gen, Places, Gen
<1>4. th'[c] = "backlog"
  BY <1>1, <1>2 DEF Types
<1>5. ConnOK(c)'
  BY <1>2, <1>4, Facts
     DEF ConnOK, ConnInv, TextInv, Seen, Told, Shape, Gen, server, sock, gen
<1>. QED
  BY <1>3, <1>5, Frame

LEMMA OnAccept ==
  ASSUME IndInv, NEW c \in Conn, Accept(c)
  PROVE  IndInv'
<1>1. Types
  BY DEF IndInv
<1>2. /\ th[c] = "backlog" /\ th' = [th EXCEPT ![c] = "reading"]
      /\ UNCHANGED <<server, req, todo, sock, gen>>
  BY DEF Accept
<1>3. Types' /\ Others(c) /\ LockMoves(c)
  BY <1>1, <1>2 DEF Types, Others, LockMoves, server, sock, gen, Places, Gen
<1>4. th'[c] = "reading"
  BY <1>1, <1>2 DEF Types
<1>5. ConnOK(c)'
  BY <1>2, <1>4, Facts
     DEF ConnOK, ConnInv, TextInv, Seen, Told, Shape, Gen, server, sock, gen
<1>. QED
  BY <1>3, <1>5, Frame

LEMMA OnReads ==
  ASSUME IndInv, NEW c \in Conn, Reads(c)
  PROVE  IndInv'
<1>1. Types
  BY DEF IndInv
<1>2. /\ unread[c] > 0 /\ unread' = [unread EXCEPT ![c] = @ - 1]
      /\ UNCHANGED <<server, th, req, todo, wire, alive, client, got, gen>>
  BY DEF Reads
<1>3. unread[c] - 1 \in 0 .. Buffer
  BY <1>2, Facts
<1>4. Types' /\ Others(c) /\ LockMoves(c)
  BY <1>1, <1>2, <1>3 DEF Types, Others, LockMoves, server, gen
<1>5. ConnOK(c)'
  BY <1>2 DEF IndInv, ConnOK, server, gen
<1>. QED
  BY <1>4, <1>5, Frame

LEMMA OnFalters ==
  ASSUME IndInv, NEW c \in Conn, Falters(c)
  PROVE  IndInv'
<1>1. Types
  BY DEF IndInv
<1>2. /\ UNCHANGED <<server, th, req, todo, alive, gen>>
      /\ \/ client[c] = "reads" /\ client' = [client EXCEPT ![c] = "stalls"]
         \/ client[c] # "gone" /\ client' = [client EXCEPT ![c] = "gone"]
      /\ unread' = [unread EXCEPT ![c] = IF client'[c] = "gone" THEN 0 ELSE @]
      /\ wire' = [wire EXCEPT ![c] = IF client'[c] = "gone" THEN <<>> ELSE @]
      /\ got' = [got EXCEPT ![c] = IF client'[c] = "gone" THEN 0 ELSE @]
  BY DEF Falters
<1>3. \E u \in 0 .. Buffer, w \in Seq(Item), k \in {"reads", "stalls", "gone"}, g \in Nat :
        /\ unread' = [unread EXCEPT ![c] = u]
        /\ wire' = [wire EXCEPT ![c] = w]
        /\ client' = [client EXCEPT ![c] = k]
        /\ got' = [got EXCEPT ![c] = g]
        /\ k = "gone" => w = <<>>
        /\ k # "gone" => w = wire[c] /\ g = got[c] /\ client[c] # "gone"
  <2>1. 0 \in 0 .. Buffer /\ <<>> \in Seq(Item)
    BY Facts, EmptySeq
  <2>2. unread[c] \in 0 .. Buffer /\ wire[c] \in Seq(Item) /\ got[c] \in Nat
    BY Facts
  <2>3. CASE client[c] = "reads" /\ client' = [client EXCEPT ![c] = "stalls"]
    <3>1. client'[c] = "stalls"
      BY <1>1, <2>3 DEF Types
    <3>2. /\ unread' = [unread EXCEPT ![c] = unread[c]] /\ wire' = [wire EXCEPT ![c] = wire[c]]
          /\ got' = [got EXCEPT ![c] = got[c]]
      BY <1>2, <3>1
    <3>. QED
      BY <2>2, <2>3, <3>2
  <2>4. CASE client[c] # "gone" /\ client' = [client EXCEPT ![c] = "gone"]
    <3>1. client'[c] = "gone"
      BY <1>1, <2>4 DEF Types
    <3>2. /\ unread' = [unread EXCEPT ![c] = 0] /\ wire' = [wire EXCEPT ![c] = <<>>]
          /\ got' = [got EXCEPT ![c] = 0]
      BY <1>2, <3>1
    <3>. QED
      BY <2>1, <2>4, <3>2
  <2>. QED
    BY <1>2, <2>3, <2>4
<1>4. Types' /\ Others(c) /\ LockMoves(c)
  BY <1>1, <1>2, <1>3 DEF Types, Others, LockMoves, server, gen
<1>5. /\ client'[c] = "gone" => wire'[c] = <<>>
      /\ client'[c] # "gone" => wire'[c] = wire[c] /\ got'[c] = got[c] /\ client[c] # "gone"
  BY <1>1, <1>3 DEF Types
<1>6. ConnOK(c)'
  BY <1>2, <1>5, Facts DEF ConnOK, ConnInv, Seen, server, gen
<1>. QED
  BY <1>4, <1>6, Frame

LEMMA OnReadFails ==
  ASSUME IndInv, NEW c \in Conn, ReadFails(c)
  PROVE  IndInv'
<1>1. Types
  BY DEF IndInv
<1>2. /\ th[c] = "reading" /\ th' = [th EXCEPT ![c] = "closed"]
      /\ UNCHANGED <<server, req, todo, sock, gen>>
  BY DEF ReadFails, Goes
<1>3. Types' /\ Others(c) /\ LockMoves(c)
  BY <1>1, <1>2 DEF Types, Others, LockMoves, server, sock, gen, Places, Gen
<1>4. th'[c] = "closed"
  BY <1>1, <1>2 DEF Types
<1>5. ConnOK(c)'
  BY <1>2, <1>4, Facts
     DEF ConnOK, ConnInv, TextInv, Seen, Told, Shape, Gen, server, sock, gen
<1>. QED
  BY <1>3, <1>5, Frame

LEMMA OnCalled ==
  ASSUME IndInv, NEW c \in Conn, Called(c)
  PROVE  IndInv'
<1>1. Types
  BY DEF IndInv
<1>2. PICK where \in {"decode", "flush"} :
        /\ th[c] = "called" /\ th' = [th EXCEPT ![c] = where]
        /\ UNCHANGED <<server, req, todo, sock, gen>>
  BY DEF Called, Goes
<1>3. Types' /\ Others(c) /\ LockMoves(c)
  BY <1>1, <1>2 DEF Types, Others, LockMoves, server, sock, gen, Places, Gen
<1>4. th'[c] = where
  BY <1>1, <1>2 DEF Types
<1>5. ConnOK(c)'
  BY <1>2, <1>4, Facts
     DEF ConnOK, ConnInv, TextInv, Seen, Told, Shape, Gen, server, sock, gen
<1>. QED
  BY <1>3, <1>5, Frame

LEMMA OnEndDecode ==
  ASSUME IndInv, NEW c \in Conn, EndDecode(c)
  PROVE  IndInv'
<1>1. Types
  BY DEF IndInv
<1>2. /\ th[c] = "decode" /\ th' = [th EXCEPT ![c] = "flush"]
      /\ UNCHANGED <<server, req, todo, sock, gen>>
  BY DEF EndDecode, Goes
<1>3. Types' /\ Others(c) /\ LockMoves(c)
  BY <1>1, <1>2 DEF Types, Others, LockMoves, server, sock, gen, Places, Gen
<1>4. th'[c] = "flush"
  BY <1>1, <1>2 DEF Types
<1>5. ConnOK(c)'
  BY <1>2, <1>4, Facts
     DEF ConnOK, ConnInv, TextInv, Seen, Told, Shape, Gen, server, sock, gen
<1>. QED
  BY <1>3, <1>5, Frame

LEMMA OnLock ==
  ASSUME IndInv, NEW c \in Conn, Lock(c)
  PROVE  IndInv'
<1>1. Types
  BY DEF IndInv
<1>2. /\ th[c] = "lock" /\ todo[c] = <<>> /\ lock = {} /\ lock' = {c}
      /\ th' = [th EXCEPT ![c] = "decode"]
      /\ UNCHANGED <<server, req, todo, sock, text, count, emitted>>
  BY DEF Lock, Goes, Working
<1>3. Types' /\ Others(c) /\ LockMoves(c)
  BY <1>1, <1>2 DEF Types, Others, LockMoves, server, sock, Places, Gen
<1>4. th'[c] = "decode"
  BY <1>1, <1>2 DEF Types
<1>5. text[c] = <<>> /\ count[c] = 0 /\ emitted[c] = 0
  BY <1>2, Facts DEF TextInv, Gen
<1>6. Stops(req[c], <<>>) = {}
  <2>1. \A s : Found(<<>>, s) = {}
    BY DEF Found
  <2>. QED
    BY <2>1 DEF Stops
<1>7. TextInv("decode", req[c], text[c], count[c], emitted[c])
  BY <1>5, <1>6 DEF TextInv, Gen
<1>8. ASSUME Shape("lock", req[c], wire[c], todo[c])
      PROVE  Shape("decode", req[c], wire[c], todo[c])
  <2>1. wire[c] \o todo[c] = wire[c]
    BY <1>2, Facts, ConcatEmptySeq
  <2>. QED
    BY <1>2, <1>8, <2>1, Facts DEF Shape, Gen
<1>9. Seen("decode", req[c], wire[c], todo[c], alive[c], client[c], emitted[c], got[c])
  <2>1. client[c] # "gone" => Told("decode", req[c], todo[c], emitted[c], got[c])
    BY <1>2, <1>5, Facts DEF Seen, Told, Gen
  <2>. QED
    BY <1>2, <1>8, <2>1, Facts DEF Seen
<1>10. ConnOK(c)'
  BY <1>2, <1>4, <1>7, <1>9, Facts DEF ConnOK, ConnInv, sock
<1>. QED
  BY <1>3, <1>10, Frame

LEMMA OnClose ==
  ASSUME IndInv, NEW c \in Conn, Close(c)
  PROVE  IndInv'
<1>1. Types
  BY DEF IndInv
<1>2. /\ th[c] \in {"closing", "caught"} /\ todo[c] = <<>>
      /\ th' = [th EXCEPT ![c] = "closed"]
      /\ text' = [text EXCEPT ![c] = <<>>]
      /\ count' = [count EXCEPT ![c] = 0]
      /\ emitted' = [emitted EXCEPT ![c] = 0]
      /\ wire' = [wire EXCEPT ![c] = <<>>]
      /\ unread' = [unread EXCEPT ![c] = 0]
      /\ got' = [got EXCEPT ![c] = 0]
      /\ UNCHANGED <<server, req, todo, alive, client, lock>>
  BY DEF Close, Goes, Forgets, Working
<1>3. Types' /\ Others(c) /\ LockMoves(c)
  <2>1. 0 \in 0 .. Buffer /\ <<>> \in Seq(Item) /\ <<>> \in Seq(Byte) /\ 0 \in Nat
    BY Facts, EmptySeq
  <2>. QED
    BY <1>1, <1>2, <2>1 DEF Types, Others, LockMoves, server, Places, Gen
<1>4. /\ th'[c] = "closed" /\ wire'[c] = <<>> /\ text'[c] = <<>>
      /\ count'[c] = 0 /\ emitted'[c] = 0 /\ got'[c] = 0
  BY <1>1, <1>2 DEF Types
<1>5. client[c] # "gone" => alive[c] = TRUE
  BY Facts DEF Seen
<1>6. Shape("closed", req[c], <<>>, <<>>) /\ Told("closed", req[c], <<>>, 0, 0)
  BY EmptySeq DEF Shape, Told, NoDelta, Gen
<1>7. TextInv("closed", req[c], <<>>, 0, 0) /\ 0 <= req[c].max /\ 0 <= Len(<<>>)
  BY Facts, EmptySeq DEF TextInv, Gen
<1>8. ConnOK(c)'
  BY <1>2, <1>4, <1>5, <1>6, <1>7 DEF ConnOK, ConnInv, Seen
<1>. QED
  BY <1>3, <1>8, Frame

-----------------------------------------------------------------------------
(* The parts of a response *)

LEMMA PairParts ==
  ASSUME NEW a \in Item \ {"delta"}, NEW b \in Item \ {"delta"}
  PROVE  <<a, b>> \in Seq(Item) /\ Len(<<a, b>>) = 2 /\ <<a, b>> # <<>> /\ NoDelta(<<a, b>>)
<1>1. \A i \in 1 .. 2 : <<a, b>>[i] # "delta"
  OBVIOUS
<1>. QED
  BY <1>1 DEF NoDelta

LEMMA OneFrame ==
  /\ "sse" \in Item \ {"delta"} /\ "role" \in Item \ {"delta"}
  /\ <<"sse">> \in Seq(Item) /\ Len(<<"sse">>) = 1 /\ <<"sse">> # <<>> /\ NoDelta(<<"sse">>)
<1>1. "sse" \in Item \ {"delta"} /\ "role" \in Item \ {"delta"}
  BY DEF Item
<1>2. \A i \in 1 .. 1 : <<"sse">>[i] # "delta"
  OBVIOUS
<1>3. Len(<<"sse">>) = 1
  OBVIOUS
<1>. QED
  BY <1>1, <1>2, <1>3 DEF NoDelta

LEMMA BeginsParts ==
  ASSUME NEW r
  PROVE  /\ Begins(r) \in Seq(Item) /\ Begins(r) # <<>>
         /\ Len(Begins(r)) \in {1, 2}
         /\ NoDelta(Begins(r))
<1>1. Begins(r) \in {<<"sse", "role">>, <<"sse">>}
  BY DEF Begins
<1>. QED
  BY <1>1, PairParts, OneFrame

LEMMA EndingParts ==
  ASSUME NEW e \in {<<"final", "done">>, <<"head", "body">>}
  PROVE  e \in Seq(Item) /\ Len(e) = 2 /\ NoDelta(e)
<1>1. {"final", "done", "head", "body"} \subseteq Item \ {"delta"}
  BY DEF Item
<1>. QED
  BY <1>1, PairParts

LEMMA OneDelta ==
  /\ <<"delta">> \in Seq(Item) /\ Len(<<"delta">>) = 1 /\ <<"delta">>[1] = "delta"
  /\ Head(<<"delta">>) = "delta" /\ Tail(<<"delta">>) = <<>> /\ <<"delta">> # <<>>
BY DEF Item

\* Writing the next item keeps the response in shape.
LEMMA SentKeepsShape ==
  ASSUME NEW where \in Places, NEW r \in Request, NEW w \in Seq(Item), NEW d \in Seq(Item),
         d # <<>>, Shape(where, r, w, d)
  PROVE  /\ Sent(w, Head(d)) \in Seq(Item) /\ Tail(d) \in Seq(Item)
         /\ Shape(where, r, Sent(w, Head(d)), Tail(d))
<1>. DEFINE u == Sent(w, Head(d))
            v == Tail(d)
<1>1. /\ Head(d) \in Item /\ v \in Seq(Item) /\ Len(v) = Len(d) - 1 /\ Len(d) \in Nat \ {0}
      /\ Append(w, Head(d)) \in Seq(Item)
      /\ \A i \in 1 .. Len(v) : v[i] = d[i + 1]
      /\ Append(w, Head(d)) \o v = w \o d
  BY HeadTailProperties, HeadOver, EmptySeq, AppendProperties
<1>2. u \in Seq(Item)
  BY <1>1 DEF Sent
<1>3. CASE where \notin Gen
  <2>1. NoDelta(d)
    BY <1>3 DEF Shape
  <2>2. Head(d) # "delta"
    <3>1. Head(d) = d[1] /\ 1 \in 1 .. Len(d)
      BY <1>1
    <3>. QED
      BY <2>1, <3>1 DEF NoDelta
  <2>3. u = Append(w, Head(d))
    BY <2>2 DEF Sent
  <2>4. u \o v = w \o d
    BY <1>1, <2>3
  <2>5. NoDelta(v)
    <3>1. \A i \in 1 .. Len(v) : i + 1 \in 1 .. Len(d)
      BY <1>1
    <3>. QED
      BY <1>1, <2>1, <3>1 DEF NoDelta
  <2>. HIDE DEF u, v
  <2>6. Shape(where, r, u, v)
    BY <1>3, <2>4, <2>5 DEF Shape, Gen
  <2>. QED
    BY <1>1, <1>2, <2>6 DEF u, v
<1>4. CASE where \in Gen
  <2>1. /\ r.stream = TRUE /\ d = <<"delta">>
        /\ w \in {Begins(r), Begins(r) \o <<"delta">>}
    BY <1>4 DEF Shape, Request
  <2>2. Head(d) = "delta" /\ v = <<>>
    BY <2>1, OneDelta
  <2>. DEFINE b == Begins(r)
  <2>3. b \in Seq(Item) /\ b # <<>> /\ Len(b) \in {1, 2} /\ b[Len(b)] # "delta"
    BY BeginsParts DEF NoDelta
  <2>4. CASE w = b
    <3>1. u = Append(b, "delta")
      BY <2>2, <2>3, <2>4 DEF Sent, Last
    <3>2. u = b \o <<"delta">>
      BY <2>3, <3>1, AppendIsConcat DEF Item
    <3>. QED
      BY <1>1, <1>2, <1>4, <2>1, <2>2, <3>2 DEF Shape, Gen
  <2>5. CASE w = b \o <<"delta">>
    <3>1. Len(w) = Len(b) + 1 /\ w[Len(b) + 1] = "delta"
      <4>1. Len(w) = Len(b) + 1
        BY <2>3, <2>5, OneDelta, ConcatProperties
      <4>2. Len(b) + 1 \in 1 .. Len(b) + 1 /\ ~(Len(b) + 1 <= Len(b)) /\ Len(b) + 1 - Len(b) = 1
        BY <2>3
      <4>3. w[Len(b) + 1] = <<"delta">>[1]
        <5>1. \A i \in 1 .. Len(b) + Len(<<"delta">>) :
                w[i] = IF i <= Len(b) THEN b[i] ELSE <<"delta">>[i - Len(b)]
          BY <2>3, <2>5, OneDelta, ConcatProperties
        <5>. QED
          BY <4>2, <5>1, OneDelta
      <4>. QED
        BY <4>1, <4>3, OneDelta
    <3>2. w # <<>>
      BY <2>3, <3>1, EmptySeq
    <3>3. u = w
      BY <2>2, <3>1, <3>2 DEF Sent, Last
    <3>. QED
      BY <1>1, <1>2, <1>4, <2>1, <2>2, <3>3 DEF Shape, Gen
  <2>. QED
    BY <2>1, <2>4, <2>5
<1>. QED
  BY <1>3, <1>4

LEMMA OnWrite ==
  ASSUME IndInv, NEW c \in Conn, Write(c)
  PROVE  IndInv'
<1>1. Types
  BY DEF IndInv
<1>. DEFINE gone == client[c] = "gone"
            v == Tail(todo[c])
            w == IF gone THEN wire[c] ELSE Sent(wire[c], Head(todo[c]))
            u == IF gone THEN unread[c] ELSE unread[c] + 1
            g == IF ~gone /\ Head(todo[c]) = "delta" THEN emitted[c] ELSE got[c]
<1>2. /\ todo[c] # <<>>
      /\ todo' = [todo EXCEPT ![c] = v]
      /\ wire' = [wire EXCEPT ![c] = w]
      /\ unread' = [unread EXCEPT ![c] = u]
      /\ got' = [got EXCEPT ![c] = g]
      /\ UNCHANGED <<server, th, req, alive, client, gen>>
  <2>1. /\ todo[c] # <<>>
        /\ todo' = [todo EXCEPT ![c] = v]
        /\ UNCHANGED <<server, th, req, alive, client, gen>>
        /\ gone \/ unread[c] < Buffer
        /\ IF gone THEN UNCHANGED <<wire, unread, got>>
           ELSE /\ wire' = [wire EXCEPT ![c] = Sent(wire[c], Head(todo[c]))]
                /\ unread' = [unread EXCEPT ![c] = unread[c] + 1]
                /\ got' = [got EXCEPT ![c] = IF Head(todo[c]) = "delta" THEN emitted[c] ELSE got[c]]
    BY DEF Write
  <2>2. /\ wire = [wire EXCEPT ![c] = wire[c]] /\ unread = [unread EXCEPT ![c] = unread[c]]
        /\ got = [got EXCEPT ![c] = got[c]]
    BY <1>1 DEF Types
  <2>. QED
    BY <2>1, <2>2
<1>3. u \in 0 .. Buffer
  <2>1. gone \/ unread[c] < Buffer
    BY DEF Write
  <2>. QED
    BY <2>1, Facts
<1>4. v \in Seq(Item)
  BY <1>2, Facts, HeadTailProperties
<1>5. /\ ~gone => Shape(th[c], req[c], wire[c], todo[c]) /\ alive[c] = TRUE
      /\ gone => wire[c] = <<>>
  BY Facts DEF Seen
<1>6. ~gone => Shape(th[c], req[c], w, v) /\ w \in Seq(Item)
  BY <1>2, <1>5, Facts, SentKeepsShape
<1>7. w \in Seq(Item) /\ (gone => w = <<>>) /\ g \in Nat
  BY <1>5, <1>6, Facts
<1>8. ~gone => Told(th[c], req[c], v, emitted[c], g)
  <2>1. SUFFICES ASSUME ~gone PROVE Told(th[c], req[c], v, emitted[c], g)
    OBVIOUS
  <2>2. Told(th[c], req[c], todo[c], emitted[c], got[c])
    BY <2>1, Facts DEF Seen
  <2>3. CASE th[c] \in Gen
    <3>1. req[c].stream => todo[c] = <<"delta">>
      BY <1>2, <1>5, <2>1, <2>3 DEF Shape
    <3>2. req[c].stream => g = emitted[c]
      BY <2>1, <3>1, OneDelta
    <3>. QED
      BY <2>3, <3>2 DEF Told, Gen
  <2>4. CASE th[c] \notin Gen
    <3>1. NoDelta(todo[c])
      BY <1>5, <2>1, <2>4 DEF Shape
    <3>2. Head(todo[c]) # "delta"
      <4>1. Head(todo[c]) = todo[c][1] /\ 1 \in 1 .. Len(todo[c])
        BY <1>2, Facts, HeadTailProperties, LenProperties, EmptySeq
      <4>. QED
        BY <3>1, <4>1 DEF NoDelta
    <3>3. g = got[c]
      BY <3>2
    <3>. QED
      BY <2>2, <2>4, <3>3 DEF Told
  <2>. QED
    BY <2>3, <2>4
<1>. HIDE DEF w, v, u, g
<1>9. Types' /\ Others(c) /\ LockMoves(c)
  BY <1>1, <1>2, <1>3, <1>4, <1>7 DEF Types, Others, LockMoves, server, gen
<1>10. todo'[c] = v /\ wire'[c] = w /\ got'[c] = g
  BY <1>1, <1>2 DEF Types
<1>11. ConnOK(c)'
  BY <1>2, <1>5, <1>6, <1>7, <1>8, <1>10, Facts DEF ConnOK, ConnInv, Seen, server, gen
<1>. QED
  BY <1>9, <1>11, Frame

LEMMA OnWriteFails ==
  ASSUME IndInv, NEW c \in Conn, WriteFails(c)
  PROVE  IndInv'
<1>1. Types
  BY DEF IndInv
<1>. DEFINE v == IF Head(todo[c]) = "head" THEN <<>> ELSE Tail(todo[c])
<1>2. /\ todo[c] # <<>> /\ client[c] = "gone"
      /\ alive' = [alive EXCEPT ![c] = FALSE]
      /\ todo' = [todo EXCEPT ![c] = v]
      /\ UNCHANGED <<server, th, req, wire, unread, client, got, gen>>
  BY DEF WriteFails
<1>3. v \in Seq(Item)
  BY <1>2, Facts, HeadTailProperties, EmptySeq
<1>. HIDE DEF v
<1>4. Types' /\ Others(c) /\ LockMoves(c)
  BY <1>1, <1>2, <1>3 DEF Types, Others, LockMoves, server, gen
<1>5. ConnOK(c)'
  BY <1>2, Facts DEF ConnOK, ConnInv, Seen, server, gen
<1>. QED
  BY <1>4, <1>5, Frame

LEMMA OnHandle ==
  ASSUME IndInv, NEW c \in Conn, Handle(c)
  PROVE  IndInv'
<1>1. Types
  BY DEF IndInv
<1>. DEFINE r == req[c]
            refused == r.bad \/ r.path = "other"
            where == IF ~refused THEN "lock" ELSE IF r.path = "other" THEN "closing" ELSE "caught"
            v == IF refused THEN <<"head", "body">> ELSE IF ~r.stream THEN <<>> ELSE Begins(r)
<1>2. /\ th[c] = "reading"
      /\ th' = [th EXCEPT ![c] = where]
      /\ todo' = [todo EXCEPT ![c] = v]
      /\ UNCHANGED <<server, req, sock, gen>>
  BY DEF Handle, Goes, Begins
<1>3. /\ v \in Seq(Item) /\ NoDelta(v)
      /\ <<>> \o v = v
  <2>1. <<"head", "body">> \in Seq(Item) /\ NoDelta(<<"head", "body">>)
    BY EndingParts
  <2>2. <<>> \in Seq(Item) /\ NoDelta(<<>>)
    BY EmptySeq DEF NoDelta
  <2>3. v \in Seq(Item) /\ NoDelta(v)
    BY <2>1, <2>2, BeginsParts
  <2>. HIDE DEF v
  <2>. QED
    BY <2>3, ConcatEmptySeq
<1>4. Shape("reading", r, wire[c], todo[c]) => Shape(where, r, wire[c], v)
  <2>1. SUFFICES ASSUME wire[c] = <<>> PROVE Shape(where, r, wire[c], v)
    BY DEF Shape
  <2>2. CASE refused
    <3>1. where \in {"closing", "caught"} /\ v = <<"head", "body">>
      BY <2>2
    <3>. QED
      BY <1>3, <2>1, <2>2, <3>1 DEF Shape, Streams, Ending, Gen
  <2>3. CASE ~refused /\ ~r.stream
    <3>1. where = "lock" /\ v = <<>>
      BY <2>3
    <3>. QED
      BY <1>3, <2>1, <2>3, <3>1 DEF Shape, Gen
  <2>4. CASE ~refused /\ r.stream
    <3>1. where = "lock" /\ v = Begins(r)
      BY <2>4
    <3>. QED
      BY <1>3, <2>1, <2>4, <3>1 DEF Shape, Gen
  <2>. QED
    BY <2>2, <2>3, <2>4
<1>5. where \in {"closing", "caught", "lock"}
  OBVIOUS
<1>. HIDE DEF where, v
<1>6. Types' /\ Others(c) /\ LockMoves(c)
  BY <1>1, <1>2, <1>3, <1>5 DEF Types, Others, LockMoves, server, sock, gen, Places, Gen
<1>7. th'[c] = where /\ todo'[c] = v
  BY <1>1, <1>2 DEF Types
<1>8. text[c] = <<>> /\ count[c] = 0 /\ emitted[c] = 0 /\ Len(<<>>) = 0
  BY <1>2, Facts, EmptySeq DEF TextInv, Gen
<1>9. TextInv(where, r, text[c], count[c], emitted[c])
  BY <1>5, <1>8 DEF TextInv, Gen
<1>10. Told("reading", r, todo[c], emitted[c], got[c]) => Told(where, r, v, emitted[c], got[c])
  BY <1>5, <1>8 DEF Told, Gen
<1>11. ConnOK(c)'
  BY <1>2, <1>4, <1>7, <1>9, <1>10, Facts DEF ConnOK, ConnInv, Seen, server, sock, gen
<1>. QED
  BY <1>6, <1>11, Frame

\* The end of a response completes it.
LEMMA EndingKeepsShape ==
  ASSUME NEW r \in Request, NEW w \in Seq(Item), NEW d, Shape("finish", r, w, d)
  PROVE  Ending(r) \in Seq(Item) /\ Shape("closing", r, w, Ending(r))
<1>. DEFINE e == Ending(r)
<1>1. e \in {<<"final", "done">>, <<"head", "body">>}
  BY DEF Ending
<1>. HIDE DEF e
<1>2. e \in Seq(Item) /\ NoDelta(e) /\ <<>> \o e = e
  BY <1>1, EndingParts, ConcatEmptySeq
<1>3. ~r.bad /\ r.path # "other" /\ (Streams(r) <=> r.stream)
  BY DEF Shape, Streams, Gen
<1>4. CASE ~r.stream
  BY <1>2, <1>3, <1>4 DEF Shape, Gen, e
<1>5. CASE r.stream
  <2>. DEFINE b == Begins(r)
  <2>1. b \in Seq(Item) /\ b \o <<>> = b
    BY BeginsParts, ConcatEmptySeq
  <2>2. w = b \/ w = b \o <<"delta">>
    BY <1>5 DEF Shape, Gen
  <2>3. \E m \in {<<>>, <<"delta">>} : w \o e = (b \o m) \o e
    BY <2>1, <2>2
  <2>. QED
    BY <1>2, <1>3, <1>5, <2>3 DEF Shape, Gen, e
<1>. QED
  BY <1>2, <1>4, <1>5 DEF e

\* run() throws: its completion is forgotten, its lock released.
LEMMA OnThrow ==
  ASSUME IndInv, NEW c \in Conn, Throw(c)
  PROVE  IndInv'
<1>. DEFINE e == <<"head", "body">>
<1>1. Types
  BY DEF IndInv
<1>2. /\ th[c] = "decode" /\ lock' = {}
      /\ todo' = [todo EXCEPT ![c] = e]
      /\ th' = [th EXCEPT ![c] = "caught"]
      /\ text' = [text EXCEPT ![c] = <<>>]
      /\ count' = [count EXCEPT ![c] = 0]
      /\ emitted' = [emitted EXCEPT ![c] = 0]
      /\ UNCHANGED <<server, req, sock>>
  BY DEF Throw, Goes, Forgets
<1>3. e \in Seq(Item) /\ NoDelta(e) /\ <<>> \o e = e
  BY EndingParts, ConcatEmptySeq
<1>. HIDE DEF e
<1>4. Types' /\ Others(c) /\ LockMoves(c)
  <2>1. <<>> \in Seq(Byte) /\ 0 \in Nat
    BY EmptySeq
  <2>. QED
    BY <1>1, <1>2, <1>3, <2>1 DEF Types, Others, LockMoves, server, sock, Places, Gen
<1>5. /\ th'[c] = "caught" /\ todo'[c] = e
      /\ text'[c] = <<>> /\ count'[c] = 0 /\ emitted'[c] = 0
  BY <1>1, <1>2 DEF Types
<1>6. Seen("caught", req[c], wire[c], e, alive[c], client[c], 0, got[c])
  <2>1. Shape("decode", req[c], wire[c], todo[c]) => Shape("caught", req[c], wire[c], e)
    BY <1>3 DEF Shape, Streams, Ending, Gen, e
  <2>2. Told("caught", req[c], e, 0, got[c])
    BY DEF Told, Gen
  <2>. QED
    BY <1>2, <2>1, <2>2, Facts DEF Seen
<1>7. TextInv("caught", req[c], <<>>, 0, 0) /\ 0 <= req[c].max /\ 0 <= Len(<<>>)
  BY Facts, EmptySeq DEF TextInv, Gen
<1>8. ConnOK(c)'
  BY <1>2, <1>5, <1>6, <1>7 DEF ConnOK, ConnInv, sock
<1>. QED
  BY <1>4, <1>8, Frame

\* run() returns: the lock is released, and the end of the response is to be written.
LEMMA OnAnswer ==
  ASSUME IndInv, NEW c \in Conn, Answer(c)
  PROVE  IndInv'
<1>. DEFINE e == IF req[c].stream THEN <<"final", "done">> ELSE <<"head", "body">>
<1>1. Types
  BY DEF IndInv
<1>2. /\ th[c] = "finish" /\ todo[c] = <<>> /\ lock' = {}
      /\ todo' = [todo EXCEPT ![c] = e]
      /\ th' = [th EXCEPT ![c] = "closing"]
      /\ UNCHANGED <<server, req, sock, text, count, emitted>>
  BY DEF Answer, Goes, Working
<1>3. e \in Seq(Item)
  BY EndingParts
<1>4. ASSUME Shape("finish", req[c], wire[c], <<>>)
      PROVE  Shape("closing", req[c], wire[c], e)
  <2>1. e = Ending(req[c])
    BY <1>4 DEF Shape, Streams, Ending, Gen
  <2>. HIDE DEF e
  <2>. QED
    BY <1>4, <2>1, Facts, EndingKeepsShape
<1>. HIDE DEF e
<1>5. Types' /\ Others(c) /\ LockMoves(c)
  BY <1>1, <1>2, <1>3 DEF Types, Others, LockMoves, server, sock, Places, Gen
<1>6. th'[c] = "closing" /\ todo'[c] = e
  BY <1>1, <1>2 DEF Types
<1>7. Told("finish", req[c], <<>>, emitted[c], got[c]) =>
        Told("closing", req[c], e, emitted[c], got[c])
  BY DEF Told, Gen
<1>8. Seen("closing", req[c], wire[c], e, alive[c], client[c], emitted[c], got[c])
  BY <1>2, <1>4, <1>7, Facts DEF Seen
<1>9. TextInv("closing", req[c], text[c], count[c], emitted[c])
  BY <1>2, Facts DEF TextInv, Gen
<1>10. ConnOK(c)'
  BY <1>2, <1>6, <1>8, <1>9, Facts DEF ConnOK, ConnInv, sock
<1>. QED
  BY <1>5, <1>10, Frame

\* A flush writes one delta or none, behind what a stream began with.
LEMMA FlushKeepsShape ==
  ASSUME IndInv, NEW c \in Conn, th[c] \in {"decode", "flush"}, todo[c] = <<>>,
         NEW where \in Gen, NEW n \in Nat, Flush(c, n)
  PROVE  /\ \E d \in {<<>>, <<"delta">>} :
              /\ todo' = [todo EXCEPT ![c] = d]
              /\ Seen(where, req[c], wire[c], d, alive[c], client[c],
                      IF emitted[c] >= n THEN emitted[c] ELSE n, got[c])
         /\ emitted' = [emitted EXCEPT ![c] = IF emitted[c] >= n THEN emitted[c] ELSE n]
<1>. DEFINE f == IF emitted[c] >= n THEN emitted[c] ELSE n
<1>1. emitted' = [emitted EXCEPT ![c] = IF emitted[c] >= n THEN emitted[c] ELSE n]
  <2>1. Max({emitted[c], n}) = IF emitted[c] >= n THEN emitted[c] ELSE n
    BY Facts, MaxOfTwo
  <2>. QED
    BY <2>1 DEF Flush
<1>2. PICK d \in {<<>>, <<"delta">>} :
        /\ todo' = [todo EXCEPT ![c] = d]
        /\ d # <<>> => req[c].stream
        /\ d = <<>> /\ req[c].stream /\ alive[c] = TRUE => ~(n > emitted[c])
  BY OneDelta DEF Flush, Deltas
<1>3. Shape(th[c], req[c], wire[c], todo[c]) => Shape(where, req[c], wire[c], d)
  BY <1>2 DEF Shape, Gen
<1>4. ASSUME alive[c] = TRUE, Told(th[c], req[c], todo[c], emitted[c], got[c])
      PROVE  Told(where, req[c], d, f, got[c])
  <2>1. d = <<>> /\ req[c].stream => f = emitted[c]
    <3>1. ~(n > emitted[c]) => emitted[c] >= n
      BY Facts
    <3>. QED
      BY <1>2, <1>4, <3>1
  <2>2. req[c].stream => got[c] = emitted[c]
    BY <1>4 DEF Told, Gen
  <2>. HIDE DEF f
  <2>. QED
    BY <2>1, <2>2 DEF Told, Gen
<1>. HIDE DEF f
<1>5. Seen(where, req[c], wire[c], d, alive[c], client[c], f, got[c])
  BY <1>3, <1>4, Facts DEF Seen
<1>. QED
  BY <1>1, <1>2, <1>5 DEF f

LEMMA OnLastFlush ==
  ASSUME IndInv, NEW c \in Conn, LastFlush(c)
  PROVE  IndInv' /\ text' = text /\ emitted'[c] = Len(text[c])
<1>1. Types
  BY DEF IndInv
<1>2. /\ th[c] = "flush" /\ todo[c] = <<>>
      /\ th' = [th EXCEPT ![c] = "finish"]
      /\ Flush(c, Len(text[c]))
      /\ UNCHANGED <<server, req, sock, lock, text, count>>
  BY DEF LastFlush, Goes, Working
<1>3. /\ \E d \in {<<>>, <<"delta">>} :
           /\ todo' = [todo EXCEPT ![c] = d]
           /\ Seen("finish", req[c], wire[c], d, alive[c], client[c],
                   IF emitted[c] >= Len(text[c]) THEN emitted[c] ELSE Len(text[c]), got[c])
      /\ emitted' = [emitted EXCEPT ![c] =
                       IF emitted[c] >= Len(text[c]) THEN emitted[c] ELSE Len(text[c])]
  <2>1. "finish" \in Gen
    BY DEF Gen
  <2>. QED
    BY <1>2, <2>1, Facts, FlushKeepsShape
<1>4. (IF emitted[c] >= Len(text[c]) THEN emitted[c] ELSE Len(text[c])) = Len(text[c])
  BY Facts
<1>5. PICK d \in {<<>>, <<"delta">>} :
        /\ todo' = [todo EXCEPT ![c] = d]
        /\ Seen("finish", req[c], wire[c], d, alive[c], client[c], Len(text[c]), got[c])
  BY <1>3, <1>4
<1>6. emitted' = [emitted EXCEPT ![c] = Len(text[c])]
  BY <1>3, <1>4
<1>7. d \in Seq(Item) /\ Len(text[c]) \in Nat
  BY Facts, EmptySeq, OneDelta
<1>8. Types' /\ Others(c) /\ LockMoves(c)
  BY <1>1, <1>2, <1>5, <1>6, <1>7 DEF Types, Others, LockMoves, server, sock, Places, Gen
<1>9. th'[c] = "finish" /\ todo'[c] = d /\ emitted'[c] = Len(text[c])
  BY <1>1, <1>2, <1>5, <1>6 DEF Types
<1>10. TextInv("finish", req[c], text[c], count[c], Len(text[c]))
  BY DEF TextInv, Gen
<1>11. ConnOK(c)'
  BY <1>2, <1>5, <1>9, <1>10, Facts DEF ConnOK, ConnInv, sock
<1>. QED
  BY <1>2, <1>8, <1>9, <1>11, Frame

-----------------------------------------------------------------------------
(* The text *)

LEMMA StreamedIsPrefix ==
  ASSUME NEW t \in Seq(Byte), NEW e \in 0 .. Len(t), NEW u \in Seq(Byte), e <= Len(u),
         SubSeq(u, 1, e) = SubSeq(t, 1, e)
  PROVE  IsPrefix(SubSeq(t, 1, e), u)
<1>. DEFINE s == SubSeq(t, 1, e)
<1>1. Len(s) = e
  BY PrefixType
<1>2. e \in 0 .. e
  BY LenProperties
<1>3. SubSeq(s, 1, e) = s
  BY <1>2, PrefixOfPrefix
<1>. HIDE DEF s
<1>4. IsPrefix(s, u)
  <2>1. SubSeq(u, 1, e) = s
    BY DEF s
  <2>. QED
    BY <1>1, <1>3, <2>1 DEF IsPrefix
<1>. QED
  BY <1>4 DEF s

LEMMA BeginsCharacter ==
  ASSUME NEW t, NEW e \in Nat, e = 0 \/ t[e + 1] \notin Continue
  PROVE  ~Splits(t, e)
<1>1. SUFFICES ASSUME NEW j \in 1 .. e, \A k \in j + 1 .. e + 1 : t[k] \in Continue
               PROVE  FALSE
  BY DEF Splits
<1>2. e + 1 \in j + 1 .. e + 1 /\ e # 0
  BY <1>1
<1>. QED
  BY <1>1, <1>2

\* The byte behind what was streamed is that of the longer text, too.
LEMMA ByteStays ==
  ASSUME NEW r \in Request, NEW t \in Seq(Byte), NEW p \in Seq(Byte), NEW n,
         NEW e \in 0 .. Len(t), TextInv("decode", r, t, n, e), HoldBack(r) > 0, e > 0
  PROVE  e < Len(t) /\ (t \o p)[e + 1] = t[e + 1] /\ t[e + 1] \notin Continue
<1>1. HoldBack(r) \in Nat /\ Len(t) \in Nat /\ Len(p) \in Nat
  BY HoldBackCovers, LenProperties
<1>2. e < Len(t)
  <2>1. e + HoldBack(r) <= Len(t)
    BY DEF TextInv
  <2>. QED
    BY <1>1, <2>1
<1>3. t[e + 1] \notin Continue
  BY <1>2 DEF TextInv
<1>4. (t \o p)[e + 1] = t[e + 1]
  <2>1. e + 1 \in 1 .. Len(t) + Len(p) /\ e + 1 <= Len(t)
    BY <1>1, <1>2
  <2>. QED
    BY <2>1, ConcatProperties
<1>. QED
  BY <1>2, <1>3, <1>4

LEMMA RecordGrows ==
  ASSUME NEW r \in Request, NEW t \in Seq(Byte), NEW p \in Seq(Byte), NEW n, NEW m,
         NEW e \in 0 .. Len(t), TextInv("decode", r, t, n, e), Stops(r, t \o p) = {},
         NEW where \in {"decode", "called"},
         NEW f, f = IF e >= Upto(r, t \o p) THEN e ELSE Upto(r, t \o p)
  PROVE  /\ TextInv(where, r, t \o p, m, f) /\ f \in 0 .. Len(t \o p)
         /\ IsPrefix(SubSeq(t, 1, e), t \o p)
         /\ HoldBack(r) > 0 => ~Splits(t \o p, e)
<1>. DEFINE u == t \o p
            h == HoldBack(r)
            g == Upto(r, u)
<1>1. u \in Seq(Byte) /\ Len(u) \in Nat /\ Len(t) \in Nat /\ Len(t) <= Len(u) /\ h \in Nat
  BY ConcatProperties, LenProperties, HoldBackCovers
<1>2. SubSeq(u, 1, e) = SubSeq(t, 1, e)
  BY PrefixOfConcat
<1>3. h > 0 /\ e > 0 => u[e + 1] \notin Continue
  BY ByteStays
<1>4. /\ g \in 0 .. Len(u) /\ (g = 0 \/ g + h <= Len(u))
      /\ h > 0 /\ g > 0 => u[g + 1] \notin Continue
  BY <1>1, UptoHoldsBack
<1>5. Stops(r, u) = {} /\ f = IF e >= g THEN e ELSE g
  OBVIOUS
<1>6. e = 0 \/ e + h <= Len(t)
  BY DEF TextInv
<1>. HIDE DEF u, h, g
<1>7. f \in 0 .. Len(u) /\ (f = 0 \/ f + h <= Len(u))
  BY <1>1, <1>4, <1>5, <1>6
<1>8. h > 0 /\ f > 0 => u[f + 1] \notin Continue
  BY <1>3, <1>4, <1>5
<1>9. TextInv(where, r, u, m, f)
  BY <1>5, <1>7, <1>8 DEF TextInv, Gen, h
<1>10. IsPrefix(SubSeq(t, 1, e), u)
  BY <1>1, <1>2, StreamedIsPrefix
<1>11. h > 0 => ~Splits(u, e)
  BY <1>1, <1>3, BeginsCharacter
<1>. QED
  BY <1>7, <1>9, <1>10, <1>11 DEF u, h

LEMMA RecordCuts ==
  ASSUME NEW r \in Request, NEW t \in Seq(Byte), NEW p \in Seq(Byte), NEW n, NEW m,
         NEW e \in 0 .. Len(t), TextInv("decode", r, t, n, e), Stops(r, t \o p) # {},
         NEW c, c = Cut(r, t \o p)
  PROVE  /\ c \in Seq(Byte) /\ e \in 0 .. Len(c)
         /\ TextInv("flush", r, c, m, e)
         /\ IsPrefix(SubSeq(t, 1, e), c)
<1>. DEFINE u == t \o p
            h == HoldBack(r)
<1>1. u \in Seq(Byte) /\ Len(u) \in Nat /\ Len(t) \in Nat /\ Len(t) <= Len(u) /\ h \in Nat
  BY ConcatProperties, LenProperties, HoldBackCovers
<1>2. PICK k \in e .. Len(u) : c = SubSeq(u, 1, k)
  <2>1. Stops(r, t) = {} /\ (e = 0 \/ e + HoldBack(r) <= Len(t))
    BY DEF TextInv
  <2>. QED
    BY <2>1, CutBehindStreamed
<1>3. SubSeq(u, 1, e) = SubSeq(t, 1, e)
  BY PrefixOfConcat
<1>4. h > 0 /\ e > 0 => u[e + 1] \notin Continue
  BY ByteStays
<1>. HIDE DEF u, h
<1>5. k \in 0 .. Len(u) /\ k \in Nat /\ e \in 0 .. k
  BY <1>1, <1>2
<1>6. c \in Seq(Byte) /\ Len(c) = k /\ \A i \in 1 .. k : c[i] = u[i]
  BY <1>1, <1>2, <1>5, PrefixType
<1>7. SubSeq(c, 1, e) = SubSeq(u, 1, e)
  BY <1>1, <1>2, <1>5, PrefixOfPrefix
<1>8. IsPrefix(SubSeq(t, 1, e), c)
  BY <1>3, <1>5, <1>6, <1>7, StreamedIsPrefix
<1>9. h > 0 /\ 0 < e /\ e < Len(c) => c[e + 1] \notin Continue
  <2>1. e < k => e + 1 \in 1 .. k
    BY <1>5
  <2>. QED
    BY <1>4, <1>6, <2>1
<1>10. TextInv("flush", r, c, m, e)
  BY <1>9 DEF TextInv, Gen, h
<1>. QED
  BY <1>5, <1>6, <1>8, <1>10

LEMMA OnRecord ==
  ASSUME IndInv, NEW c \in Conn, Record(c)
  PROVE  /\ IndInv'
         /\ IsPrefix(SubSeq(text[c], 1, emitted[c]), text'[c])
         /\ emitted'[c] > emitted[c] /\ HoldBack(req[c]) > 0 => ~Splits(text'[c], emitted[c])
         /\ th'[c] # "finish"
<1>1. Types
  BY DEF IndInv
<1>. DEFINE r == req[c]
            t == text[c]
            e == emitted[c]
<1>2. PICK p \in Piece :
        LET u == text[c] \o p IN
        IF Stops(req[c], u) # {}
        THEN /\ text' = [text EXCEPT ![c] = Cut(req[c], u)]
             /\ Goes(c, "flush")
             /\ UNCHANGED <<emitted, todo>>
        ELSE /\ text' = [text EXCEPT ![c] = u]
             /\ Flush(c, Upto(req[c], u))
             /\ Goes(c, IF Deltas(c, Upto(req[c], u)) THEN "called" ELSE "decode")
  BY DEF Record
<1>. DEFINE u == t \o p
<1>3. /\ th[c] = "decode" /\ todo[c] = <<>> /\ count[c] < r.max
      /\ count' = [count EXCEPT ![c] = count[c] + 1]
      /\ UNCHANGED <<server, req, sock, lock>>
  BY DEF Record, Working
<1>4. p \in Seq(Byte)
  BY <1>2, ServeAssumption
<1>5. /\ r \in Request /\ t \in Seq(Byte) /\ e \in 0 .. Len(t)
      /\ TextInv("decode", r, t, count[c], e)
  <2>1. t \in Seq(Byte) /\ Len(t) \in Nat /\ e \in Nat /\ e <= Len(t) /\ r \in Request
    BY Facts
  <2>. QED
    BY <1>3, <2>1, Facts
<1>6. count[c] + 1 \in Nat /\ count[c] + 1 <= r.max
  BY <1>3, Facts
<1>7. CASE Stops(r, u) # {}
  <2>. DEFINE x == Cut(r, u)
  <2>1. /\ text' = [text EXCEPT ![c] = x]
        /\ th' = [th EXCEPT ![c] = "flush"]
        /\ UNCHANGED <<emitted, todo>>
    BY <1>2, <1>7 DEF Goes
  <2>2. /\ x \in Seq(Byte) /\ e \in 0 .. Len(x)
        /\ TextInv("flush", r, x, count[c] + 1, e)
        /\ IsPrefix(SubSeq(t, 1, e), x)
    BY <1>4, <1>5, <1>7, RecordCuts
  <2>. HIDE DEF x
  <2>3. Types' /\ Others(c) /\ LockMoves(c)
    BY <1>1, <1>3, <1>6, <2>1, <2>2 DEF Types, Others, LockMoves, server, sock, Places, Gen
  <2>4. /\ th'[c] = "flush" /\ text'[c] = x /\ count'[c] = count[c] + 1
        /\ emitted'[c] = e /\ todo'[c] = todo[c]
    BY <1>1, <1>3, <2>1 DEF Types
  <2>5. Seen("flush", r, wire[c], todo[c], alive[c], client[c], e, got[c])
    <3>1. Seen("decode", r, wire[c], todo[c], alive[c], client[c], e, got[c])
      BY <1>3, Facts
    <3>2. Shape("decode", r, wire[c], todo[c]) => Shape("flush", r, wire[c], todo[c])
      BY DEF Shape, Gen
    <3>3. Told("decode", r, todo[c], e, got[c]) => Told("flush", r, todo[c], e, got[c])
      BY DEF Told, Gen
    <3>. QED
      BY <3>1, <3>2, <3>3 DEF Seen
  <2>6. ConnOK(c)'
    <3>1. e <= Len(x)
      BY <2>2
    <3>. QED
      BY <1>3, <1>6, <2>2, <2>4, <2>5, <3>1 DEF ConnOK, ConnInv, sock
  <2>7. ~(emitted'[c] > emitted[c])
    BY <2>4, Facts
  <2>. QED
    BY <2>2, <2>3, <2>4, <2>6, <2>7, Frame
<1>8. CASE Stops(r, u) = {}
  <2>. DEFINE n == Upto(r, u)
              where == IF Deltas(c, n) THEN "called" ELSE "decode"
              f == IF e >= n THEN e ELSE n
  <2>1. /\ text' = [text EXCEPT ![c] = u]
        /\ th' = [th EXCEPT ![c] = where]
        /\ Flush(c, n)
    BY <1>2, <1>8 DEF Goes
  <2>2. where \in {"decode", "called"} /\ where \in Gen
    BY DEF Gen
  <2>. HIDE DEF where
  <2>3. u \in Seq(Byte) /\ Len(u) \in Nat
    BY <1>4, <1>5, ConcatProperties, LenProperties
  <2>4. n \in Nat
    <3>. HIDE DEF u, r
    <3>1. n \in 0 .. Len(u)
      BY <1>5, <2>3, UptoHoldsBack
    <3>. HIDE DEF n
    <3>. QED
      BY <2>3, <3>1
  <2>5. /\ TextInv(where, r, u, count[c] + 1, f) /\ f \in 0 .. Len(u)
        /\ IsPrefix(SubSeq(t, 1, e), u)
        /\ HoldBack(r) > 0 => ~Splits(u, e)
    BY <1>4, <1>5, <1>8, <2>2, RecordGrows
  <2>. HIDE DEF n
  <2>6. /\ \E d \in {<<>>, <<"delta">>} :
             /\ todo' = [todo EXCEPT ![c] = d]
             /\ Seen(where, r, wire[c], d, alive[c], client[c], f, got[c])
        /\ emitted' = [emitted EXCEPT ![c] = f]
    BY <1>3, <2>1, <2>2, <2>4, FlushKeepsShape
  <2>. HIDE DEF f, u
  <2>7. PICK d \in {<<>>, <<"delta">>} :
          /\ todo' = [todo EXCEPT ![c] = d]
          /\ Seen(where, r, wire[c], d, alive[c], client[c], f, got[c])
    BY <2>6
  <2>8. d \in Seq(Item) /\ f \in Nat
    <3>1. f \in Nat
      BY <2>3, <2>5
    <3>. QED
      BY <2>7, <3>1, EmptySeq, OneDelta
  <2>9. Types' /\ Others(c) /\ LockMoves(c)
    BY <1>1, <1>3, <1>6, <2>1, <2>2, <2>3, <2>6, <2>7, <2>8
       DEF Types, Others, LockMoves, server, sock, Places, Gen
  <2>10. /\ th'[c] = where /\ text'[c] = u /\ count'[c] = count[c] + 1
         /\ emitted'[c] = f /\ todo'[c] = d
    BY <1>1, <1>3, <2>1, <2>6, <2>7 DEF Types
  <2>11. ConnOK(c)'
    <3>1. f <= Len(u)
      BY <2>3, <2>5
    <3>. QED
      BY <1>3, <1>6, <2>5, <2>7, <2>10, <3>1 DEF ConnOK, ConnInv, sock
  <2>. QED
    BY <2>2, <2>5, <2>9, <2>10, <2>11, Frame
<1>. QED
  BY <1>7, <1>8

LEMMA OnEnds ==
  ASSUME IndInv, Ends
  PROVE  IndInv'
<1>1. Types
  BY DEF IndInv
<1>2. /\ main' = "exited" /\ running' = FALSE /\ listens' = FALSE /\ req' = req
      /\ th' = [c \in Conn |-> "closed"]
      /\ todo' = [c \in Conn |-> <<>>] /\ wire' = [c \in Conn |-> <<>>]
      /\ lock' = {}
      /\ text' = [c \in Conn |-> <<>>]
      /\ count' = [c \in Conn |-> 0] /\ emitted' = [c \in Conn |-> 0]
      /\ unread' = [c \in Conn |-> 0] /\ got' = [c \in Conn |-> 0]
      /\ alive' = [c \in Conn |-> FALSE] /\ client' = [c \in Conn |-> "gone"]
  BY DEF Ends
<1>3. Types'
  <2>1. <<>> \in Seq(Item) /\ <<>> \in Seq(Byte) /\ 0 \in 0 .. Buffer /\ 0 \in Nat
    BY EmptySeq, ServeAssumption
  <2>. QED
    BY <1>1, <1>2, <2>1 DEF Types, Places
<1>4. LockInv'
  BY <1>2 DEF LockInv, Gen
<1>5. ASSUME NEW c \in Conn
      PROVE  ConnOK(c)'
  <2>1. req[c].max \in Nat /\ Len(<<>>) = 0
    BY Facts, EmptySeq
  <2>. QED
    BY <1>2, <2>1 DEF ConnOK, ConnInv, TextInv, Seen, Gen
<1>. QED
  BY <1>3, <1>4, <1>5 DEF IndInv

-----------------------------------------------------------------------------
(* The invariant is one *)

LEMMA Initially ==
  ASSUME Init
  PROVE  IndInv
<1>1. Types
  <2>1. <<>> \in Seq(Item) /\ <<>> \in Seq(Byte) /\ 0 \in 0 .. Buffer /\ 0 \in Nat
    BY EmptySeq, ServeAssumption
  <2>2. \A c \in Conn : req[c] \in Requests[c]
    BY DEF Init
  <2>. QED
    BY <2>1, <2>2 DEF Init, Types, Places
<1>2. LockInv
  BY DEF Init, LockInv, Gen
<1>3. ASSUME NEW c \in Conn
      PROVE  ConnOK(c)
  <2>1. req[c].max \in Nat
    <3>1. req[c] \in Requests[c] /\ Requests[c] \in SUBSET Request
      BY <1>1, ServeAssumption DEF Types
    <3>2. req[c] \in Request
      BY <3>1
    <3>. QED
      BY <3>2 DEF Request
  <2>2. /\ th[c] = "away" /\ todo[c] = <<>> /\ wire[c] = <<>> /\ alive[c] = TRUE
        /\ text[c] = <<>> /\ count[c] = 0 /\ emitted[c] = 0 /\ client[c] = "reads"
        /\ got[c] = 0
    BY DEF Init
  <2>3. Len(<<>>) = 0
    BY EmptySeq
  <2>4. Shape("away", req[c], <<>>, <<>>)
    BY <2>3 DEF Shape, NoDelta, Gen
  <2>. QED
    BY <2>1, <2>2, <2>3, <2>4 DEF ConnOK, ConnInv, TextInv, Seen, Told, Gen
<1>. QED
  BY <1>1, <1>2, <1>3 DEF IndInv

\* Steps of the main thread and the signal that do not end the process.
Mains == UNCHANGED <<th, req, todo, sock, gen>> /\ Types'

LEMMA OnMains ==
  ASSUME IndInv, Mains
  PROVE  IndInv'
<1>1. LockInv'
  BY DEF IndInv, LockInv, Mains, gen
<1>2. \A c \in Conn : ConnOK(c)'
  BY DEF IndInv, ConnOK, Mains, sock, gen
<1>. QED
  BY <1>1, <1>2 DEF IndInv, Mains

LEMMA MainSteps ==
  ASSUME IndInv, Main \/ Interrupt
  PROVE  Mains \/ Ends
<1>1. Types
  BY DEF IndInv
<1>2. CASE OpenSocket
  BY <1>1, <1>2 DEF OpenSocket, Mains, Types, sock, gen
<1>3. CASE Listen
  BY <1>1, <1>3 DEF Listen, Mains, Types, sock, gen
<1>4. CASE StartLoop
  BY <1>1, <1>4 DEF StartLoop, Mains, Types, sock, gen
<1>5. CASE LeaveLoop
  BY <1>5 DEF LeaveLoop
<1>6. CASE Interrupt
  BY <1>1, <1>6 DEF Interrupt, Mains, Types, sock, gen
<1>. QED
  BY <1>2, <1>3, <1>4, <1>5, <1>6 DEF Main

\* What a step of connection x may be.
Turn(x) ==
  \/ Connect(x) \/ Accept(x) \/ Reads(x) \/ Falters(x)
  \/ ReadFails(x) \/ Handle(x) \/ Throw(x) \/ Works(x)

LEMMA NextCases ==
  ASSUME IndInv, Next
  PROVE  Mains \/ Ends \/ \E x \in Conn : Turn(x)
<1>1. CASE Main \/ Interrupt
  BY <1>1, MainSteps
<1>2. ASSUME NEW x \in Conn, ReadThrows(x)
      PROVE  Ends
  BY <1>2 DEF ReadThrows
<1>3. CASE \E x \in Conn : Turn(x)
  BY <1>3
<1>. QED
  BY <1>1, <1>2, <1>3 DEF Next, Turn

LEMMA Preserved ==
  ASSUME IndInv, [Next]_vars
  PROVE  IndInv'
<1>1. CASE UNCHANGED vars
  <2>1. Types'
    BY <1>1 DEF IndInv, Types, vars
  <2>2. Mains
    BY <1>1, <2>1 DEF vars, Mains, sock, gen
  <2>. QED
    BY <2>2, OnMains
<1>2. ASSUME NEW x \in Conn, Turn(x)
      PROVE  IndInv'
  <2>1. CASE Works(x)
    BY <2>1, OnLock, OnRecord, OnCalled, OnEndDecode, OnLastFlush, OnAnswer, OnClose,
       OnWrite, OnWriteFails DEF Works
  <2>. QED
    BY <1>2, <2>1, OnConnect, OnAccept, OnReads, OnFalters, OnReadFails, OnHandle, OnThrow
       DEF Turn
<1>. QED
  BY <1>1, <1>2, NextCases, OnMains, OnEnds

\* The inductive invariant holds in every state.
THEOREM Invariant == Spec => []IndInv
<1>1. Init => IndInv
  BY Initially
<1>2. IndInv /\ [Next]_vars => IndInv'
  BY Preserved
<1>. QED
  BY <1>1, <1>2, PTL DEF Spec

\* The types, and that one thread at most is in run() and holds gen_mu_; tokens are
\* counted within max_tokens, and no more is streamed than there is.
THEOREM TypeCorrect == Spec => []TypeOK
<1>1. IndInv => TypeOK
  <2>1. SUFFICES ASSUME IndInv PROVE TypeOK
    OBVIOUS
  <2>2. Types /\ LockInv
    BY <2>1 DEF IndInv
  <2>3. lock \in {{}} \cup {{c} : c \in Conn}
    <3>1. lock \subseteq Conn /\ \A c, d \in lock : c = d
      BY <2>2 DEF LockInv
    <3>2. CASE lock = {}
      BY <3>2
    <3>3. CASE lock # {}
      <4>1. PICK c \in lock : TRUE
        BY <3>3
      <4>2. lock = {c} /\ c \in Conn
        BY <3>1, <4>1
      <4>. QED
        BY <4>2
    <3>. QED
      BY <3>2, <3>3
  <2>4. \A c \in Conn : count[c] \in 0 .. req[c].max /\ emitted[c] \in 0 .. Len(text[c])
    BY <2>1, Facts
  <2>5. th \in [Conn -> {"away", "backlog", "reading", "lock", "decode", "called", "flush",
                         "finish", "closing", "caught", "closed"}]
    BY <2>2 DEF Types, Places, Gen
  <2>. QED
    BY <2>2, <2>3, <2>4, <2>5 DEF TypeOK, Types
<1>. QED
  BY <1>1, Invariant, PTL

-----------------------------------------------------------------------------
(* Whole responses *)

\* A client that stayed has been sent a whole response when its handler has returned,
\* a stream with all of its text and [DONE] behind it, whatever other connections and
\* their threads do; when an exception was caught, that is so of a response that was
\* no stream yet, and nothing is said of a stream that was begun.
THEOREM ResponsesAreWhole == Spec => []ResponseWhole
<1>1. IndInv => ResponseWhole
  <2>1. SUFFICES ASSUME IndInv, NEW c \in Conn, todo[c] = <<>>, client[c] # "gone"
                 PROVE  /\ th[c] \in {"closing", "caught"} /\ ~Streams(req[c]) =>
                             wire[c] = <<"head", "body">>
                        /\ th[c] = "closing" /\ Streams(req[c]) =>
                             /\ \E m \in {<<>>, <<"delta">>} :
                                  wire[c] = Begins(req[c]) \o m \o <<"final", "done">>
                             /\ got[c] = Len(text[c])
    BY DEF ResponseWhole
  <2>2. /\ Shape(th[c], req[c], wire[c], <<>>)
        /\ Told(th[c], req[c], <<>>, emitted[c], got[c])
        /\ TextInv(th[c], req[c], text[c], count[c], emitted[c])
    BY <2>1, Facts DEF Seen
  <2>3. wire[c] \o <<>> = wire[c]
    BY <2>1, Facts, ConcatEmptySeq
  <2>4. CASE th[c] \in {"closing", "caught"} /\ ~Streams(req[c])
    <3>1. wire[c] = Ending(req[c])
      BY <2>2, <2>3, <2>4 DEF Shape
    <3>. QED
      BY <2>4, <3>1 DEF Ending
  <2>5. CASE th[c] = "closing" /\ Streams(req[c])
    <3>1. \E m \in {<<>>, <<"delta">>} : wire[c] = (Begins(req[c]) \o m) \o Ending(req[c])
      BY <2>2, <2>3, <2>5 DEF Shape
    <3>2. Ending(req[c]) = <<"final", "done">>
      BY <2>5 DEF Ending
    <3>3. got[c] = Len(text[c])
      BY <2>2, <2>5 DEF Told, TextInv, Streams
    <3>. QED
      BY <2>5, <3>1, <3>2, <3>3
  <2>. QED
    BY <2>4, <2>5
<1>. QED
  BY <1>1, Invariant, PTL

-----------------------------------------------------------------------------
(* Faithful streams *)

Faithful(c) ==
  th[c] \in {"decode", "flush"} /\ th'[c] \notin {"caught", "closed"} =>
    /\ IsPrefix(SubSeq(text[c], 1, emitted[c]), text'[c])
    /\ emitted'[c] > emitted[c] /\ HoldBack(req[c]) > 0 => ~Splits(text'[c], emitted[c])
    /\ th'[c] = "finish" => emitted'[c] = Len(text'[c])

\* A connection whose text and what was streamed of it stay.
LEMMA Still ==
  ASSUME IndInv, NEW c \in Conn, text'[c] = text[c], emitted'[c] = emitted[c],
         th'[c] = "finish" => th[c] = "finish"
  PROVE  Faithful(c)
<1>1. text[c] \in Seq(Byte) /\ emitted[c] \in 0 .. Len(text[c]) /\ emitted[c] \in Nat
  BY Facts
<1>2. IsPrefix(SubSeq(text[c], 1, emitted[c]), text[c])
  <2>1. emitted[c] <= Len(text[c])
    BY Facts
  <2>. QED
    BY <1>1, <2>1, StreamedIsPrefix
<1>3. ~(emitted[c] > emitted[c])
  BY <1>1
<1>. QED
  BY <1>2, <1>3 DEF Faithful

\* Steps that neither change a text nor finish one.
LEMMA QuietSteps ==
  ASSUME IndInv, NEW x \in Conn,
         \/ Connect(x) \/ Accept(x) \/ Reads(x) \/ Falters(x) \/ ReadFails(x) \/ Handle(x)
         \/ Lock(x) \/ Called(x) \/ EndDecode(x) \/ Answer(x) \/ Write(x) \/ WriteFails(x)
  PROVE  \A c \in Conn : Faithful(c)
<1>1. text' = text /\ emitted' = emitted
  BY DEF Connect, Accept, Reads, Falters, ReadFails, Handle, Lock, Called, EndDecode, Answer,
         Write, WriteFails, gen
<1>2. th' = th \/ \E where \in Places \ {"finish"} : th' = [th EXCEPT ![x] = where]
  BY DEF Connect, Accept, Reads, Falters, ReadFails, Handle, Lock, Called, EndDecode, Answer,
         Write, WriteFails, Goes, Places, Gen
<1>3. \A c \in Conn : th'[c] = "finish" => th[c] = "finish"
  <2>1. Types
    BY DEF IndInv
  <2>. QED
    BY <1>2, <2>1 DEF Types
<1>. QED
  BY <1>1, <1>3, Still

LEMMA FaithfulSteps ==
  ASSUME IndInv, Next
  PROVE  \A c \in Conn : Faithful(c)
<1>1. Types
  BY DEF IndInv
<1>2. CASE Mains
  <2>1. text' = text /\ emitted' = emitted /\ th' = th
    BY <1>2 DEF Mains, gen
  <2>. QED
    BY <2>1, Still
<1>3. CASE Ends
  BY <1>3 DEF Ends, Faithful
<1>4. ASSUME NEW x \in Conn, Throw(x) \/ Close(x), NEW c \in Conn
      PROVE  Faithful(c)
  <2>1. /\ \E where \in {"caught", "closed"} : th' = [th EXCEPT ![x] = where]
        /\ text' = [text EXCEPT ![x] = <<>>] /\ emitted' = [emitted EXCEPT ![x] = 0]
    BY <1>4 DEF Throw, Close, Goes, Forgets
  <2>2. CASE c = x
    BY <1>1, <2>1, <2>2 DEF Types, Faithful
  <2>3. CASE c # x
    <3>1. th'[c] = th[c] /\ text'[c] = text[c] /\ emitted'[c] = emitted[c]
      BY <1>1, <2>1, <2>3 DEF Types
    <3>. QED
      BY <3>1, Still
  <2>. QED
    BY <2>2, <2>3
<1>5. ASSUME NEW x \in Conn, Record(x), NEW c \in Conn
      PROVE  Faithful(c)
  <2>1. CASE c = x
    BY <1>5, <2>1, OnRecord DEF Faithful
  <2>2. CASE c # x
    <3>1. /\ \E where : th' = [th EXCEPT ![x] = where]
          /\ \E t : text' = [text EXCEPT ![x] = t]
          /\ \E e : emitted' = [emitted EXCEPT ![x] = e]
      <4>1. emitted = [emitted EXCEPT ![x] = emitted[x]]
        BY <1>1 DEF Types
      <4>. QED
        BY <1>5, <4>1 DEF Record, Goes, Flush
    <3>2. th'[c] = th[c] /\ text'[c] = text[c] /\ emitted'[c] = emitted[c]
      BY <1>1, <2>2, <3>1 DEF Types
    <3>. QED
      BY <3>2, Still
  <2>. QED
    BY <2>1, <2>2
<1>6. ASSUME NEW x \in Conn, LastFlush(x), NEW c \in Conn
      PROVE  Faithful(c)
  <2>1. text' = text /\ emitted'[x] = Len(text[x])
    BY <1>6, OnLastFlush
  <2>2. CASE c = x
    <3>1. /\ text[c] \in Seq(Byte) /\ emitted[c] \in 0 .. Len(text[c])
          /\ Len(text[c]) \in Nat /\ emitted[c] <= Len(text[c])
      BY Facts
    <3>2. IsPrefix(SubSeq(text[c], 1, emitted[c]), text[c])
      BY <3>1, StreamedIsPrefix
    <3>3. th[c] = "flush"
      BY <1>6, <2>2 DEF LastFlush
    <3>4. HoldBack(req[c]) > 0 /\ emitted[c] < Len(text[c]) => ~Splits(text[c], emitted[c])
      <4>1. SUFFICES ASSUME HoldBack(req[c]) > 0, emitted[c] < Len(text[c])
                     PROVE  ~Splits(text[c], emitted[c])
        OBVIOUS
      <4>2. emitted[c] = 0 \/ text[c][emitted[c] + 1] \notin Continue
        BY <3>1, <3>3, <4>1, Facts DEF TextInv
      <4>. QED
        BY <3>1, <4>2, BeginsCharacter
    <3>5. text'[c] = text[c] /\ emitted'[c] = Len(text[c])
      BY <2>1, <2>2
    <3>. QED
      BY <3>1, <3>2, <3>4, <3>5 DEF Faithful
  <2>3. CASE c # x
    <3>1. /\ th' = [th EXCEPT ![x] = "finish"]
          /\ \E e : emitted' = [emitted EXCEPT ![x] = e]
      BY <1>6 DEF LastFlush, Goes, Flush
    <3>2. th'[c] = th[c] /\ text'[c] = text[c] /\ emitted'[c] = emitted[c]
      BY <1>1, <2>1, <2>3, <3>1 DEF Types
    <3>. QED
      BY <3>2, Still
  <2>. QED
    BY <2>2, <2>3
<1>7. ASSUME NEW x \in Conn, Turn(x)
      PROVE  \A c \in Conn : Faithful(c)
  BY <1>4, <1>5, <1>6, <1>7, QuietSteps DEF Turn, Works
<1>. QED
  BY <1>2, <1>3, <1>7, NextCases

\* What was streamed of a text stays its prefix, no delta behind a hold-back window
\* begins inside a character, and all of the text is streamed when a request ends.
THEOREM StreamsAreFaithful == Spec => StreamFaithful
<1>. DEFINE A == \A c \in Conn : th[c] \in {"decode", "flush"} /\ th'[c] \notin {"caught", "closed"} =>
       /\ IsPrefix(SubSeq(text[c], 1, emitted[c]), text'[c])
       /\ emitted'[c] > emitted[c] /\ HoldBack(req[c]) > 0 => ~Splits(text'[c], emitted[c])
       /\ th'[c] = "finish" => emitted'[c] = Len(text'[c])
<1>1. IndInv /\ [Next]_vars => [A]_vars
  <2>1. ASSUME IndInv, Next PROVE A
    BY <2>1, FaithfulSteps DEF Faithful
  <2>. QED
    BY <2>1
<1>2. Spec => [][Next]_vars
  BY DEF Spec
<1>3. Spec => [][A]_vars
  BY <1>1, <1>2, Invariant, PTL
<1>. QED
  BY <1>3 DEF StreamFaithful

=============================================================================
