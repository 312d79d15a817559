------------------------------- MODULE Serve --------------------------------
(***************************************************************************)
(* The HTTP front end: the accept loop and one detached thread for each    *)
(* connection (src/http_server.cpp), the handlers with the generation lock *)
(* gen_mu_ and the streaming of text with its hold-back window             *)
(* (src/server.cpp), and SIGINT (src/main.cpp).                            *)
(*                                                                         *)
(* A thread writes items: heads, bodies and frames.  What the tokens of a  *)
(* generation are is arbitrary here; their text is a sequence of bytes of  *)
(* which only kinds matter: leading and continuing ones of a character.    *)
(***************************************************************************)
EXTENDS Integers, FiniteSets, FiniteSetsExt, SequencesExt

CONSTANTS
  Conn,      \* connections, one client each
  Byte,
  Lead,      \* bytes that begin a character of several bytes
  Continue,  \* bytes 10xxxxxx
  Piece,     \* what decode_token makes of a token
  Requests,  \* requests that the client of a connection may send
  Buffer     \* items a socket holds for a client that does not read

Path == {"chat", "text", "other"}
Request == [path : Path, stream : BOOLEAN, bad : BOOLEAN, stop : Seq(Seq(Byte)), max : Nat]

ASSUME ServeAssumption ==
  /\ Lead \subseteq Byte
  /\ Continue \subseteq Byte \ Lead
  /\ Piece \subseteq Seq(Byte)
  /\ Requests \in [Conn -> SUBSET Request]
  /\ Buffer \in Nat \ {0}

Item == {"head", "body", "sse", "role", "delta", "final", "done"}

VARIABLES
  main,     \* where the main thread is
  running,  \* HttpServer::running_
  listens,  \* the listening socket is open
  th,       \* where the thread of a connection is
  req,      \* its request
  todo,     \* items it writes before it goes on
  wire,     \* items its client is sent, deltas in a row as one
  alive,    \* HttpResponder::alive_
  lock,     \* who holds gen_mu_
  text,     \* Completion::text
  count,    \* Completion::completion_tokens
  emitted,  \* bytes of text handed to on_delta
  got,      \* bytes of text in the deltas that its client is sent (a history variable)
  unread,   \* items the client has still to read
  client    \* "reads", "stalls" (reads no more), "gone"

server == <<main, running, listens>>
gen == <<lock, text, count, emitted>>
sock == <<wire, alive, unread, client, got>>
vars == <<main, running, listens, th, req, todo, wire, alive, lock, text, count, emitted,
          unread, client, got>>

Init ==
  /\ main = "setup" /\ running = FALSE /\ listens = FALSE
  /\ th = [c \in Conn |-> "away"]
  /\ req \in {f \in [Conn -> UNION {Requests[c] : c \in Conn}] : \A c \in Conn : f[c] \in Requests[c]}
  /\ todo = [c \in Conn |-> <<>>]
  /\ wire = [c \in Conn |-> <<>>]
  /\ alive = [c \in Conn |-> TRUE]
  /\ lock = {}
  /\ text = [c \in Conn |-> <<>>]
  /\ count = [c \in Conn |-> 0]
  /\ emitted = [c \in Conn |-> 0]
  /\ unread = [c \in Conn |-> 0]
  /\ client = [c \in Conn |-> "reads"]
  /\ got = [c \in Conn |-> 0]

-----------------------------------------------------------------------------
(* The main thread and the signal handler *)

OpenSocket ==
  /\ main = "setup"
  /\ main' = "opened"
  /\ listens' = TRUE
  /\ UNCHANGED <<running, th, req, todo, sock, gen>>

\* The process ends, by exit() or terminate(): its threads end where they are, the
\* sockets are closed.
Ends ==
  /\ main' = "exited" /\ running' = FALSE /\ listens' = FALSE
  /\ th' = [c \in Conn |-> "closed"]
  /\ todo' = [c \in Conn |-> <<>>] /\ wire' = [c \in Conn |-> <<>>]
  /\ lock' = {}
  /\ text' = [c \in Conn |-> <<>>]
  /\ count' = [c \in Conn |-> 0] /\ emitted' = [c \in Conn |-> 0]
  /\ unread' = [c \in Conn |-> 0] /\ got' = [c \in Conn |-> 0]
  /\ alive' = [c \in Conn |-> FALSE] /\ client' = [c \in Conn |-> "gone"]
  /\ UNCHANGED req

\* bind and listen fail on a socket that stop() has closed.
Listen ==
  /\ main = "opened"
  /\ \/ /\ listens
        /\ main' = "bound"
        /\ UNCHANGED <<running, listens, th, req, todo, sock, gen>>
     \/ ~listens /\ Ends

StartLoop ==
  /\ main = "bound"
  /\ main' = "accept"
  /\ running' = TRUE
  /\ UNCHANGED <<listens, th, req, todo, sock, gen>>

\* on_sigint: stop() closes the socket if there is one.
Interrupt ==
  /\ main # "exited"
  /\ running' = FALSE
  /\ listens' = FALSE
  /\ UNCHANGED <<main, th, req, todo, sock, gen>>

Accept(c) ==
  /\ main = "accept"
  /\ listens
  /\ th[c] = "backlog"
  /\ th' = [th EXCEPT ![c] = "reading"]
  /\ UNCHANGED <<server, req, todo, sock, gen>>

\* The loop ends at the first accept that fails with running_ unset; main returns
\* and the process ends. Detached threads run on until then, whether the engine they
\* use has been destroyed or not.
LeaveLoop == main = "accept" /\ ~running /\ Ends

-----------------------------------------------------------------------------
(* The clients *)

Connect(c) ==
  /\ th[c] = "away"
  /\ main \in {"bound", "accept"} /\ listens
  /\ th' = [th EXCEPT ![c] = "backlog"]
  /\ UNCHANGED <<server, req, todo, sock, gen>>

Reads(c) ==
  /\ client[c] = "reads"
  /\ unread[c] > 0
  /\ unread' = [unread EXCEPT ![c] = @ - 1]
  /\ UNCHANGED <<server, th, req, todo, wire, alive, client, got, gen>>

\* The client stops to read, or closes the connection.
Falters(c) ==
  /\ th[c] \notin {"away", "closed"}
  /\ \/ client[c] = "reads" /\ client' = [client EXCEPT ![c] = "stalls"]
     \/ client[c] # "gone" /\ client' = [client EXCEPT ![c] = "gone"]
  /\ unread' = [unread EXCEPT ![c] = IF client'[c] = "gone" THEN 0 ELSE @]
  /\ wire' = [wire EXCEPT ![c] = IF client'[c] = "gone" THEN <<>> ELSE @]
  /\ got' = [got EXCEPT ![c] = IF client'[c] = "gone" THEN 0 ELSE @]
  /\ UNCHANGED <<server, th, req, todo, alive, gen>>

-----------------------------------------------------------------------------
(* The socket *)

Working(c) == main # "exited" /\ todo[c] = <<>>

Sent(w, item) == IF item = "delta" /\ w # <<>> /\ Last(w) = item THEN w ELSE Append(w, item)

\* write_all: it waits for room; a socket whose client is gone may still take it.
Write(c) ==
  /\ main # "exited"
  /\ todo[c] # <<>>
  /\ alive[c]
  /\ client[c] = "gone" \/ unread[c] < Buffer
  /\ IF client[c] = "gone" THEN UNCHANGED <<wire, unread, got>>
     ELSE /\ wire' = [wire EXCEPT ![c] = Sent(@, Head(todo[c]))]
          /\ unread' = [unread EXCEPT ![c] = @ + 1]
          /\ got' = [got EXCEPT ![c] = IF Head(todo[c]) = "delta" THEN emitted[c] ELSE @]
  /\ todo' = [todo EXCEPT ![c] = Tail(@)]
  /\ UNCHANGED <<server, th, req, alive, client, gen>>

\* A write that fails clears alive_; send() writes no body after a failed head.
WriteFails(c) ==
  /\ main # "exited"
  /\ todo[c] # <<>>
  /\ client[c] = "gone"
  /\ alive' = [alive EXCEPT ![c] = FALSE]
  /\ todo' = [todo EXCEPT ![c] = IF Head(@) = "head" THEN <<>> ELSE Tail(@)]
  /\ UNCHANGED <<server, th, req, wire, unread, client, got, gen>>

-----------------------------------------------------------------------------
(* The streaming of text *)

\* Where string s is found in t: positions of its first byte.
Found(t, s) ==
  {i \in 1 .. Len(t) : i + Len(s) - 1 <= Len(t) /\ SubSeq(t, i, i + Len(s) - 1) = s}

\* The stop strings that t contains, by their place in the request.
Stops(r, t) == {n \in DOMAIN r.stop : r.stop[n] # <<>> /\ Found(t, r.stop[n]) # {}}

\* The first of them in the request's order cuts the text.
Cut(r, t) == SubSeq(t, 1, Min(Found(t, r.stop[Min(Stops(r, t))])) - 1)

\* Mutant of HoldBack: the first stop string decides, not the longest.
HoldBackFirst(r) == IF r.stop = <<>> THEN 0 ELSE Len(r.stop[1]) - 1

\* Bytes that a later token may turn into a stop string: max_stop - 1.
HoldBack(r) == Max({0} \cup {Len(r.stop[n]) - 1 : n \in {n \in DOMAIN r.stop : r.stop[n] # <<>>}})

\* utf8_trunc(t, n): back to the byte that begins a character, unless n is all of t.
Trunc(t, n) ==
  IF n >= Len(t) THEN Len(t)
  ELSE Max({0} \cup {m \in 1 .. n : t[m + 1] \notin Continue})

\* How far flush(false) streams text t.
Upto(r, t) == Trunc(t, IF Len(t) > HoldBack(r) THEN Len(t) - HoldBack(r) ELSE 0)

Deltas(c, n) == req[c].stream /\ n > emitted[c]

\* flush with the text up to n: on_delta is called for what is new; the one of the
\* chat handler writes nothing when the client is known to be gone.
Flush(c, n) ==
  /\ emitted' = [emitted EXCEPT ![c] = Max({@, n})]
  /\ todo' = [todo EXCEPT ![c] =
       IF Deltas(c, n) /\ (req[c].path = "chat" => alive[c]) THEN <<"delta">> ELSE <<>>]

Goes(c, where) == th' = [th EXCEPT ![c] = where]

\* A sampled token that is recorded: its text is appended, cut at a stop string or
\* streamed as far as no stop string can reach.
Record(c) ==
  /\ th[c] = "decode" /\ Working(c)
  /\ count[c] < req[c].max
  /\ \E p \in Piece :
       LET t == text[c] \o p IN
       IF Stops(req[c], t) # {}
       THEN /\ text' = [text EXCEPT ![c] = Cut(req[c], t)]
            /\ Goes(c, "flush")
            /\ UNCHANGED <<emitted, todo>>
       ELSE /\ text' = [text EXCEPT ![c] = t]
            /\ Flush(c, Upto(req[c], t))
            /\ Goes(c, IF Deltas(c, Upto(req[c], t)) THEN "called" ELSE "decode")
  /\ count' = [count EXCEPT ![c] = @ + 1]
  /\ UNCHANGED <<server, req, sock, lock>>

\* on_delta returns client_alive(): without a client the request is cancelled.
Called(c) ==
  /\ th[c] = "called" /\ Working(c)
  /\ Goes(c, IF alive[c] THEN "decode" ELSE "flush")
  /\ UNCHANGED <<server, req, todo, sock, gen>>

\* A stop token, max_tokens reached or no room left.
EndDecode(c) ==
  /\ th[c] = "decode" /\ Working(c)
  /\ Goes(c, "flush")
  /\ UNCHANGED <<server, req, todo, sock, gen>>

\* flush(true) streams what was held back; what on_delta returns is ignored.
LastFlush(c) ==
  /\ th[c] = "flush" /\ Working(c)
  /\ Flush(c, Len(text[c]))
  /\ Goes(c, "finish")
  /\ UNCHANGED <<server, req, sock, lock, text, count>>

-----------------------------------------------------------------------------
(* The handlers *)

\* read_request fails: the client has closed the connection, or sends too much. The
\* socket is closed with no answer.
ReadFails(c) ==
  /\ th[c] = "reading" /\ Working(c)
  /\ Goes(c, "closed")
  /\ UNCHANGED <<server, req, todo, sock, gen>>

\* A content-length that is no number throws outside every try: terminate().
ReadThrows(c) == th[c] = "reading" /\ Working(c) /\ Ends

\* The handler, up to the lock: a bad request throws, a stream is begun at once.
Handle(c) ==
  /\ th[c] = "reading" /\ Working(c)
  /\ LET r == req[c] IN
     IF r.bad \/ r.path = "other"
     THEN /\ Goes(c, IF r.path = "other" THEN "closing" ELSE "caught")
          /\ todo' = [todo EXCEPT ![c] = <<"head", "body">>]
     ELSE /\ Goes(c, "lock")
          /\ todo' = [todo EXCEPT ![c] =
               IF ~r.stream THEN <<>> ELSE IF r.path = "chat" THEN <<"sse", "role">> ELSE <<"sse">>]
  /\ UNCHANGED <<server, req, sock, gen>>

\* Mutant of Lock: requests generate side by side.
LockShared(c) ==
  /\ th[c] = "lock" /\ Working(c)
  /\ lock' = lock \cup {c}
  /\ Goes(c, "decode")
  /\ UNCHANGED <<server, req, todo, sock, text, count, emitted>>

\* run() takes gen_mu_, admits the request and prefills.
Lock(c) ==
  /\ th[c] = "lock" /\ Working(c)
  /\ lock = {}
  /\ lock' = {c}
  /\ Goes(c, "decode")
  /\ UNCHANGED <<server, req, todo, sock, text, count, emitted>>

\* The completion of a handler that returned or threw is no more.
Forgets(c) ==
  /\ text' = [text EXCEPT ![c] = <<>>]
  /\ count' = [count EXCEPT ![c] = 0]
  /\ emitted' = [emitted EXCEPT ![c] = 0]

\* Mutant of Throw: the lock is not released on the way of an exception.
ThrowHoldsLock(c) ==
  /\ th[c] = "decode" /\ Working(c)
  /\ todo' = [todo EXCEPT ![c] = <<"head", "body">>]
  /\ Goes(c, "caught")
  /\ UNCHANGED <<server, req, sock, gen>>

\* ensure_gpu, the prefill or a forward throws: the lock is released, the exception is
\* caught around the handler, and the error is sent with a head of its own, after the
\* stream's if there is one.
Throw(c) ==
  /\ th[c] = "decode" /\ Working(c)
  /\ count[c] = 0 \/ count[c] < req[c].max
  /\ lock' = {}
  /\ todo' = [todo EXCEPT ![c] = <<"head", "body">>]
  /\ Goes(c, "caught")
  /\ Forgets(c)
  /\ UNCHANGED <<server, req, sock>>

\* Mutant of Answer: the stream is not ended by [DONE].
AnswerNotDone(c) ==
  /\ th[c] = "finish" /\ Working(c)
  /\ lock' = {}
  /\ todo' = [todo EXCEPT ![c] = IF req[c].stream THEN <<"final">> ELSE <<"head", "body">>]
  /\ Goes(c, "closing")
  /\ UNCHANGED <<server, req, sock, text, count, emitted>>

\* run() returns and releases the lock; the handler writes the end of the response.
Answer(c) ==
  /\ th[c] = "finish" /\ Working(c)
  /\ lock' = {}
  /\ todo' = [todo EXCEPT ![c] = IF req[c].stream THEN <<"final", "done">> ELSE <<"head", "body">>]
  /\ Goes(c, "closing")
  /\ UNCHANGED <<server, req, sock, text, count, emitted>>

\* The handler has returned or its exception was answered: the socket is closed and
\* the thread ends.
Close(c) ==
  /\ th[c] \in {"closing", "caught"} /\ Working(c)
  /\ Goes(c, "closed")
  /\ Forgets(c)
  /\ wire' = [wire EXCEPT ![c] = <<>>]
  /\ unread' = [unread EXCEPT ![c] = 0]
  /\ got' = [got EXCEPT ![c] = 0]
  /\ UNCHANGED <<server, req, todo, alive, client, lock>>

-----------------------------------------------------------------------------

Main == OpenSocket \/ Listen \/ StartLoop \/ LeaveLoop

\* What a thread does by itself once its request is read.
Works(c) ==
  \/ Lock(c) \/ Record(c) \/ Called(c) \/ EndDecode(c) \/ LastFlush(c) \/ Answer(c) \/ Close(c)
  \/ Write(c) \/ WriteFails(c)

Next ==
  \/ Main \/ Interrupt
  \/ \E c \in Conn :
       \/ Connect(c) \/ Accept(c) \/ Reads(c) \/ Falters(c)
       \/ ReadFails(c) \/ ReadThrows(c) \/ Handle(c) \/ Throw(c) \/ Works(c)

Spec == Init /\ [][Next]_vars

\* Threads are scheduled, and clients that read go on to do so. A token may always
\* throw, a client always falter: nothing is assumed of these.
FairSpec ==
  /\ Spec
  /\ \A c \in Conn : WF_vars(Works(c)) /\ WF_vars(Reads(c))

-----------------------------------------------------------------------------
(* Properties *)

TypeOK ==
  /\ main \in {"setup", "opened", "bound", "accept", "exited"}
  /\ running \in BOOLEAN /\ listens \in BOOLEAN
  /\ th \in [Conn -> {"away", "backlog", "reading", "lock", "decode", "called", "flush",
                      "finish", "closing", "caught", "closed"}]
  /\ \A c \in Conn : req[c] \in Requests[c]
  /\ todo \in [Conn -> Seq(Item)]
  /\ wire \in [Conn -> Seq(Item)]
  /\ alive \in [Conn -> BOOLEAN]
  /\ lock \in {{}} \cup {{c} : c \in Conn}
  /\ text \in [Conn -> Seq(Byte)]
  /\ \A c \in Conn : count[c] \in 0 .. req[c].max /\ emitted[c] \in 0 .. Len(text[c])
  /\ got \in [Conn -> Nat]
  /\ unread \in [Conn -> 0 .. Buffer]
  /\ client \in [Conn -> {"reads", "stalls", "gone"}]

\* Byte i + 1 of t belongs to a character that begins at byte i or before it.
Splits(t, i) ==
  \E j \in 1 .. i : t[j] \in Lead /\ \A k \in j + 1 .. i + 1 : t[k] \in Continue

\* What was streamed stays: a stop string that is found later, in whatever tokens it
\* comes, never cuts into text that a client already has; text with a hold-back is
\* streamed in whole characters; and when the request ends, all of the text it ends
\* with has been streamed, also when the client is gone
\* (src/server.cpp:340-351, 381-389, 525; docs/serving.md:18-20).
StreamFaithful ==
  [][\A c \in Conn : th[c] \in {"decode", "flush"} /\ th'[c] \notin {"caught", "closed"} =>
       /\ IsPrefix(SubSeq(text[c], 1, emitted[c]), text'[c])
       /\ emitted'[c] > emitted[c] /\ HoldBack(req[c]) > 0 => ~Splits(text'[c], emitted[c])
       /\ th'[c] = "finish" => emitted'[c] = Len(text'[c])]_vars

\* Bytes of one character are never in two deltas (docs/serving.md:18-19).
NeverSplits ==
  [][\A c \in Conn : emitted'[c] > emitted[c] => ~Splits(text'[c], emitted[c])]_vars

Begins(r) == IF r.path = "chat" THEN <<"sse", "role">> ELSE <<"sse">>

Streams(r) == r.stream /\ ~r.bad /\ r.path # "other"

\* A client that was there all the time has a whole response when its handler has
\* returned, whatever other clients and their threads do: one that came at once, or a
\* stream with all its parts in order, [DONE] behind them, and in its deltas all of
\* the text that the request ended with. When an exception was caught, this is
\* claimed only of a response that was no stream yet: a stream that was begun is
\* OneHead's (src/server.cpp:1042-1094, src/http_server.cpp:128-140;
\* docs/serving.md:17-18).
ResponseWhole ==
  \A c \in Conn : todo[c] = <<>> /\ client[c] # "gone" =>
    /\ th[c] \in {"closing", "caught"} /\ ~Streams(req[c]) => wire[c] = <<"head", "body">>
    /\ th[c] = "closing" /\ Streams(req[c]) =>
         /\ \E deltas \in {<<>>, <<"delta">>} :
              wire[c] = Begins(req[c]) \o deltas \o <<"final", "done">>
         /\ got[c] = Len(text[c])

\* A response has one head: its handler calls send() once, or begins one stream
\* (include/http_server.hpp:23-24, of every response that HttpResponder writes).
OneHead ==
  \A c \in Conn : Cardinality({i \in DOMAIN wire[c] : wire[c][i] \in {"head", "sse"}}) <= 1

\* A request that was read is answered and its connection closed, if no client
\* stops to read for good while it keeps the connection: one that waits for gen_mu_
\* gets it, since a generation ends or fails, and a client that leaves frees the
\* thread that writes to it (src/server.cpp:269, src/http_server.cpp:18-26).
Answered ==
  <>[](main # "exited" /\ \A c \in Conn : client[c] # "stalls") =>
    \A c \in Conn : th[c] = "lock" ~> th[c] = "closed"

=============================================================================
