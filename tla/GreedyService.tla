---------------------------- MODULE GreedyService ----------------------------
(***************************************************************************)
(* What one glmserve engine promises to the callers of Engine::run,        *)
(* whatever the device cache, the draft models and the batching of passes  *)
(* do: requests are served one at a time, every token handed to a greedy   *)
(* request is the model's argmax after the stream so far, and a request    *)
(* ends for one of the reasons the API reports.                            *)
(***************************************************************************)
EXTENDS Integers, Sequences

CONSTANTS
  Token,       \* the vocabulary
  Greedy(_),   \* argmax token of the model after a stream of tokens
  Requests,    \* the requests clients may send
  MaxCtx       \* max_model_len: positions of the device cache

VARIABLES
  busy,        \* is a request being served?
  req,         \* the request being served, or the last one served
  start,       \* how many tokens of the stream are the prompt
  stream,      \* the prompt followed by the tokens handed out so far
  reason       \* why the last request ended ("none" while it runs)

vars == <<busy, req, start, stream, reason>>

\* The tail of a prompt that leaves room for one generated token.
Clamped(prompt) ==
  IF Len(prompt) > MaxCtx - 1
  THEN SubSeq(prompt, Len(prompt) - MaxCtx + 2, Len(prompt))
  ELSE prompt

Emitted == Len(stream) - start

\* Tokens the model may produce next: any under sampling, one under greedy.
Candidates == IF req.sampled THEN Token ELSE {Greedy(stream)}

Init ==
  /\ busy = FALSE
  /\ req \in Requests
  /\ start = 0
  /\ stream = <<>>
  /\ reason = "none"

Accept(r) ==
  /\ ~busy
  /\ busy' = TRUE
  /\ req' = r
  /\ stream' = Clamped(r.prompt)
  /\ start' = Len(Clamped(r.prompt))
  /\ reason' = "none"

\* One token is handed out. Speculation is refused for sampled requests, and a
\* stop token is never handed out. The token may complete a stop string, find
\* the client gone, or be the last the request asked for.
Emit(t) ==
  /\ busy
  /\ Emitted < req.max
  /\ req.sampled => req.k = 0
  /\ t \in Candidates \ req.stop
  /\ stream' = Append(stream, t)
  /\ \/ Emitted + 1 < req.max /\ busy' = TRUE /\ UNCHANGED reason
     \/ busy' = FALSE /\ reason' \in {"stop", "cancel"}
     \/ Emitted + 1 >= req.max /\ busy' = FALSE /\ reason' = "length"
  /\ UNCHANGED <<req, start>>

\* The model's next token is a stop token of the request.
EndOfText ==
  /\ Emitted < req.max
  /\ Candidates \cap req.stop # {}
  /\ reason' = "stop"

\* The request has all its tokens, or the next pass has no room: a speculative
\* group needs up to req.k positions, a plain step one.
OutOfRoom ==
  /\ \/ Emitted >= req.max
     \/ Len(stream) > MaxCtx
     \/ req.k > 0 /\ Len(stream) + req.k > MaxCtx
  /\ reason' = "length"

End ==
  /\ busy
  /\ busy' = FALSE
  /\ EndOfText \/ OutOfRoom \/ reason' = "error"
  /\ UNCHANGED <<req, start, stream>>

Next ==
  \/ \E r \in Requests : Accept(r)
  \/ \E t \in Token : Emit(t)
  \/ End

Spec == Init /\ [][Next]_vars

=============================================================================
