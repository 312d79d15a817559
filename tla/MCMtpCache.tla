----------------------------- MODULE MCMtpCache -----------------------------
(* A small instance of MtpCache, the engine with its real drafters, for TLC. *)
EXTENDS MtpCache

\* An argmax that depends on every token of the stream and on their order, and
\* repeats itself often enough for the lookup to find matches.
MCGreedy(s) ==
  LET sum[i \in 0 .. Len(s)] == IF i = 0 THEN 0 ELSE (2 * sum[i - 1] + s[i] + 1) % 7
  IN IF sum[Len(s)] <= 2 THEN 1 ELSE 0

Ask(p, m, k, s, st) == [prompt |-> p, max |-> m, k |-> k, sampled |-> s, stop |-> st]

\* Prompts that share prefixes with each other and with what is generated after them.
\* Speculative requests that draft from the block and from the lookup, within the
\* group and past it, prefilled in one chunk and in several, and one that runs out
\* of room, its prompt being longer than the context; a plain one that leaves trunk
\* rows without slots to reuse and fills the context; a sampled one; one that asks for
\* no token; one that is refused; and one without a prompt.
MCRequests ==
  { Ask(<<0, 1>>, 3, 3, FALSE, {}),
    Ask(<<0, 1, 0>>, 1, 2, FALSE, {}),
    Ask(<<0, 1, 0>>, 2, 1, FALSE, {0}),
    Ask(<<0, 1, 1, 0, 1, 0>>, 9, 2, FALSE, {}),
    Ask(<<0, 1, 1>>, 9, 0, FALSE, {}),
    Ask(<<0>>, 2, 0, TRUE, {1}),
    Ask(<<0, 1>>, 0, 0, FALSE, {}),
    Ask(<<0, 1>>, 1, 1, TRUE, {}),
    Ask(<<>>, 1, 0, FALSE, {}) }
=============================================================================
