----------------------------- MODULE MCCpuEngine -----------------------------
(* A small instance of CpuEngine for TLC. *)
EXTENDS CpuEngine

\* An argmax that depends on every token of the stream and on their order.
MCGreedy(s) ==
  LET sum[i \in 0 .. Len(s)] == IF i = 0 THEN 1 ELSE sum[i - 1] * (i + 1) + s[i]
  IN sum[Len(s)] % 2

Ask(p, m, k, s, st, pr) ==
  [prompt |-> p, max |-> m, k |-> k, sampled |-> s, stop |-> st, probe |-> pr]

\* Requests that stay dense, grow sparse or are sparse from the start, plain,
\* speculative and sampled; one that is clamped, one that asks for more tokens than
\* there are blocks, an empty one, a refused one, one that asks for nothing; and a
\* probe that outgrows the context and the pool.
MCRequests ==
  { Ask(<<0>>, 3, 0, FALSE, {}, FALSE),
    Ask(<<1>>, 3, 2, FALSE, {}, FALSE),
    Ask(<<0, 1, 1>>, 9, 2, FALSE, {}, FALSE),
    Ask(<<1, 1, 0, 1, 1, 0>>, 2, 2, FALSE, {1}, FALSE),
    Ask(<<1, 0>>, 1, 0, TRUE, {1}, FALSE),
    Ask(<<0, 1, 1>>, 1, 2, TRUE, {}, FALSE),
    Ask(<<>>, 1, 0, FALSE, {}, FALSE),
    Ask(<<0>>, 0, 0, FALSE, {}, FALSE),
    Ask(<<0, 1, 1>>, 4, 0, FALSE, {}, TRUE) }
=============================================================================
