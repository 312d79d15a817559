----------------------------- MODULE MCPipeline -----------------------------
(* Small launches of Pipeline for TLC. *)
EXTENDS Pipeline

\* Logits with ties between the two halves of the vocabulary.
MCScore(s, t) ==
  LET sum[i \in 0 .. Len(s)] == IF i = 0 THEN 0 ELSE sum[i - 1] + i * (s[i] + 1)
  IN IF (t + sum[Len(s)]) % 3 = 0 THEN 2 ELSE t % 2

\* A dense pass, then four sparse ones: stages that disagree on a mask are a pass apart
\* only then.
MCTokens == <<1, 2, 0, 1, 0>>

Launch(n, tp, pp, types, keys, mode) ==
  [mode |-> mode, form |-> "gguf", inter |-> 8, unit |-> 2, head |-> TRUE,
   layers |-> n, tp |-> tp, pp |-> pp, keys |-> keys,
   types |-> [l \in 0 .. n - 1 |-> IF types = <<>> THEN "none" ELSE types[l + 1]]]

Weights(c, form, inter) == [c EXCEPT !.form = form, !.inter = inter, !.head = form = "gguf"]

F == "full"
S == "shared"

\* Tensor-parallel only; two stages that split a group of shared layers, or not;
\* three stages, the middle one without an indexer; an empty last stage; a GGUF
\* checkpoint without types; a split with a negative stage; a checkpoint that says
\* "full" but has no indexer weights; two that generate. Weights of all three forms,
\* in slices of two units, of one, and of a part of one, which only f32 allows.
MCConfigs ==
  { Weights(Launch(2, 2, 1, <<F, S>>, {0}, "given"), "int4", 8),
    Weights(Launch(1, 2, 1, <<F>>, {0}, "given"), "int4", 6),
    Weights(Launch(1, 2, 1, <<F>>, {0}, "given"), "gguf", 6),
    Weights(Launch(1, 2, 1, <<F>>, {0}, "given"), "f32", 5),
    Launch(4, 2, 2, <<F, S, S, F>>, {0, 3}, "given"),
    Weights(Launch(3, 2, 2, <<F, S, F>>, {0, 2}, "given"), "f32", 6),
    Launch(3, 1, 3, <<F, S, S>>, {0}, "given"),
    Launch(4, 1, 3, <<F, S, F, S>>, {0, 2}, "given"),
    Launch(3, 1, 2, <<>>, {0, 1, 2}, "given"),
    Launch(5, 1, 4, <<F, S, S, F, S>>, {0, 3}, "given"),
    Launch(4, 1, 2, <<F, S, S, F>>, {}, "given"),
    Weights(Launch(2, 2, 1, <<F, S>>, {0}, "greedy"), "gguf", 4),
    Launch(1, 2, 1, <<F>>, {0}, "sampled") }

\* The stages of a launch that generates.
MCGenerate == {Launch(2, 2, 2, <<F, S>>, {0}, "greedy")}
=============================================================================
