----------------------------- MODULE MCScheduler -----------------------------
(* Small schedulers: two-token blocks, and prompts that branch after one.    *)
EXTENDS Scheduler

\* No collisions: a hash is the prefix it stands for.
NoHash == <<>>
PrefixHash(prev, tokens) == Append(prev, tokens)

Answer(prompt, eos) == [prompt |-> prompt, eos |-> eos]

\* Prompts of one to three blocks over two first blocks, one that ends on a
\* block boundary, and the two that are rejected.
MixedRequests ==
  { Answer(<<>>, 1),
    Answer(<<"a">>, 9),
    Answer(<<"a", "a", "b">>, 2),
    Answer(<<"a", "a", "b", "b">>, 9),
    Answer(<<"b", "b", "a", "a", "b">>, 9),
    Answer(<<"a", "a", "b", "b", "a", "a">>, 1) }

\* Prompts and answers that together want more blocks than a small pool has,
\* most of them behind the same two blocks.
ContendingRequests ==
  { Answer(<<"b">>, 9),
    Answer(<<"a", "a", "b", "b", "a">>, 9),
    Answer(<<"a", "a", "b", "b", "a", "b", "b">>, 9) }

\* One block each, and answers of one token and of two, so that they finish in
\* another order than they start in.
ShortRequests == { Answer(<<"a">>, 1), Answer(<<"b">>, 9) }

=============================================================================
