------------------------------ MODULE MCKvQuant ------------------------------
(* Quads of two tokens, groups of four, blocks of eight.                    *)
EXTENDS KvQuant

\* Scores that rise and fall along a sequence.
Zigzag(key) == (Len(key) * 3) % 5

Say(prefix, n) == [i \in 1 .. n |-> IF i <= Len(prefix) THEN prefix[i] ELSE "."]

\* A prompt that goes past a block and one that ends inside a group.
Sayings ==
  { [text |-> Say(<<"a">>, 10), prompt |-> 9], [text |-> Say(<<"b">>, 9), prompt |-> 7] }

Model(layout, quantized, heads, kv_heads, head_size) ==
  [layout |-> layout, quantized |-> quantized, heads |-> heads,
   kv_heads |-> kv_heads, head_size |-> head_size]

Served ==
  { Model("paged", TRUE, 4, 3, 128), Model("paged", TRUE, 2, 1, 64),
    Model("paged", FALSE, 5, 1, 256),
    Model("slots", FALSE, 2, 2, 64), Model("host", FALSE, 2, 2, 64) }
Single == { Model("single", FALSE, 2, 2, 64) }
=============================================================================
