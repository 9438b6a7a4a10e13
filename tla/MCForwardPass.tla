---------------------------- MODULE MCForwardPass ----------------------------
(***************************************************************************)
(* Every family on every build, and passes of each kind the runtime makes. *)
(***************************************************************************)
EXTENDS ForwardPass

Layers2 == 2

\* Distinct widths, so that no buffer fits by accident; Qwen3's heads are
\* together wider than the residual stream.
Hf == [llama3 |-> [hidden_size |-> 16, intermediate_size |-> 20, heads |-> 4, kv_heads |-> 2,
                   head_dim |-> 0, vocab_size |-> 30],
       qwen2 |-> [hidden_size |-> 16, intermediate_size |-> 20, heads |-> 4, kv_heads |-> 2,
                  head_dim |-> 0, vocab_size |-> 30],
       qwen3 |-> [hidden_size |-> 16, intermediate_size |-> 20, heads |-> 4, kv_heads |-> 2,
                  head_dim |-> 6, vocab_size |-> 30]]

Qkv == {"q_proj", "k_proj", "v_proj"}
GateUp == {"gate_proj", "up_proj"}

\* Devices with Tensor Cores, without, and none.
Model(awq) ==
  { m \in [family : {"llama3", "qwen2", "qwen3"}, cuda : BOOLEAN, cc_major : {7, 8},
           paged : BOOLEAN, no_fused_qkv : BOOLEAN, tied : BOOLEAN, awq : awq,
           group_size : {4}] : m.cc_major = 8 => m.cuda }

\* At least as many slices for few rows as for many, at most four.
SplitLimits == [few |-> 3, many |-> 2, most |-> 4]

\* No group of a layer mixes packed and dense modules.
Uniform == Model([LayerIds -> {{}, Qkv, Qkv \cup GateUp}])

\* Some modules left out of the quantization of a layer.
Mixed == Model({a \in [LayerIds -> {{}, Qkv \cup GateUp, {"q_proj", "k_proj"}, {"up_proj"}}] :
                  \E l \in LayerIds : a[l] # {}})

Single(rows) ==
  [path |-> "single", rows |-> rows, num_decode_rows |-> 0, runs |-> {},
   need_logits |-> TRUE, sampled |-> {Len(rows)}]
Decode(path, rows) ==
  [path |-> path, rows |-> rows, num_decode_rows |-> Len(rows), runs |-> {},
   need_logits |-> TRUE, sampled |-> DOMAIN rows]

\* A prompt and a token of the single-sequence path; decode steps of one and
\* two rows, direct and through the graphs' scratch; a chunk of prompt alone,
\* and beside a decode row; a caller that does not split its batch,
\* which fills more than one block of rows.
Kinds ==
  {Single(<<<<1, 0>>, <<1, 1>>>>), Single(<<<<1, 2>>>>)}
  \cup {Decode(path, rows) : path \in {"direct", "graph"},
                             rows \in {<<<<1, 3>>>>, <<<<2, 1>>, <<1, 3>>>>}}
  \cup {[path |-> "direct", rows |-> <<<<1, 0>>, <<1, 1>>>>, num_decode_rows |-> 0,
         runs |-> {<<1, 2>>}, need_logits |-> FALSE, sampled |-> {}],
        [path |-> "direct", rows |-> <<<<1, 3>>, <<2, 1>>, <<2, 2>>>>, num_decode_rows |-> 1,
         runs |-> {<<2, 2>>}, need_logits |-> TRUE, sampled |-> {1}],
        [path |-> "direct", rows |-> [i \in 1 .. 7 |-> <<1, i>>], num_decode_rows |-> 0,
         runs |-> {}, need_logits |-> TRUE, sampled |-> 1 .. 7]}
=============================================================================
