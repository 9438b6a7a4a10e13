------------------------------- MODULE Dataflow -------------------------------
(***************************************************************************)
(* What the three model files (model/qwen2.cpp, qwen3.cpp, llama3.cpp) are *)
(* written in: tensors over named buffers, projections, and the layer calls *)
(* and kernel launches a forward pass is a sequence of.                    *)
(*                                                                         *)
(* A buffer holds one segment per row, or several where a fused projection *)
(* stacks its outputs.  Widths are numbers, so that a layer can compare    *)
(* them as its check() does.                                               *)
(***************************************************************************)
EXTENDS Integers, SequencesExt

CONSTANT LayerNum

LayerIds == 0 .. LayerNum - 1

\* One entry per layer, flattened.
PerLayer(entries(_)) == FlattenSeq([i \in 1 .. LayerNum |-> entries(i - 1)])

-----------------------------------------------------------------------------
(* Dimensions.                                                             *)

\* generate_model_infos: Qwen3 keeps the residual width in hidden_dim_, the
\* other families have their FFN width there.
ModelInfos(family, hf) ==
  LET head == IF hf.head_dim > 0 THEN hf.head_dim ELSE hf.hidden_size \div hf.heads
  IN [dim_ |-> hf.heads * head, kv_dim_ |-> hf.kv_heads * head, head_size_ |-> head,
      hidden_dim_ |-> IF family = "qwen3" THEN hf.hidden_size ELSE hf.intermediate_size,
      immediate_dim_ |-> hf.intermediate_size, vocab_size_ |-> hf.vocab_size]

\* The shapes in a checkpoint of the Hugging Face layout: out, in.
StoredShape(name, hf) ==
  LET attn == ModelInfos("qwen3", hf).dim_
      kv == ModelInfos("qwen3", hf).kv_dim_
  IN CASE name = "q_proj" -> <<attn, hf.hidden_size>>
       [] name \in {"k_proj", "v_proj"} -> <<kv, hf.hidden_size>>
       [] name = "o_proj" -> <<hf.hidden_size, attn>>
       [] name \in {"gate_proj", "up_proj"} -> <<hf.intermediate_size, hf.hidden_size>>
       [] name = "down_proj" -> <<hf.hidden_size, hf.intermediate_size>>
       [] name \in {"lm_head", "embed_tokens"} -> <<hf.vocab_size, hf.hidden_size>>

-----------------------------------------------------------------------------
(* Tensors.  Row b of a tensor starts at segment at + (b - 1) * step.      *)

Cell(name) == <<name, 0, 0>>

Tensor(name, width) == [cell |-> Cell(name), at |-> 1, step |-> 1, width |-> width]

\* A row of n segments.
Stacked(name, n, width) == [cell |-> Cell(name), at |-> 1, step |-> n, width |-> width]

\* A zero-copy view from the j-th segment on, its rows contiguous.
ViewOf(name, j, width) == [cell |-> Cell(name), at |-> j, step |-> 1, width |-> width]

\* A tensor's place for the row of position pos in the cache, one per layer,
\* half and slot.
CacheCell(half, l, slot) == <<half, l, slot>>

\* slice_kv_cache: one row of the internal cache, which predict() computes
\* its K and V in.
CacheRow(half, l, pos, kv_dim) ==
  [cell |-> CacheCell(half, l, 1), at |-> pos + 1, step |-> 1, width |-> kv_dim]

\* fill_input: the embedding of the prompt's token `pos', or of the only one.
FillInput(family, c, pos, is_prompt) ==
  ViewOf("input_embeddings", IF is_prompt THEN pos + 1 ELSE 1,
         IF family = "qwen3" THEN c.hidden_dim_ ELSE c.dim_)

\* The rows of a batch pass's buffers, BatchScratch::ensure.
BatchTensors(hidden_dim, dim, kv_dim, ffn_dim) ==
  [hidden |-> Tensor("hidden", hidden_dim), rms_out |-> Tensor("rms_out", hidden_dim),
   q_batch |-> Tensor("q_batch", dim), key_batch |-> Tensor("key_batch", kv_dim),
   val_batch |-> Tensor("val_batch", kv_dim),
   qkv_out |-> Stacked("qkv_out", 3, dim + 2 * kv_dim),
   mha_out_batch |-> Tensor("mha_out_batch", dim), attn_out |-> Tensor("attn_out", hidden_dim),
   ffn_norm_out |-> Tensor("ffn_norm_out", hidden_dim),
   w1_out |-> Tensor("w1_out", ffn_dim), w3_out |-> Tensor("w3_out", ffn_dim),
   w13_out |-> Stacked("w13_out", 2, 2 * ffn_dim), w2_out |-> Tensor("w2_out", hidden_dim)]

\* decode_step sizes the scratch, with a view of its own of the dimensions.
ScratchTensors(family, c) ==
  BatchTensors(IF family = "qwen3" THEN c.hidden_dim_ ELSE c.dim_, c.dim_, c.kv_dim_,
               IF family = "qwen3" THEN c.immediate_dim_ ELSE c.hidden_dim_)

-----------------------------------------------------------------------------
(* Layer objects and the calls on them.                                    *)

\* create_linear_layer: the weight of a module and, if asked for, its bias.
Linear(name, l, out, in, has_bias) ==
  [name |-> name, layer |-> l, out |-> out, in |-> in, bias |-> has_bias]

NormWeight(name, l, width) == [name |-> name, layer |-> l, width |-> width]

\* What a build_fused_*_layers() stacks, in the order of its prefixes.
Fusion(targets, widths, in, has_bias) ==
  [targets |-> targets, widths |-> widths, in |-> in, bias |-> has_bias]

\* A norm names its slot in rmsnorm_layers_, from 0, and the width of the rows
\* it goes over; a matmul names the vector of layers it takes its weight from.
Embed(dst) == <<[op |-> "embed", dst |-> dst]>>
RmsNorm(slot, src, dst) ==
  <<[op |-> "norm", slot |-> slot, src |-> src, dst |-> dst, row |-> src.width]>>
HeadNorm(slot, t, head_size) ==
  <<[op |-> "norm", slot |-> slot, src |-> t, dst |-> t, row |-> head_size]>>
Matmul(object, l, src, dst) ==
  <<[op |-> "matmul", object |-> object, layer |-> l, src |-> src, dst |-> dst]>>
Rope(q, k) == <<[op |-> "rope", q |-> q, k |-> k]>>
WriteCache(half, l, src) == <<[op |-> "write", half |-> half, layer |-> l, src |-> src]>>
Attend(l, q, dst, paged) ==
  <<[op |-> "attend", layer |-> l, q |-> q, dst |-> dst, paged |-> paged]>>
AddTo(x, y, dst) == <<[op |-> "add", x |-> x, y |-> y, dst |-> dst]>>
SwiGLU(gate, up, dst) == <<[op |-> "swiglu", gate |-> gate, up |-> up, dst |-> dst]>>
SwiGLUPair(src, dst, ffn_dim) ==
  <<[op |-> "pair", src |-> src, dst |-> dst, ffn |-> ffn_dim]>>
\* From here on the calls are given these rows of the pass.
OnRows(rows) == <<[op |-> "rows", rows |-> rows]>>

-----------------------------------------------------------------------------
(* model.h's helpers.                                                      *)

\* split_fused_qkv_output: views are right for a single row only.
SplitAlwaysViews(t, batch) ==
  [calls |-> <<>>,
   t |-> [t EXCEPT !.q_batch = ViewOf("qkv_out", 1, t.q_batch.width),
                   !.key_batch = ViewOf("qkv_out", 2, t.key_batch.width),
                   !.val_batch = ViewOf("qkv_out", 3, t.val_batch.width)]]

SplitFusedQkv(t, batch) ==
  IF batch = 1
  THEN [calls |-> <<>>,
        t |-> [t EXCEPT !.q_batch = ViewOf("qkv_out", 1, t.q_batch.width),
                        !.key_batch = ViewOf("qkv_out", 2, t.key_batch.width),
                        !.val_batch = ViewOf("qkv_out", 3, t.val_batch.width)]]
  ELSE [calls |-> <<[op |-> "split", src |-> t.qkv_out,
                     dst |-> <<t.q_batch, t.key_batch, t.val_batch>>]>>,
        t |-> t]

\* row_slice_view: the leading rows.
Leading(n) == OnRows([i \in 1 .. n |-> i])
=============================================================================
