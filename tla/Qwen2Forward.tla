----------------------------- MODULE Qwen2Forward -----------------------------
(***************************************************************************)
(* model/qwen2.cpp: the layers Qwen2Model creates over a checkpoint, the   *)
(* buffers of its single-sequence path, and the calls its two forward      *)
(* passes make, in order: predict(), a token at a time, and                *)
(* forward_batch().                                                        *)
(*                                                                         *)
(* The residual stream is dim_ wide, the FFN hidden_dim_, and q, k and v   *)
(* are biased.                                                             *)
(***************************************************************************)
EXTENDS Dataflow

-----------------------------------------------------------------------------
(* The layers.                                                             *)

\* create_param_layers: rmsnorm_layers_ in the order it is filled.
Norms(c) ==
  PerLayer(LAMBDA l : <<NormWeight("input_layernorm", l, c.dim_)>>)
  \o PerLayer(LAMBDA l : <<NormWeight("post_attention_layernorm", l, c.dim_)>>)
  \o <<NormWeight("norm", LayerNum, c.dim_)>>

\* The projections of layer l.
Projections(c, l) ==
  [wq |-> Linear("q_proj", l, c.dim_, c.dim_, TRUE),
   wk |-> Linear("k_proj", l, c.kv_dim_, c.dim_, TRUE),
   wv |-> Linear("v_proj", l, c.kv_dim_, c.dim_, TRUE),
   wo |-> Linear("o_proj", l, c.dim_, c.dim_, FALSE),
   w1 |-> Linear("gate_proj", l, c.hidden_dim_, c.dim_, FALSE),
   w2 |-> Linear("down_proj", l, c.dim_, c.hidden_dim_, FALSE),
   w3 |-> Linear("up_proj", l, c.hidden_dim_, c.dim_, FALSE)]

\* cls_layer_: the embedding rows when the checkpoint ties them.
ClsLayer(c, tied) ==
  Linear(IF tied THEN "embed_tokens" ELSE "lm_head", LayerNum, c.vocab_size_, c.dim_, FALSE)

FusedQkv(c) ==
  Fusion(<<"wq", "wk", "wv">>, <<c.dim_, c.kv_dim_, c.kv_dim_>>, c.dim_, TRUE)

FusedW13(c) == Fusion(<<"w1", "w3">>, <<c.hidden_dim_, c.hidden_dim_>>, c.dim_, FALSE)

\* The layer vectors Qwen2Layers::to_cuda moves.
ToCuda ==
  {"cls", "embedding", "wq", "wk", "wv", "wo", "w1", "w2", "w3", "rmsnorm"}

-----------------------------------------------------------------------------
(* The single-sequence path.                                               *)

\* init_mem: the norms, attention and w2 share one buffer, and the attention
\* block's result takes the place of the query.
Buffers(c) ==
  LET rms_output == Tensor("rms_output", c.dim_)
      query == Tensor("query", c.dim_)
  IN [kInputEmbeddings |-> Tensor("input_embeddings", c.dim_),
      kOutputRMSNorm |-> rms_output, kOutputMHA |-> rms_output,
      kW2Output |-> rms_output, kFFNRMSNorm |-> rms_output,
      kW1Output |-> Tensor("w1_output", c.hidden_dim_), kW3Output |-> Tensor("w3_output", c.hidden_dim_),
      kQuery |-> query, kAttnOutput |-> query,
      kForwardOutput |-> Tensor("forward_output", c.vocab_size_)]

Embedding(c) == Embed(Buffers(c).kInputEmbeddings)

AttentionRms(c, l, input) == RmsNorm(l, input, Buffers(c).kOutputRMSNorm)

\* K and V are computed in their place in the cache.
AttentionQkv(c, l, pos) ==
  LET b == Buffers(c)
      key == CacheRow("key", l, pos, c.kv_dim_)
      val == CacheRow("value", l, pos, c.kv_dim_)
  IN Matmul("wq", l, b.kOutputRMSNorm, b.kQuery)
     \o Matmul("wk", l, b.kOutputRMSNorm, key)
     \o Matmul("wv", l, b.kOutputRMSNorm, val)
     \o Rope(b.kQuery, key)

AttentionMha(c, l) ==
  LET b == Buffers(c)
  IN Attend(l, b.kQuery, b.kOutputMHA, FALSE) \o Matmul("wo", l, b.kOutputMHA, b.kAttnOutput)

FeedForward(c, l, input) ==
  LET b == Buffers(c)
  IN AddTo(input, b.kAttnOutput, input)
     \o RmsNorm(LayerNum + l, input, b.kFFNRMSNorm)
     \o Matmul("w1", l, b.kFFNRMSNorm, b.kW1Output)
     \o Matmul("w3", l, b.kFFNRMSNorm, b.kW3Output)
     \o SwiGLU(b.kW1Output, b.kW3Output, b.kW1Output)
     \o Matmul("w2", l, b.kW1Output, b.kW2Output)
     \o AddTo(input, b.kW2Output, input)

\* The final norm is in place, so the residual row is gone after it.
ClsLogits(c, input) ==
  RmsNorm(2 * LayerNum, input, input)
  \o Matmul("cls", LayerNum, input, Buffers(c).kForwardOutput)

\* Only the token that feeds sampling gets logits.
Predict(c, input, pos, is_prompt) ==
  PerLayer(LAMBDA l : AttentionRms(c, l, input) \o AttentionQkv(c, l, pos)
                      \o AttentionMha(c, l) \o FeedForward(c, l, input))
  \o (IF is_prompt THEN <<>> ELSE ClsLogits(c, input))

-----------------------------------------------------------------------------
(* forward_batch().  `on' says which device and build the model is on and  *)
(* which of its projections are fused.                                     *)

\* The tensors a pass without a scratch allocates.
PoolTensors(c) ==
  [BatchTensors(c.dim_, c.dim_, c.kv_dim_, c.hidden_dim_)
     EXCEPT !.w13_out = Stacked("w13_out", 2, 2 * c.immediate_dim_)]

\* The norm and what computes q, with the tensors q, k and v are read from.
BatchQuery(c, l, on, t, batch) ==
  LET split == SplitFusedQkv(t, batch)
      after == IF on.fused_qkv THEN split.t ELSE t
  IN [calls |-> RmsNorm(l, t.hidden, t.rms_out)
                \o (IF on.fused_qkv THEN Matmul("fused_qkv", l, t.rms_out, t.qkv_out) \o split.calls
                    ELSE Matmul("wq", l, t.rms_out, t.q_batch)),
      t |-> after]

\* K and V, unless the fused projection had them, RoPE, the write to the cache
\* and attention.
BatchKeyValueCuda(c, l, on, t) ==
  (IF on.fused_qkv THEN <<>>
      ELSE Matmul("wk", l, t.rms_out, t.key_batch) \o Matmul("wv", l, t.rms_out, t.val_batch))
     \o Rope(t.q_batch, t.key_batch)
     \o WriteCache("key", l, t.key_batch) \o WriteCache("value", l, t.val_batch)
     \o Attend(l, t.q_batch, t.mha_out_batch, on.paged)

BatchKeyValueCpu(c, l, on, t) ==
  (IF on.fused_qkv THEN <<>>
      ELSE Matmul("wk", l, t.rms_out, t.key_batch) \o Matmul("wv", l, t.rms_out, t.val_batch))
     \o Rope(t.q_batch, t.key_batch)
     \o WriteCache("key", l, t.key_batch) \o WriteCache("value", l, t.val_batch)
     \o Attend(l, t.q_batch, t.mha_out_batch, FALSE)

BatchOutput(l, t) ==
  Matmul("wo", l, t.mha_out_batch, t.attn_out) \o AddTo(t.hidden, t.attn_out, t.hidden)

BatchFeedForward(c, l, on, t) ==
  RmsNorm(LayerNum + l, t.hidden, t.ffn_norm_out)
  \o (IF on.fused_w13
      THEN Matmul("fused_w13", l, t.ffn_norm_out, t.w13_out)
           \o SwiGLUPair(t.w13_out, t.w1_out, c.immediate_dim_)
      ELSE Matmul("w1", l, t.ffn_norm_out, t.w1_out) \o Matmul("w3", l, t.ffn_norm_out, t.w3_out)
           \o SwiGLU(t.w1_out, t.w3_out, t.w1_out))
  \o Matmul("w2", l, t.w1_out, t.w2_out) \o AddTo(t.hidden, t.w2_out, t.hidden)

\* The head is run on the rows that feed sampling: the leading decode rows, or
\* all of them for a caller that does not split its batch.
BatchLogits(c, pass, t) ==
  IF ~pass.need_logits THEN <<>>
  ELSE Leading(IF pass.num_decode_rows > 0 THEN pass.num_decode_rows ELSE Len(pass.rows))
       \o RmsNorm(2 * LayerNum, t.hidden, t.hidden)
       \o Matmul("cls", LayerNum, t.hidden, Tensor("logits", c.vocab_size_))

ForwardBatch(c, on, pass, tensors) ==
  LET layer(l) ==
        LET q == BatchQuery(c, l, on, tensors, Len(pass.rows))
        IN q.calls
           \o (IF on.cuda THEN BatchKeyValueCuda(c, l, on, q.t) ELSE BatchKeyValueCpu(c, l, on, q.t))
           \o BatchOutput(l, tensors) \o BatchFeedForward(c, l, on, tensors)
  IN Embed(tensors.hidden) \o PerLayer(layer) \o BatchLogits(c, pass, tensors)
=============================================================================
