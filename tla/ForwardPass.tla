----------------------------- MODULE ForwardPass -----------------------------
(***************************************************************************)
(* A model from its checkpoint to the logits of one pass: the layers       *)
(* created over the weights, the projections stacked into fused ones and    *)
(* re-pointed at slices of them, the move to the device, and then the calls *)
(* of a forward pass, one at a time, over the buffers they share.          *)
(*                                                                         *)
(* What a buffer's segment holds is a value: which intermediate result of   *)
(* the transformer it is, of which layer and for which token <<slot, pos>>. *)
(* A call on the right operands yields the next such value, and Junk on any *)
(* others: a norm on the wrong weight, a query roped for another position,  *)
(* attention over a row of the cache that is not there yet.                *)
(***************************************************************************)
EXTENDS Dataflow, Kernels

CONSTANTS
  Models,     \* the models: family, device, build, LLAMA_DISABLE_FUSED_QKV,
              \* tied embeddings, the AWQ modules of each layer and their groups
  Passes,     \* the passes: path, rows, row split, need_logits
  HfConfigs   \* the config.json of each family

VARIABLES
  model,      \* the model
  stage,      \* "fused_qkv", "fused_w13", "to_cuda", "ready", "running", "done", "fatal"
  layers,     \* w?_layers_: the projections stacked in a layer's weight, the column
              \* its own start at, and whether it is a view of a fused layer's
  fused,      \* fused_*_layers_: for each, the projections stacked in each layer so far
  enabled,    \* fused_*_enabled_
  on_device,  \* the layer vectors to_cuda has moved
  pass,       \* the pass
  todo,       \* its calls still to make
  given,      \* the rows the calls are given
  mem         \* what the buffers hold, by cell and segment

vars == <<model, stage, layers, fused, enabled, on_device, pass, todo, given, mem>>

Q2 == INSTANCE Qwen2Forward
Q3 == INSTANCE Qwen3Forward
L3 == INSTANCE Llama3Forward

Config == ModelInfos(model.family, HfConfigs[model.family])

\* The family's own version of an operation.
OfFamily(llama3, qwen2, qwen3) ==
  CASE model.family = "llama3" -> llama3
    [] model.family = "qwen2" -> qwen2
    [] model.family = "qwen3" -> qwen3

-----------------------------------------------------------------------------
(* Loading: init_mem().                                                    *)

FusionOf(group) ==
  IF group = "fused_qkv"
  THEN OfFamily(L3!FusedQkv(Config), Q2!FusedQkv(Config), Q3!FusedQkv(Config))
  ELSE OfFamily(L3!FusedW13(Config), Q2!FusedW13(Config), Q3!FusedW13(Config))

Projection(object, l) ==
  OfFamily(L3!Projections(Config, l), Q2!Projections(Config, l), Q3!Projections(Config, l))[object]

\* The columns of a stack of projections.
Columns(parts) == FoldLeft(LAMBDA n, part : n + part.out, 0, parts)

After(group) == IF group = "fused_qkv" THEN "fused_w13" ELSE "to_cuda"

\* The build and the environment decide whether a group is stacked at all; the
\* paired SwiGLU is a CUDA kernel.
Wanted(group) ==
  /\ model.paged
  /\ IF group = "fused_qkv" THEN ~model.no_fused_qkv ELSE model.cuda

SkipGroup ==
  /\ stage \in {"fused_qkv", "fused_w13"}
  /\ ~Wanted(stage)
  /\ stage' = After(stage)
  /\ UNCHANGED <<model, layers, fused, enabled, on_device, pass, todo, given, mem>>

\* is_awq_module
IsAwq(object, l) == Projection(object, l).name \in model.awq[l]

\* create_fused_linear_layer and repoint_layers_to_fused for the next layer.
\* Packed weights are owned by every layer that reads them; a view of dense
\* weights or of biases is not.
Repointed(f, parts, o, view) ==
  LET i == CHOOSE i \in DOMAIN f.targets : f.targets[i] = o
  IN [of |-> parts, at |-> Columns(SubSeq(parts, 1, i - 1)), view |-> view]

FuseLayer ==
  /\ stage \in {"fused_qkv", "fused_w13"}
  /\ Wanted(stage)
  /\ LET f == FusionOf(stage)
         l == Len(fused[stage])
         members == Range(f.targets)
         awq == {o \in members : IsAwq(o, l)}
         parts == [i \in DOMAIN f.targets |->
                     Linear(Projection(f.targets[i], l).name, l, f.widths[i], f.in, f.bias)]
     IN IF awq \notin {{}, members}
        THEN /\ fused' = [fused EXCEPT ![stage] = <<>>]
             /\ stage' = After(stage)
             /\ UNCHANGED <<layers, enabled>>
        ELSE /\ fused' = [fused EXCEPT ![stage] = Append(@, parts)]
             /\ layers' = IF ~model.cuda THEN layers
                          ELSE [layers EXCEPT ![l] =
                                  [o \in DOMAIN @ |->
                                     IF o \in members
                                     THEN Repointed(f, parts, o, awq = {} \/ f.bias) ELSE @[o]]]
             /\ IF l + 1 = LayerNum
                THEN enabled' = enabled \cup {stage} /\ stage' = After(stage)
                ELSE UNCHANGED <<enabled, stage>>
  /\ UNCHANGED <<model, on_device, pass, todo, given, mem>>

ToCuda ==
  /\ stage = "to_cuda"
  /\ on_device' = IF model.cuda THEN OfFamily(L3!ToCuda, Q2!ToCuda, Q3!ToCuda) ELSE {}
  /\ stage' = "ready"
  /\ UNCHANGED <<model, layers, fused, enabled, pass, todo, given, mem>>

\* Whether the storage a projection reads is there: a slice of a fused layer
\* goes with the fused layer.
GroupOf(object) ==
  IF object \in {"wq", "wk", "wv"} THEN "fused_qkv" ELSE "fused_w13"

Live(object, l) == layers[l][object].view => Len(fused[GroupOf(object)]) > l

-----------------------------------------------------------------------------
(* The calls of a pass.                                                    *)

\* Which projections a batch pass takes fused, and where it runs.
On == [cuda |-> model.cuda, paged |-> model.cuda /\ model.paged,
       fused_qkv |-> "fused_qkv" \in enabled, fused_w13 |-> "fused_w13" \in enabled]

\* A prompt token by token, as the single-sequence path is driven: the whole
\* prompt is embedded, and its last token again as the one to sample after.
SinglePass(p) ==
  LET n == Len(p.rows)
      embed == OfFamily(L3!Embedding(Config), Q2!Embedding(Config), Q3!Embedding(Config))
      predict(i, is_prompt) ==
        LET pos == p.rows[i][2]
            input == FillInput(model.family, Config, pos, is_prompt)
        IN OnRows(<<i>>)
           \o (IF is_prompt THEN <<>> ELSE embed)
           \o OfFamily(L3!Predict(Config, input, pos, is_prompt),
                       Q2!Predict(Config, input, pos, is_prompt),
                       Q3!Predict(Config, input, pos, is_prompt))
  IN embed \o FlattenSeq([i \in 1 .. n |-> predict(i, i < n)])

\* forward_batch with the tensors of the pool, or of the scratch decode_step keeps.
BatchPass(p) ==
  LET tensors == IF p.path = "graph" THEN ScratchTensors(model.family, Config)
                 ELSE OfFamily(L3!PoolTensors(Config), Q2!PoolTensors(Config), Q3!PoolTensors(Config))
  IN OfFamily(L3!ForwardBatch(Config, On, p, tensors), Q2!ForwardBatch(Config, On, p, tensors),
              Q3!ForwardBatch(Config, On, p, tensors))

Begin(p) ==
  /\ stage = "ready"
  /\ p.path = "graph" => model.cuda
  /\ pass' = p
  /\ todo' = IF p.path = "single" THEN SinglePass(p) ELSE BatchPass(p)
  /\ given' = [i \in DOMAIN p.rows |-> i]
  /\ stage' = "running"
  /\ UNCHANGED <<model, layers, fused, enabled, on_device, mem>>

-----------------------------------------------------------------------------
(* What a call computes.                                                   *)

Value(what, l, token) == <<what, l, token>>
Junk == Value("junk", 0, <<0, 0>>)

\* What each module of the checkpoint is applied to, and what that gives.
Applied ==
  [input_layernorm |-> <<"x", "attn_in">>, post_attention_layernorm |-> <<"y", "ffn_in">>,
   norm |-> <<"x", "head_in">>, q_norm |-> <<"q", "q_normed">>, k_norm |-> <<"k", "k_normed">>,
   q_proj |-> <<"attn_in", "q">>, k_proj |-> <<"attn_in", "k">>, v_proj |-> <<"attn_in", "value">>,
   o_proj |-> <<"attn", "o">>, gate_proj |-> <<"ffn_in", "gate">>, up_proj |-> <<"ffn_in", "up">>,
   down_proj |-> <<"act", "down">>, lm_head |-> <<"head_in", "logits">>,
   embed_tokens |-> <<"head_in", "logits">>]

Apply(w, v) ==
  IF v[1] = Applied[w.name][1] /\ v[2] = w.layer
  THEN Value(Applied[w.name][2], v[2], v[3]) ELSE Junk

\* Whether a projection was created with the shape and bias the checkpoint has.
AsStored(part) ==
  /\ <<part.out, part.in>> = StoredShape(part.name, HfConfigs[model.family])
  /\ part.bias = (model.family = "qwen2" /\ part.name \in {"q_proj", "k_proj", "v_proj"})
  /\ part.name = "embed_tokens" => model.tied
  /\ part.name = "lm_head" => ~model.tied

\* Binary operations on two values of one layer and token.
Combined(x, y, from, to) ==
  IF x[1] = from[1] /\ y[1] = from[2] /\ x[2] = y[2] /\ x[3] = y[3] THEN Value(to, x[2], x[3])
  ELSE Junk

Sum(x, y) ==
  IF x[1] = "x" THEN Combined(x, y, <<"x", "o">>, "y")
  ELSE LET x1 == Combined(x, y, <<"y", "down">>, "x") IN <<x1[1], x1[2] + 1, x1[3]>>

Roped(v, half, token) ==
  LET ready == IF half = "query" THEN OfFamily("q", "q", "q_normed") ELSE OfFamily("k", "k", "k_normed")
  IN IF v[1] = ready /\ v[3] = token THEN Value(half, v[2], token) ELSE Junk

-----------------------------------------------------------------------------
(* One call.                                                               *)

Rows == DOMAIN given
Token(b) == pass.rows[given[b]]

Segment(t, b) == t.at + (b - 1) * t.step

\* A buffer not yet written holds what an earlier pass left; a cache, the rows
\* of the tokens that came before.
ReadCell(cell, i) ==
  IF <<cell, i>> \in DOMAIN mem THEN mem[<<cell, i>>]
  ELSE IF cell[1] \in {"key", "value"} /\ <<cell[3], i - 1>> \notin Range(pass.rows)
       THEN Value(cell[1], cell[2], <<cell[3], i - 1>>)
  ELSE Junk

Read(t, b) == ReadCell(t.cell, Segment(t, b))

\* The cells a call writes: n segments in each of its rows.
Segments(t, n) ==
  {<<t.cell, Segment(t, b) + j>> : b \in Rows, j \in 0 .. n - 1}

\* The writes of v(b, j) to segment j of every row b.
Writes(t, n, v(_, _)) ==
  LET row(k) == CHOOSE b \in Rows : k[2] \in Segment(t, b) .. Segment(t, b) + n - 1
  IN [k \in Segments(t, n) |->
        v(row(k), k[2] - Segment(t, row(k)) + 1)]

\* Attention of a row: over the cached rows up to its own.
Attention(l, t, b) ==
  LET token == Token(b)
      cached(half) == \A p \in 0 .. token[2] :
                        ReadCell(CacheCell(half, l, token[1]), p + 1) = Value(half, l, <<token[1], p>>)
  IN IF Read(t, b) = Value("query", l, token) /\ cached("key") /\ cached("value")
     THEN Value("attn", l, token) ELSE Junk

\* paged_attention_dispatch: with prefill rows in the batch the decode kernel
\* serves the leading rows and the prefill kernel the runs of the row map;
\* without, the whole batch is decode rows.
Attended(c) ==
  IF c.paged /\ pass.runs # {}
  THEN 1 .. pass.num_decode_rows \cup UNION {r[1] .. r[1] + r[2] - 1 : r \in pass.runs}
  ELSE Rows

\* A layer's weight: what is stacked in it, and the first column the layer takes.
Weight(c) ==
  CASE c.object \in {"fused_qkv", "fused_w13"} -> [of |-> fused[c.object][c.layer + 1], at |-> 0]
    [] c.object = "cls" -> [of |-> <<OfFamily(L3!ClsLayer(Config, model.tied),
                                              Q2!ClsLayer(Config, model.tied),
                                              Q3!ClsLayer(Config, model.tied))>>, at |-> 0]
    [] OTHER -> layers[c.layer][c.object]

\* dim0_
OutFeatures(c) ==
  IF c.object \in DOMAIN layers[0] THEN Projection(c.object, c.layer).out ELSE Columns(Weight(c).of)

\* The projections that begin in the layer's columns.
Parts(c) ==
  LET w == Weight(c)
      start(i) == Columns(SubSeq(w.of, 1, i - 1))
      first == CHOOSE i \in DOMAIN w.of : start(i) >= w.at
      last == CHOOSE i \in DOMAIN w.of : start(i) < w.at + OutFeatures(c) /\ start(i + 1) >= w.at + OutFeatures(c)
  IN SubSeq(w.of, first, last)

\* The product a layer asks its kernel for, and whether its weight is packed.
Product(c) ==
  [K |-> c.src.width, N |-> OutFeatures(c), out_offset |-> Weight(c).at,
   total_out |-> Columns(Weight(c).of), group_size |-> model.group_size, batch |-> Len(given)]

Packed(c) ==
  LET part == Weight(c).of[1]
  IN part.layer \in LayerIds /\ part.name \in model.awq[part.layer]

NormOf(c) ==
  OfFamily(L3!Norms(Config), Q2!Norms(Config), Q3!Norms(Config))[c.slot + 1]

\* The layers' check(): the shapes agree and the weights are where they run.
EmbeddingChecks(c) ==
  /\ c.dst.width = StoredShape("embed_tokens", HfConfigs[model.family])[2]
  /\ model.cuda => "embedding" \in on_device

RmsNormChecks(c) == c.row = NormOf(c).width /\ (model.cuda => "rmsnorm" \in on_device)

MatmulChecks(c) ==
  /\ \A part \in Range(Parts(c)) : part.in = c.src.width
  /\ OutFeatures(c) = c.dst.width
  /\ Packed(c) => AwqChecks(Product(c))
  /\ model.cuda => c.object \in on_device \cup {"fused_qkv", "fused_w13"}

AddChecks(c) == c.x.width = c.y.width /\ c.x.width = c.dst.width

SwiGLUChecks(c) == c.gate.width = c.up.width /\ c.gate.width = c.dst.width

Checks(c) ==
  CASE c.op = "embed" -> EmbeddingChecks(c)
    [] c.op = "norm" -> RmsNormChecks(c)
    [] c.op = "matmul" -> MatmulChecks(c)
    [] c.op = "add" -> AddChecks(c)
    [] c.op = "swiglu" -> SwiGLUChecks(c)
    [] OTHER -> TRUE

\* What the call writes.
MatmulWrites(c) ==
  LET parts == Parts(c)
      live == c.object \in DOMAIN layers[0] => Live(c.object, c.layer)
      exact == IF Packed(c) THEN AwqProduct(Product(c), model) ELSE DenseProduct(Product(c))
  IN Writes(c.dst, Len(parts), LAMBDA b, j :
       IF live /\ exact /\ AsStored(parts[j]) THEN Apply(parts[j], Read(c.src, b)) ELSE Junk)

\* The norm goes over the segment, or over the heads in it, with one weight.
NormWrites(c) ==
  Writes(c.dst, 1, LAMBDA b, j :
    IF c.dst.width = c.src.width THEN Apply(NormOf(c), Read(c.src, b)) ELSE Junk)

SplitWrites(c) ==
  LET block(i) == Writes(c.dst[i], 1, LAMBDA b, j : ReadCell(c.src.cell, Segment(c.src, b) + i - 1))
  IN block(1) @@ block(2) @@ block(3)

RopeWrites(c) ==
  Writes(c.q, 1, LAMBDA b, j : Roped(Read(c.q, b), "query", Token(b)))
  @@ Writes(c.k, 1, LAMBDA b, j : Roped(Read(c.k, b), "key", Token(b)))

CacheWrites(c) ==
  LET place(b) == <<CacheCell(c.half, c.layer, Token(b)[1]), Token(b)[2] + 1>>
  IN [k \in {place(b) : b \in Rows} |-> Read(c.src, CHOOSE b \in Rows : place(b) = k)]

AttendWrites(c) ==
  Writes(c.dst, 1, LAMBDA b, j :
    IF b \in Attended(c) THEN Attention(c.layer, c.q, b) ELSE Read(c.dst, b))

\* swiglu_kernel_cu_fused: gate and up are the halves of a row.
PairWrites(c) ==
  Writes(c.dst, 1, LAMBDA b, j :
    IF c.src.width = 2 * c.ffn /\ c.dst.width = c.ffn
    THEN Combined(Read(c.src, b), ReadCell(c.src.cell, Segment(c.src, b) + 1), <<"gate", "up">>, "act")
    ELSE Junk)

Written(c) ==
  CASE c.op = "embed" -> Writes(c.dst, 1, LAMBDA b, j : Value("x", 0, Token(b)))
    [] c.op = "norm" -> NormWrites(c)
    [] c.op = "matmul" -> MatmulWrites(c)
    [] c.op = "split" -> SplitWrites(c)
    [] c.op = "rope" -> RopeWrites(c)
    [] c.op = "write" -> CacheWrites(c)
    [] c.op = "attend" -> AttendWrites(c)
    [] c.op = "add" -> Writes(c.dst, 1, LAMBDA b, j :
                         IF AddsAll(Len(given) * c.dst.width) THEN Sum(Read(c.x, b), Read(c.y, b))
                         ELSE Junk)
    [] c.op = "swiglu" -> Writes(c.dst, 1, LAMBDA b, j :
                            Combined(Read(c.gate, b), Read(c.up, b), <<"gate", "up">>, "act"))
    [] c.op = "pair" -> PairWrites(c)

\* STATUS_CHECK: a layer that refuses its operands ends the program.
Launch ==
  /\ stage = "running" /\ todo # <<>>
  /\ LET c == Head(todo)
     IN CASE c.op = "rows" -> given' = c.rows /\ UNCHANGED <<mem, stage>>
          [] c.op # "rows" /\ Checks(c) ->
               (\E w \in {Written(c)} : mem' = w @@ mem) /\ UNCHANGED <<given, stage>>
          [] OTHER -> stage' = "fatal" /\ UNCHANGED <<mem, given>>
  /\ todo' = Tail(todo)
  /\ UNCHANGED <<model, layers, fused, enabled, on_device, pass>>

Finish ==
  /\ stage = "running" /\ todo = <<>>
  /\ stage' = "done"
  /\ UNCHANGED <<model, layers, fused, enabled, on_device, pass, todo, given, mem>>

Init ==
  /\ model \in Models
  /\ stage = "fused_qkv"
  /\ layers = [l \in LayerIds |-> [o \in {"wq", "wk", "wv", "wo", "w1", "w2", "w3"} |->
                 [of |-> <<Projection(o, l)>>, at |-> 0, view |-> FALSE]]]
  /\ fused = [g \in {"fused_qkv", "fused_w13"} |-> <<>>]
  /\ enabled = {}
  /\ on_device = {}
  /\ pass = [path |-> "none", rows |-> <<>>]
  /\ todo = <<>>
  /\ given = <<>>
  /\ mem = <<>>

Next == SkipGroup \/ FuseLayer \/ ToCuda \/ (\E p \in Passes : Begin(p)) \/ Launch \/ Finish

Spec == Init /\ [][Next]_vars

-----------------------------------------------------------------------------
(* What the pass promises.                                                 *)

\* No layer refuses its operands, and at the end of a pass every row sampling
\* reads holds the logits of its own token: through every shared, re-used and
\* aliased buffer, zero-copy view, fused or sliced projection and cut batch
\* of the family's pass.
LogitsRight ==
  /\ stage # "fatal"
  /\ stage = "done" =>
       \A b \in pass.sampled :
         IF pass.path = "single"
         THEN ReadCell(Cell("forward_output"), 1) = Value("logits", LayerNum, pass.rows[b])
         ELSE ReadCell(Cell("logits"), b) = Value("logits", LayerNum, pass.rows[b])

\* A pass leaves, at every layer, the keys and values of its own tokens in
\* their places in the cache, and no other row of the cache changed.
CacheRight ==
  stage = "done" =>
    \A l \in LayerIds, half \in {"key", "value"} :
      /\ \A token \in Range(pass.rows) :
           ReadCell(CacheCell(half, l, token[1]), token[2] + 1) = Value(half, l, token)
      /\ \A k \in DOMAIN mem :
           k[1][1] = half /\ k[1][2] = l => <<k[1][3], k[2] - 1>> \in Range(pass.rows)

\* Once a model is loaded, the storage every projection reads is there.
ProjectionsLive ==
  stage \notin {"fused_qkv", "fused_w13"} =>
    \A l \in LayerIds : \A o \in DOMAIN layers[l] : Live(o, l)
=============================================================================
