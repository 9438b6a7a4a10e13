------------------------------- MODULE KvQuant -------------------------------
(***************************************************************************)
(* One layer's KV cache on the device and the kernels that write and read  *)
(* it (kernels/cuda/mha_kernel_bf16.cu), under the batches the scheduler   *)
(* and the perplexity driver hand to forward_batch.                        *)
(*                                                                         *)
(* With an S4 cache a token's V is quantized at once, but its K only with  *)
(* its whole group: until then it waits in a ring of bf16 rows that each   *)
(* sequence has to itself.  A step scores a batch of rows: one row per     *)
(* decoding sequence, then a run of rows per prefill chunk.                *)
(*                                                                         *)
(* Which blocks a sequence gets is the block allocator's business          *)
(* (BlockAllocator, Scheduler); here it gets any that nobody has.          *)
(***************************************************************************)
EXTENDS PagedAttention

CONSTANTS
  BlockSize, GroupSize,  \* tokens per block and per quantized group
  MaxSlots,              \* rows of the residual window: max_batch
  Blocks,
  MaxLen,                \* max_seq_len
  Texts,                 \* what sequences say: prompt and answer, and the prompt's length
  Chunks,                \* bound: the chunk sizes to choose from
  Configs                \* cache layout, heads and head size of the model

ASSUME QuantSizes ==
  /\ GroupSize \in Nat \ {0} /\ GroupSize % Quad = 0 /\ BlockSize % GroupSize = 0
  /\ PrefillTile % Quad = 0

VARIABLES
  config,    \* the model served, fixed
  seqs,      \* per slot: the sequence in it
  k_pool,    \* K by block and offset
  v_pool,    \* V by block and offset
  residual,  \* K by slot and ring entry
  batch      \* the batch of the last forward pass, while the cache is as it left it

vars == <<config, seqs, k_pool, v_pool, residual, batch>>

Slots == 0 .. MaxSlots - 1
Offsets == 0 .. BlockSize - 1
Ring == 0 .. GroupSize - 1

Blank == <<>>
\* What two rows of one launch wrote at once.
Torn == <<"torn">>

Idle == [text |-> <<>>, prompt |-> 0, done |-> 0, table |-> <<>>]
NoBatch == [rows |-> <<>>, decode |-> 0, starts |-> <<0>>]

TypeOK ==
  /\ config \in Configs
  /\ \A s \in Slots : Len(seqs[s].table) * BlockSize >= seqs[s].done
  /\ batch.decode <= Len(batch.rows)

Init ==
  /\ config \in Configs
  /\ seqs = [s \in Slots |-> Idle]
  /\ k_pool = [b \in Blocks |-> [o \in Offsets |-> Blank]]
  /\ v_pool = [b \in Blocks |-> [o \in Offsets |-> Blank]]
  /\ residual = [s \in Slots |-> [r \in Ring |-> Blank]]
  /\ batch = NoBatch

-----------------------------------------------------------------------------
(* Tokens and where they live.                                             *)

\* The K and the V of a position depend on the tokens up to it.
Key(text, pos) == SubSeq(text, 1, pos + 1)

\* The cell of a position: a block of the table, and an offset in it.
BlockOf(slot, pos) == seqs[slot].table[pos \div BlockSize + 1]
OffsetOf(pos) == pos % BlockSize

InUse == UNION { Range(seqs[s].table) : s \in Slots }

\* A sequence moves into a free slot, mounting the blocks that hold the
\* beginning of its prompt, if another sequence has them.
Admit(slot, t, donor, mounted) ==
  /\ seqs[slot] = Idle
  /\ mounted * BlockSize < t.prompt
  /\ mounted * BlockSize <= seqs[donor].done
  /\ mounted > 0 => SubSeq(t.text, 1, mounted * BlockSize)
                      = SubSeq(seqs[donor].text, 1, mounted * BlockSize)
  /\ IF mounted = 0 THEN donor = slot ELSE config.layout = "paged"
  /\ seqs' = [seqs EXCEPT ![slot] =
                [text |-> t.text, prompt |-> t.prompt, done |-> mounted * BlockSize,
                 table |-> SubSeq(seqs[donor].table, 1, mounted)]]
  /\ batch' = NoBatch
  /\ UNCHANGED <<config, k_pool, v_pool, residual>>

\* Blocks and ring entries that change hands hold nothing anyone may read.
Wipe(slot, freed) ==
  /\ k_pool' = [b \in Blocks |-> IF b \in freed THEN [o \in Offsets |-> Blank] ELSE k_pool[b]]
  /\ v_pool' = [b \in Blocks |-> IF b \in freed THEN [o \in Offsets |-> Blank] ELSE v_pool[b]]
  /\ residual' = [residual EXCEPT ![slot] = [r \in Ring |-> Blank]]
  /\ batch' = NoBatch
  /\ UNCHANGED config

OthersUse(slot) == UNION { Range(seqs[s].table) : s \in Slots \ {slot} }

\* Preemption keeps whole blocks; the tokens behind them are prefilled again.
Cut(slot, keep) ==
  /\ config.layout = "paged"
  /\ keep * BlockSize < seqs[slot].done
  /\ seqs' = [seqs EXCEPT ![slot].table = SubSeq(@, 1, keep),
                          ![slot].done = keep * BlockSize]
  /\ Wipe(slot, Range(SubSeq(seqs[slot].table, keep + 1, Len(seqs[slot].table)))
                  \ OthersUse(slot))

\* The sequence is done and its slot is free.
Retire(slot) ==
  /\ seqs[slot] # Idle /\ seqs[slot].done >= seqs[slot].prompt
  /\ seqs' = [seqs EXCEPT ![slot] = Idle]
  /\ Wipe(slot, Range(seqs[slot].table) \ OthersUse(slot))

\* sync_kv_quant_state: how much of the K the scheduler takes to be packed.  Past
\* the prompt it counts every generated token, one more than have been scored.
KQuantizedTokens(s) ==
  LET kv_len == IF s.done >= s.prompt THEN s.done + 1 ELSE s.done
  IN (kv_len \div GroupSize) * GroupSize

-----------------------------------------------------------------------------
(* The rows of a batch count from 1; `starts' is seq_row_start, so run s    *)
(* of the prefill rows is starts[s] + 1 .. starts[s + 1].                   *)

Rows == DOMAIN batch'.rows
Pos(b) == batch'.rows[b].pos
SlotOf(b) == batch'.rows[b].slot
SourceKey(b) == Key(seqs'[SlotOf(b)].text, Pos(b))
Cell(b, p) == <<seqs'[SlotOf(b)].table[p \div BlockSize + 1], OffsetOf(p)>>

RunRows(bt, s) == bt.starts[s] + 1 .. bt.starts[s + 1]
Runs(bt) == 1 .. Len(bt.starts) - 1
RunsOf(bt, b) == { s \in Runs(bt) : b > bt.decode /\ b \in RunRows(bt, s) }

\* Mutant: a row only knows its own position.
OwnPos(bt, b) == bt.rows[b].pos

\* The last position a row's sequence has in this batch.
LastPos(bt, b) ==
  IF RunsOf(bt, b) = {} THEN bt.rows[b].pos
                        ELSE bt.rows[bt.starts[(CHOOSE s \in RunsOf(bt, b) : TRUE) + 1]].pos

WholeGroups(n) == (n \div GroupSize) * GroupSize

\* value_at: the rows of this batch a group's K may come from: the completing
\* row itself, the run it is in, and for a decode row a run of its own sequence.
FreshRows(b) ==
  {b} \cup UNION { RunRows(batch', s) :
                     s \in { s \in Runs(batch') :
                               \/ s \in RunsOf(batch', b)
                               \/ /\ b <= batch'.decode
                                  /\ SlotOf(batch'.starts[s] + 1) = SlotOf(b) } }

GroupKey(b, p) ==
  LET fresh == { r \in FreshRows(b) : Pos(r) = p }
  IN IF fresh # {} THEN SourceKey(CHOOSE r \in fresh : p = Pos(b) => r = b)
                   ELSE residual[SlotOf(b)][p % GroupSize]

\* A launch stores keys to places; where rows disagree, either may win.
Stored(writes, place, old) ==
  LET here == { w.key : w \in { w \in writes : w.place = place } }
  IN IF here = {} THEN old
     ELSE IF Cardinality(here) = 1 THEN CHOOSE k \in here : TRUE ELSE Torn

AllStored(writes, pool) ==
  [i \in DOMAIN pool |-> [j \in DOMAIN pool[i] |-> Stored(writes, <<i, j>>, pool[i][j])]]

\* paged_kv_group_quantize_kernel: a row that completes a group packs it.
GroupWrites ==
  UNION { { [place |-> Cell(b, p), key |-> GroupKey(b, p)] :
              p \in Pos(b) + 1 - GroupSize .. Pos(b) } :
            b \in { b \in Rows : (Pos(b) + 1) % GroupSize = 0 } }

\* paged_kv_residual_scatter_kernel: the tokens of the last, incomplete group.
RingWrites ==
  { [place |-> <<SlotOf(b), Pos(b) % GroupSize>>, key |-> SourceKey(b)] :
      b \in { b \in Rows : Pos(b) >= WholeGroups(LastPos(batch', b) + 1) } }

\* paged_kv_scatter: a row per token, through the block table.  V is quantized
\* as it is written, and a bf16 K is written the same way.
RowWrites == { [place |-> Cell(b, Pos(b)), key |-> SourceKey(b)] : b \in Rows }

\* forward_batch, per layer: the quantizer runs before the ring is written, so it
\* still reads the tokens of earlier steps there.  (A quantifier over one set of
\* writes makes TLC evaluate it once.)
WriteKV ==
  /\ \E rows \in {RowWrites} :
       /\ v_pool' = AllStored(rows, v_pool)
       /\ ~config.quantized => k_pool' = AllStored(rows, k_pool) /\ UNCHANGED residual
  /\ config.quantized =>
       /\ \E groups \in {GroupWrites} : k_pool' = AllStored(groups, k_pool)
       /\ \E tail \in {RingWrites} : residual' = AllStored(tail, residual)

Ascending(set) ==
  [i \in 1 .. Cardinality(set) |->
     CHOOSE x \in set : Cardinality({ y \in set : y < x }) = i - 1]

\* Blocks for tokens up to n, lowest free ones first.
Grown(slot, n, taken) ==
  LET need == CeilOver(n, BlockSize) - Len(seqs[slot].table)
      free == Ascending(Blocks \ taken)
  IN IF need <= 0 THEN seqs[slot].table
                  ELSE seqs[slot].table \o SubSeq(free, 1, need)

Chunk(slot, n) ==
  [i \in 1 .. n |-> [slot |-> slot, pos |-> seqs[slot].done + i - 1]]

Decoding(slot) == seqs[slot] # Idle /\ seqs[slot].done >= seqs[slot].prompt
Prefilling(slot) == seqs[slot].done < seqs[slot].prompt

\* The batch of a step: decode rows in front, then the chunks.
BatchOf(decoding, chunks) ==
  LET decode == FlattenSeq([i \in DOMAIN decoding |-> Chunk(decoding[i], 1)])
      runs == [i \in DOMAIN chunks |-> Chunk(chunks[i].slot, chunks[i].n)]
  IN [rows |-> decode \o FlattenSeq(runs), decode |-> Len(decoding),
      starts |-> [i \in 1 .. Len(chunks) + 1 |->
                    Len(decode) + Len(FlattenSeq(SubSeq(runs, 1, i - 1)))]]

Advance(n) ==
  /\ \A s \in Slots : seqs[s].done + n[s] <= Len(seqs[s].text)
  /\ seqs' = [s \in Slots |->
       [seqs[s] EXCEPT
          !.done = @ + n[s],
          !.table = Grown(s, seqs[s].done + n[s],
                          InUse \cup UNION { Range(Grown(t, seqs[t].done + n[t], InUse)) :
                                               t \in { t \in Slots : t < s } })]]

\* A step of the scheduler: some sequences decode a token, others a chunk.
Step(n) ==
  /\ \A s \in Slots : \/ n[s] = 0
                      \/ Decoding(s) /\ n[s] = 1
                      \/ Prefilling(s) /\ n[s] <= seqs[s].prompt - seqs[s].done
  /\ \E s \in Slots : n[s] > 0
  /\ LET Chosen(p(_)) == Ascending({ s \in Slots : n[s] > 0 /\ p(s) })
         prefill == Chosen(Prefilling)
     IN batch' = BatchOf(Chosen(Decoding),
                         [i \in DOMAIN prefill |-> [slot |-> prefill[i], n |-> n[prefill[i]]]])
  \* predict() has one sequence, and scores one position at a time.
  /\ config.layout = "single" => \A s \in Slots : n[s] = IF s = 0 THEN 1 ELSE 0
  /\ Advance(n)
  /\ WriteKV
  /\ UNCHANGED config

\* The perplexity driver scores a chunk by one decode row, at its last
\* position, in front of a run with the others.
ScoreChunk(slot, n) ==
  /\ config.layout = "paged" /\ seqs[slot] # Idle /\ n > 1
  /\ LET chunk == Chunk(slot, n)
     IN batch' = [rows |-> <<Last(chunk)>> \o Front(chunk), decode |-> 1, starts |-> <<1, n>>]
  /\ Advance([s \in Slots |-> IF s = slot THEN n ELSE 0])
  /\ WriteKV
  /\ UNCHANGED config

-----------------------------------------------------------------------------
(* The attention of the same layer, over the cache the batch left.         *)

\* Mutant: nothing of the group that this row's chunk completed is packed yet.
BoundaryOfRow(b) ==
  IF config.quantized THEN WholeGroups(batch.rows[b].pos + 1) ELSE batch.rows[b].pos + 1

\* A row of the block table spans this many tokens.
Capacity == CeilOver(MaxLen, BlockSize) * BlockSize

\* Positions below the boundary are in the pool.  A bf16 cache has no ring.
Boundary(b) ==
  IF config.quantized
    THEN MinOf(WholeGroups(LastPos(batch, b) + 1), batch.rows[b].pos + 1)
    ELSE batch.rows[b].pos + 1

Fetched(b, read) ==
  LET slot == batch.rows[b].slot
  IN [key |-> IF read.packed THEN k_pool[BlockOf(slot, read.pos)][OffsetOf(read.pos)]
                             ELSE residual[slot][read.pos % GroupSize],
      value |-> v_pool[BlockOf(slot, read.pos)][OffsetOf(read.pos)]]

Take(b, acc, step) == Absorb(acc, [j \in DOMAIN step |-> Fetched(b, step[j])])

Span(b, range) ==
  [j \in 1 .. range.end - range.begin |->
     Fetched(b, [pos |-> range.begin + j - 1, packed |-> TRUE])]

SplitCount(b) == PagedSplits(Capacity, config.heads, config.kv_heads)

\* paged_attn_split_kernel and its combine.
SplitAttention(b) ==
  Combine([s \in 1 .. SplitCount(b) |->
    LET range == SplitRange(batch.rows[b].pos + 1, SplitCount(b), s - 1)
    IN FoldLeft(LAMBDA acc, step : Take(b, acc, step), Nothing,
                Walk(range.begin, range.end, Boundary(b)))])

\* paged_prefill_kernel: a CTA stages tiles up to the largest position of its
\* rows, and each warp walks them up to its own.
PrefillAttention(b) ==
  LET run == batch.starts[CHOOSE s \in RunsOf(batch, b) : TRUE]
      stop == batch.starts[(CHOOSE s \in RunsOf(batch, b) : TRUE) + 1]
      ctas == PrefillCtas(run + 1, stop + 1, Len(batch.rows) - batch.decode)
      peers == (CHOOSE c \in ctas : c.row = b).peers
      staged == Max({ batch.rows[r].pos + 1 : r \in peers })
      limit == batch.rows[b].pos + 1
      tile(t) == Walk((t - 1) * PrefillTile, MinOf(t * PrefillTile, limit), Boundary(b))
  IN IF \E c \in ctas : c.row = b
       THEN FoldLeft(LAMBDA acc, step : Take(b, acc, step), Nothing,
                     FlattenSeq([t \in 1 .. CeilOver(staged, PrefillTile) |-> tile(t)]))
       ELSE Nothing

\* mha_kernel_cu_batch, over the continuous layout.
FlashAttention(b) ==
  LET splits == FlashSplits(MaxLen)
      part(s) == Span(b, FlashRange(batch.rows[b].pos + 1, splits, s - 1))
  IN Combine([s \in 1 .. splits |->
                IF part(s) = <<>> THEN Nothing ELSE Absorb(Nothing, part(s))])

\* The CPU kernels, a row at a time.
HostAttention(b) == FullSoftmax(Span(b, [begin |-> 0, end |-> batch.rows[b].pos + 1]))

\* multi_head_attention_kernel, which predict() runs.
LegacyAttention(b) ==
  LET seq == batch.rows[b].pos + 1
      tile(t) == Span(b, [begin |-> (t - 1) * LegacyTile, end |-> MinOf(t * LegacyTile, seq)])
  IN FoldLeft(LegacyAbsorb, Nothing,
              [t \in 1 .. CeilOver(seq, LegacyTile) |-> tile(t)])

\* paged_attention_dispatch: prefill rows have a kernel of their own where it
\* serves the geometry.
OnPrefillKernel(b) ==
  /\ b > batch.decode
  /\ PrefillServes(config.heads, config.kv_heads, config.head_size)

Attention(b) ==
  CASE config.layout = "paged" ->
         IF OnPrefillKernel(b) THEN PrefillAttention(b) ELSE SplitAttention(b)
    [] config.layout = "slots" -> FlashAttention(b)
    [] config.layout = "host" -> HostAttention(b)
    [] config.layout = "single" -> LegacyAttention(b)

-----------------------------------------------------------------------------
(* Properties.                                                             *)

\* Softmax over exactly these keys, each with its own value: every key once,
\* and all exponents off by the same constant, which the division removes.
IsSoftmaxOver(acc, keys) ==
  /\ Len(acc.sum) = Cardinality(keys)
  /\ LET c == acc.sum[1].e - Score(acc.sum[1].key)
     IN Range(acc.sum) = { [key |-> k, value |-> k, e |-> Score(k) + c] : k \in keys }

\* Whatever the chunks, cuts, resumed slots and shared prefixes before it, each
\* row's attention is the softmax over the K and V of its own prefix: every
\* position is read once, from the pool it is in by then, below the
\* quantization boundary or in the ring, whatever split, quad and tile it
\* falls into.
AttentionExact ==
  \A b \in DOMAIN batch.rows :
    IsSoftmaxOver(Attention(b),
      { Key(seqs[batch.rows[b].slot].text, p) : p \in 0 .. batch.rows[b].pos })

\* No two rows of a launch write different K or V to one place of a pool or of
\* the ring, not even those of a chunk longer than the ring.
WritesDisjoint ==
  /\ \A b \in Blocks, o \in Offsets : k_pool[b][o] # Torn /\ v_pool[b][o] # Torn
  /\ \A s \in Slots, r \in Ring : residual[s][r] # Torn

\* On the split kernel every partial the combine kernel reads, of each row and
\* head, is published by exactly one warp, which reads the same kv head as the
\* per-head kernels do, and the buffer the caller sized holds them all.
PartialsPublished ==
  LET n == Len(batch.rows)
      splits == PagedSplits(Capacity, config.heads, config.kv_heads)
      warps == DecodeWarps(n, config.heads, config.kv_heads, config.head_size, splits)
      output == [w \in warps |->
        WarpOutput(w, n, config.heads, config.kv_heads, config.head_size, splits)]
  IN config.layout = "paged" =>
       /\ UNION Range(output) = (0 .. n - 1) \X (0 .. config.heads - 1) \X (0 .. splits - 1)
       /\ Cardinality(UNION { {w} \X output[w] : w \in warps }) = n * config.heads * splits
       /\ \A kv \in 0 .. config.kv_heads - 1 :
            HeadsOf(kv, config.heads, config.kv_heads)
              = { h \in 0 .. config.heads - 1 : KvHeadOf(h, config.heads, config.kv_heads) = kv }
       /\ 2 * n * config.heads * splits * (config.head_size + 4)
            <= PartialElements(n, config.heads, splits, config.head_size, TRUE)

\* sequence.h:39 says that the K of tokens [0, k_quantized_tokens) is in the
\* packed pool.
CountedTokensPacked ==
  \A s \in Slots : config.quantized =>
    \A p \in 0 .. KQuantizedTokens(seqs[s]) - 1 :
      p < seqs[s].done /\ k_pool[BlockOf(s, p)][OffsetOf(p)] = Key(seqs[s].text, p)

Next ==
  \/ \E s \in Slots, t \in Texts, d \in Slots, k \in 0 .. MaxLen \div BlockSize : Admit(s, t, d, k)
  \/ \E s \in Slots, k \in 0 .. MaxLen \div BlockSize : Cut(s, k)
  \/ \E s \in Slots : Retire(s)
  \/ \E n \in [Slots -> Chunks \cup {0}] : Step(n)
  \/ \E s \in Slots, n \in Chunks : ScoreChunk(s, n)

Spec == Init /\ [][Next]_vars
=============================================================================
