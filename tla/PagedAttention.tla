---------------------------- MODULE PagedAttention ----------------------------
(***************************************************************************)
(* The walks of the attention kernels (kernels/cuda/mha_kernel_bf16.cu),   *)
(* as operators: which positions a warp reads, in which order, from which  *)
(* pool, and what the online softmax makes of them.                        *)
(*                                                                         *)
(* A weight exp(s - m) is kept as its exponent s - m, an integer, and an   *)
(* accumulator as the terms it has added up, so rescaling by exp(d) adds d *)
(* to each of them.  The denominator l and the numerator acc are updated   *)
(* with the same weights throughout and share their terms.  Rounding and   *)
(* head dimensions are left out: a key stands for the whole row.           *)
(***************************************************************************)
EXTENDS Integers, SequencesExt

CONSTANTS
  Quad,         \* kGroup: positions per rescale
  DecodeTile,   \* DECODE_TILE of flash_decoding_num_splits
  MaxSplits,    \* MAX_SPLITS
  PrefillTile,  \* kTileKv
  LegacyTile,   \* TILE_BF16
  WarpsPerCta,  \* kWarpsPerBlock
  Score(_)      \* the score of a key for the query at hand

ASSUME KernelSizes ==
  /\ Quad \in Nat \ {0} /\ DecodeTile \in Nat \ {0} /\ MaxSplits \in Nat \ {0}
  /\ LegacyTile \in Nat \ {0} /\ WarpsPerCta \in Nat \ {0}
  \* A tile holds whole quads: no quad straddles two.
  /\ PrefillTile \in Nat \ {0} /\ PrefillTile % Quad = 0

CeilOver(n, d) == (n + d - 1) \div d

MinOf(a, b) == IF a < b THEN a ELSE b

-----------------------------------------------------------------------------
(* The online softmax.                                                     *)

\* m of an accumulator that has seen nothing: -FLT_MAX.
NoMax == -1000

Nothing == [m |-> NoMax, sum |-> <<>>]

\* A sum multiplied by exp(d).
Rescale(sum, d) == [i \in DOMAIN sum |-> [sum[i] EXCEPT !.e = @ + d]]

MaxScore(reads) == Max({Score(reads[i].key) : i \in DOMAIN reads})

Weighed(reads, m) ==
  [i \in DOMAIN reads |->
     [key |-> reads[i].key, value |-> reads[i].value, e |-> Score(reads[i].key) - m]]

\* process_group, process_quad and the tails: one rescale for the step's
\* positions, to the larger of the old and the new maximum.
Absorb(acc, reads) ==
  LET m == Max({acc.m, MaxScore(reads)})
  IN [m |-> m, sum |-> Rescale(acc.sum, acc.m - m) \o Weighed(reads, m)]

\* The legacy single-sequence kernel: a tile keeps its own maximum, and what
\* was added before is multiplied by exp(m_j - m_i).
LegacyAbsorb(acc, reads) ==
  LET m_j == MaxScore(reads)
      alpha == IF acc.m = NoMax THEN 0 ELSE m_j - acc.m
  IN [m |-> m_j, sum |-> Rescale(acc.sum, alpha) \o Weighed(reads, m_j)]

\* The combine kernels: rescale every split to the global maximum.  An empty
\* split has no terms and a weight of 0.
Combine(partials) ==
  LET m == Max({partials[s].m : s \in DOMAIN partials})
  IN [m |-> m,
      sum |-> FlattenSeq([s \in DOMAIN partials |->
                            Rescale(partials[s].sum, partials[s].m - m)])]

\* The CPU kernels subtract the row's maximum before they add anything up.
FullSoftmax(reads) == [m |-> MaxScore(reads), sum |-> Weighed(reads, MaxScore(reads))]

-----------------------------------------------------------------------------
(* The walks.  A step reads the positions of a sequence; `packed' says     *)
(* whether the K of a position comes from the block pool or, under S4, from *)
(* the residual ring.                                                      *)

\* Whole quads from `begin' up to `end'.
Quads(begin, end) ==
  [i \in 1 .. (IF end > begin THEN (end - begin) \div Quad ELSE 0) |->
     [j \in 1 .. Quad |-> begin + (i - 1) * Quad + j - 1]]

Read(positions, packed) ==
  [j \in DOMAIN positions |-> [pos |-> positions[j], packed |-> packed]]

\* Quads below the boundary, then quads past it, then one position at a time.
Walk(begin, end, boundary) ==
  LET low == Quads(begin, MinOf(end, boundary))
      mid == begin + Quad * Len(low)
      high == Quads(mid, end)
      rest == mid + Quad * Len(high)
  IN [i \in DOMAIN low |-> Read(low[i], TRUE)]
       \o [i \in DOMAIN high |-> Read(high[i], FALSE)]
       \o [i \in 1 .. (IF end > rest THEN end - rest ELSE 0) |->
             Read(<<rest + i - 1>>, rest + i - 1 < boundary)]

\* The positions of one split of a row: [begin, end), possibly none.
SplitRange(seq, splits, split) ==
  LET per == CeilOver(CeilOver(seq, splits), Quad) * Quad
      begin == MinOf(split * per, seq)
  IN [begin |-> begin, end |-> MinOf(begin + per, seq)]

\* The splits of the continuous layout's kernel.
FlashRange(seq, splits, split) ==
  [begin |-> (split * seq) \div splits, end |-> ((split + 1) * seq) \div splits]

\* flash_decoding_num_splits
FlashSplits(max_seq_len) ==
  Max({1, MinOf(MaxSplits, CeilOver(max_seq_len, DecodeTile))})

\* paged_decode_num_splits
PagedSplits(max_seq_len, heads, kv_heads) ==
  FlashSplits(max_seq_len) * Max({1, CeilOver(heads, kv_heads)})

\* flash_decoding_partials_elements, in bf16 elements: what the callers give
\* score_batch, for fp32 rows of the paged kernel or bf16 rows of the other.
PartialElements(batch, heads, splits, head_size, fp32) ==
  IF fp32 THEN 2 * batch * heads * splits * (head_size + 4)
          ELSE batch * heads * splits * (head_size + 2)

-----------------------------------------------------------------------------
(* Which warp computes what.  Rows, heads, splits and warps count from 0.  *)

\* The q heads that read a kv head.
HeadsOf(kv_head, heads, kv_heads) ==
  { h \in 0 .. heads - 1 :
      /\ CeilOver(kv_head * heads, kv_heads) <= h
      /\ h < CeilOver((kv_head + 1) * heads, kv_heads) }

\* The kv head a q head reads, in the per-head kernels.
KvHeadOf(head, heads, kv_heads) == (head * kv_heads) \div heads

\* The largest power of two within the head group and what a warp can hold.
HeadsPerWarp(heads, kv_heads, head_size) ==
  LET cap == IF head_size <= 128 THEN 8 ELSE 4
  IN Max({n \in {1, 2, 4, 8} : n = 1 \/ (n <= CeilOver(heads, kv_heads) /\ n <= cap)})

\* Mutant: only whole groups of heads get a warp.
HeadGroupsDown(heads, kv_heads, head_size) ==
  CeilOver(heads, kv_heads) \div HeadsPerWarp(heads, kv_heads, head_size)

HeadGroups(heads, kv_heads, head_size) ==
  CeilOver(CeilOver(heads, kv_heads), HeadsPerWarp(heads, kv_heads, head_size))

\* Warps of a launch, whole CTAs of them.
DecodeWarps(batch, heads, kv_heads, head_size, splits) ==
  0 .. CeilOver(batch * kv_heads * splits * HeadGroups(heads, kv_heads, head_size),
                WarpsPerCta) * WarpsPerCta - 1

\* What one warp of the split kernel publishes: a partial for each of its heads.
WarpOutput(warp, batch, heads, kv_heads, head_size, splits) ==
  LET groups == HeadGroups(heads, kv_heads, head_size)
      per_warp == HeadsPerWarp(heads, kv_heads, head_size)
      row_group == warp \div (splits * groups)
      rem == warp % (splits * groups)
      row == row_group \div kv_heads
      owned == HeadsOf(row_group % kv_heads, heads, kv_heads)
      first == Min(owned) + (rem % groups) * per_warp
  IN IF row >= batch THEN {}
     ELSE { <<row, h, rem \div groups>> : h \in owned \cap (first .. first + per_warp - 1) }

\* prefill_geometry_ok
PrefillServes(heads, kv_heads, head_size) ==
  head_size = 128 /\ CeilOver(heads, kv_heads) <= 8

\* paged_prefill_attention_cu_batch: one CTA per WarpsPerCta rows of a
\* sequence, as many per sequence as the rows of all of them would need.
\* What a CTA of the prefill kernel computes: <<row, rows of its CTA>>.
PrefillCtas(first, stop, prefill_rows) ==
  { [row |-> r, peers |-> { p \in first .. stop - 1 :
                              (p - first) \div WarpsPerCta = (r - first) \div WarpsPerCta }] :
      r \in { r \in first .. stop - 1 :
                (r - first) \div WarpsPerCta < CeilOver(prefill_rows, WarpsPerCta) } }
=============================================================================
