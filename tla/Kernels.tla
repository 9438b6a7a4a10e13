------------------------------- MODULE Kernels -------------------------------
(***************************************************************************)
(* How the matrix products and the element-wise add cut their work up      *)
(* among blocks, slices and threads (op/kernels/).  A product is a set of  *)
(* rows and columns, each the sum of the same inputs; it is right if every *)
(* row and column is computed, from the codes, zero points and scales      *)
(* stored for that column, over every input once.                          *)
(*                                                                         *)
(* A call multiplies `batch' rows of K inputs by the N columns from        *)
(* out_offset on of a stored weight total_out wide; a packed weight has a   *)
(* scale and a zero point for every column and group of inputs.            *)
(***************************************************************************)
EXTENDS Integers, SequencesExt

CONSTANTS
  PackWidth,  \* codes of a packed word: 8
  VecWidth,   \* elements of a vector access: 8
  Tile,       \* rows and columns of a Tensor Core tile: 16
  Warps,      \* kWarps, kOutGroups: 4
  KChunk,     \* kKChunk, the inputs dequantized at a time: 64
  Splits,     \* least slices for few and for many rows, and most: 8, 4, 16
  SmCount,    \* sm_count
  Threads     \* threads of a block of the dense product and of the add

ASSUME KernelSizes ==
  /\ {PackWidth, VecWidth, Tile, KChunk, SmCount, Threads} \subseteq Nat \ {0} /\ Warps \in Nat \ {0, 1}
  /\ (Tile * Warps) % PackWidth = 0

OutPerBlock == Tile * Warps
BatchPerBlock == Tile * Warps

CeilDiv(n, d) == (n + d - 1) \div d
Least(S) == CHOOSE x \in S : \A y \in S : x <= y

-----------------------------------------------------------------------------
(* The packed product.                                                     *)

\* The CHECKs of the kernels.
AwqChecks(c) ==
  /\ c.K > 0 /\ c.N > 0
  /\ c.N % PackWidth = 0 /\ c.out_offset % PackWidth = 0
  /\ c.out_offset + c.N <= c.total_out

\* The tiled kernel takes one group's scales for a whole chunk.
Tiled(c, device) == device.cuda /\ device.cc_major >= 8 /\ c.group_size % KChunk = 0

ChunksOf(c) == CeilDiv(c.K, KChunk)
Blocks(c) == CeilDiv(c.N, OutPerBlock) * CeilDiv(c.batch, BatchPerBlock)

\* gridDim.z: enough slices to fill the device, but no more than there are chunks.
\* With several, the output is zeroed and each slice adds to it.
Split(c) ==
  LET fill == CeilDiv(4 * SmCount, Blocks(c))
      floor == IF c.batch <= BatchPerBlock THEN Splits.few ELSE Splits.many
  IN Least({IF fill < floor THEN floor ELSE fill, ChunksOf(c), Splits.most})

ChunksPerSplit(c) == CeilDiv(ChunksOf(c), Split(c))

\* The inputs slice z sums, each with the group its scales are from: the chunk's.
\* Rounding the chunks of a slice up leaves the last slices short, or empty.
Slice(c, z) ==
  LET k_begin == z * ChunksPerSplit(c) * KChunk
      k_end == Least({k_begin + ChunksPerSplit(c) * KChunk, c.K})
      Chunk(k0) == [i \in 1 .. Least({KChunk, k_end - k0}) |->
                      <<k0 + i - 1, k0 \div c.group_size>>]
  IN FlattenSeq([i \in 1 .. CeilDiv(k_end - k_begin, KChunk) |->
                   Chunk(k_begin + (i - 1) * KChunk)])

PerInput(c) == [i \in 1 .. c.K |-> <<i - 1, (i - 1) \div c.group_size>>]

AwqInputs(c, device) ==
  IF Tiled(c, device) THEN FlattenSeq([z \in 1 .. Split(c) |-> Slice(c, z - 1)]) ELSE PerInput(c)

\* The stored column whose code and zero point go into column n: a block starts
\* at a word of its own, and the words past the last are not read.
CodeColumn(c, device, n) ==
  LET block == n \div OutPerBlock
      packed_total == c.total_out \div PackWidth
      word == IF Tiled(c, device)
              THEN c.out_offset \div PackWidth + block * (OutPerBlock \div PackWidth)
                   + ((n % OutPerBlock) \div PackWidth)
              ELSE c.out_offset \div PackWidth + n \div PackWidth
  IN Least({word, packed_total - 1}) * PackWidth + (n % PackWidth)

\* The rows computed: a block of the tiled kernel has one, two or all its tiles.
WarpsM(c) == IF c.batch <= Tile THEN 1 ELSE IF c.batch <= 2 * Tile THEN 2 ELSE Warps

AwqRows(c, device) ==
  {m \in 0 .. c.batch - 1 : Tiled(c, device) => (m % BatchPerBlock) \div Tile < WarpsM(c)}

-----------------------------------------------------------------------------
(* The dense product: cuBLAS where there is one and it succeeds, else this  *)
(* library's kernel, whose threads take every Threads-th input.            *)

StridedInputs(c) ==
  FlattenSeq([t \in 1 .. Threads |->
                [i \in 1 .. CeilDiv(c.K - (t - 1), Threads) |-> (t - 1) + (i - 1) * Threads]])

-----------------------------------------------------------------------------
(* The element-wise add: vector threads first, then one per element left.  *)

AddBlocks(size, vec) ==
  CeilDiv(IF vec THEN size \div VecWidth + VecWidth ELSE size, Threads)

\* What thread tid adds.
AddedBy(size, vec, tid) ==
  LET nvec == IF vec THEN size \div VecWidth ELSE 0
      i == nvec * VecWidth + (tid - nvec)
  IN IF tid < nvec THEN [j \in 1 .. VecWidth |-> tid * VecWidth + j - 1]
     ELSE IF i < size THEN <<i>> ELSE <<>>

Added(size, vec) ==
  FlattenSeq([t \in 1 .. AddBlocks(size, vec) * Threads |-> AddedBy(size, vec, t - 1)])

-----------------------------------------------------------------------------
(* What they are for.                                                      *)

Once(seq, S) == Range(seq) = S /\ Len(seq) = Cardinality(S)

AwqProduct(c, device) ==
  /\ Once(AwqInputs(c, device), Range(PerInput(c)))
  /\ \A n \in 0 .. c.N - 1 : CodeColumn(c, device, n) = c.out_offset + n
  /\ AwqRows(c, device) = 0 .. c.batch - 1

DenseProduct(c) == Once(StridedInputs(c), 0 .. c.K - 1)

AddsAll(size) ==
  \A vec \in {FALSE, size >= VecWidth} : Once(Added(size, vec), 0 .. size - 1)
=============================================================================
