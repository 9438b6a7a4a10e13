------------------------- MODULE BlockAllocatorProofs -------------------------
(***************************************************************************)
(* The block pool keeps its bookkeeping consistent for every pool size:    *)
(* the invariant the scheduler's destructor aborts on is inductive.        *)
(***************************************************************************)
EXTENDS BlockAllocator, FiniteSetTheorems, SequenceTheorems, TLAPS

(***************************************************************************)
(* Sequences joined and cut.                                               *)
(***************************************************************************)

\* Concatenation joins the ranges.
LEMMA ConcatRange ==
  ASSUME NEW S, NEW s \in Seq(S), NEW t \in Seq(S)
  PROVE  Range(s \o t) = Range(s) \cup Range(t)
<1>1. /\ s \o t \in Seq(S)
      /\ Len(s \o t) = Len(s) + Len(t)
      /\ \A i \in 1 .. Len(s) + Len(t) :
           (s \o t)[i] = IF i <= Len(s) THEN s[i] ELSE t[i - Len(s)]
  BY ConcatProperties
<1>2. Range(s \o t) \subseteq Range(s) \cup Range(t)
  BY <1>1 DEF Range
<1>3. ASSUME NEW i \in DOMAIN s
      PROVE  s[i] \in Range(s \o t)
  <2>1. i \in DOMAIN (s \o t) /\ (s \o t)[i] = s[i]
    BY <1>1
  <2> QED
    BY <2>1 DEF Range
<1>4. ASSUME NEW i \in DOMAIN t
      PROVE  t[i] \in Range(s \o t)
  <2>1. Len(s) + i \in DOMAIN (s \o t) /\ (s \o t)[Len(s) + i] = t[i]
    BY <1>1
  <2> QED
    BY <2>1 DEF Range
<1> QED
  BY <1>2, <1>3, <1>4 DEF Range

\* Joining two injective sequences with disjoint ranges gives an injective one.
LEMMA ConcatInjective ==
  ASSUME NEW S, NEW s \in Seq(S), NEW t \in Seq(S),
         IsInjective(s), IsInjective(t), Range(s) \cap Range(t) = {}
  PROVE  IsInjective(s \o t)
<1>1. /\ DOMAIN (s \o t) = 1 .. Len(s) + Len(t)
      /\ \A i \in 1 .. Len(s) + Len(t) :
           (s \o t)[i] = IF i <= Len(s) THEN s[i] ELSE t[i - Len(s)]
  BY ConcatProperties, LenProperties
<1>2. \A i \in 1 .. Len(s), j \in 1 .. Len(t) : s[i] # t[j]
  BY DEF Range
<1>3. ASSUME NEW i \in DOMAIN (s \o t), NEW j \in DOMAIN (s \o t),
             (s \o t)[i] = (s \o t)[j]
      PROVE  i = j
  <2>1. CASE i <= Len(s) /\ j <= Len(s)
    BY <1>1, <1>3, <2>1 DEF IsInjective
  <2>2. CASE i > Len(s) /\ j > Len(s)
    <3>1. i - Len(s) \in DOMAIN t /\ j - Len(s) \in DOMAIN t
      BY <1>1, <2>2
    <3>2. t[i - Len(s)] = t[j - Len(s)]
      BY <1>1, <1>3, <2>2
    <3>3. i - Len(s) = j - Len(s)
      BY <3>1, <3>2 DEF IsInjective
    <3> QED
      BY <3>3, <1>1
  <2>3. CASE i <= Len(s) /\ j > Len(s)
    BY <1>1, <1>2, <1>3, <2>3
  <2>4. CASE i > Len(s) /\ j <= Len(s)
    BY <1>1, <1>2, <1>3, <2>4
  <2> QED
    BY <2>1, <2>2, <2>3, <2>4, <1>1
<1> QED
  BY <1>3 DEF IsInjective

\* Cutting an injective sequence at n splits its range in two.
LEMMA CutInjective ==
  ASSUME NEW S, NEW s \in Seq(S), IsInjective(s), NEW n \in 0 .. Len(s)
  PROVE  LET front == SubSeq(s, 1, n)
             back == SubSeq(s, n + 1, Len(s))
         IN  /\ front \in Seq(S) /\ IsInjective(front) /\ Len(front) = n
             /\ back \in Seq(S) /\ IsInjective(back) /\ Len(back) = Len(s) - n
             /\ Range(front) \cap Range(back) = {}
             /\ Range(front) \cup Range(back) = Range(s)
<1> DEFINE front == SubSeq(s, 1, n)
           back == SubSeq(s, n + 1, Len(s))
<1>1. /\ front \in Seq(S) /\ Len(front) = n /\ DOMAIN front = 1 .. n
      /\ \A i \in 1 .. n : front[i] = s[i]
  BY SubSeqProperties, ElementOfSeq, LenProperties
<1>2. /\ back \in Seq(S) /\ Len(back) = Len(s) - n /\ DOMAIN back = 1 .. Len(s) - n
      /\ \A i \in 1 .. Len(s) - n : back[i] = s[n + i]
  BY SubSeqProperties, ElementOfSeq, LenProperties
<1>3. \A i, j \in 1 .. Len(s) : s[i] = s[j] => i = j
  BY LenProperties DEF IsInjective
<1> HIDE DEF front, back
<1>4. IsInjective(front)
  BY <1>1, <1>3 DEF IsInjective
<1>5. IsInjective(back)
  <2>1. ASSUME NEW i \in 1 .. Len(s) - n, NEW j \in 1 .. Len(s) - n, back[i] = back[j]
        PROVE  i = j
    <3>1. s[n + i] = s[n + j] /\ n + i \in 1 .. Len(s) /\ n + j \in 1 .. Len(s)
      BY <1>2, <2>1
    <3> QED
      BY <3>1, <1>3
  <2> QED
    BY <2>1, <1>2 DEF IsInjective
<1>6. Range(front) \cap Range(back) = {}
  <2>1. \A i \in 1 .. n, j \in 1 .. Len(s) - n : front[i] # back[j]
    BY <1>1, <1>2, <1>3
  <2> QED
    BY <2>1, <1>1, <1>2 DEF Range
<1>7. Range(front) \cup Range(back) = Range(s)
  <2>1. \A i \in 1 .. Len(s) : s[i] \in Range(front) \cup Range(back)
    <3> SUFFICES ASSUME NEW i \in 1 .. Len(s)
                 PROVE  s[i] \in Range(front) \cup Range(back)
      OBVIOUS
    <3>1. CASE i <= n
      BY <3>1, <1>1 DEF Range
    <3>2. CASE i > n
      <4>1. i - n \in 1 .. Len(s) - n /\ back[i - n] = s[i]
        BY <3>2, <1>2
      <4> QED
        BY <4>1, <1>2 DEF Range
    <3> QED
      BY <3>1, <3>2
  <2>2. Range(front) \subseteq Range(s)
    BY <1>1, LenProperties DEF Range
  <2>3. Range(back) \subseteq Range(s)
    <3>1. \A i \in 1 .. Len(s) - n : n + i \in DOMAIN s /\ back[i] = s[n + i]
      BY <1>2, LenProperties
    <3> QED
      BY <3>1, <1>2 DEF Range
  <2> QED
    BY <2>1, <2>2, <2>3, LenProperties DEF Range
<1> QED
  BY <1>1, <1>2, <1>4, <1>5, <1>6, <1>7 DEF front, back

(***************************************************************************)
(* Facts about the pool's operators.                                       *)
(***************************************************************************)

\* The invariant that is inductive: the types, and invariant_holds.  Each of
\* the four parts of invariant_holds needs the other three: a block popped off
\* the free list is in no table because its count is 0 and counts are exact.
IInv == TypeOK /\ InvariantHolds

\* A block with reference count 0 is in no table.
LEMMA UnheldBlock ==
  ASSUME IInv, NEW b \in Blocks
  PROVE  ref_counts[b] = 0 <=> Holders(b) = {}
<1>1. IsFiniteSet(Rows)
  BY PoolSizes, FS_Interval DEF Rows
<1>2. IsFiniteSet(Holders(b))
  BY <1>1, FS_Subset DEF Holders
<1>3. Cardinality(Holders(b)) = 0 <=> Holders(b) = {}
  BY <1>2, FS_EmptySet
<1> QED
  BY <1>3 DEF IInv, InvariantHolds, RefCountExact

\* When one row's table changes, the count of a block moves with its mount.
LEMMA HoldersChange ==
  ASSUME TypeOK, NEW row \in Rows, NEW table,
         block_tables' = [block_tables EXCEPT ![row] = table],
         NEW b \in Blocks
  PROVE  LET was == b \in Range(block_tables[row])
             is == b \in Range(table)
         IN  /\ Cardinality(Holders(b)) \in Nat
             /\ was /\ is => Cardinality(Holders(b)') = Cardinality(Holders(b))
             /\ ~was /\ ~is => Cardinality(Holders(b)') = Cardinality(Holders(b))
             /\ ~was /\ is => Cardinality(Holders(b)') = Cardinality(Holders(b)) + 1
             /\ was /\ ~is => Cardinality(Holders(b)') = Cardinality(Holders(b)) - 1
<1>1. IsFiniteSet(Holders(b))
  <2>1. IsFiniteSet(Rows)
    BY PoolSizes, FS_Interval DEF Rows
  <2> QED
    BY <2>1, FS_Subset DEF Holders
<1>2. /\ block_tables'[row] = table
      /\ \A r \in Rows \ {row} : block_tables'[r] = block_tables[r]
  BY DEF TypeOK
<1>3. b \in Range(table) => Holders(b)' = Holders(b) \cup {row}
  BY <1>2 DEF Holders
<1>4. b \notin Range(table) => Holders(b)' = Holders(b) \ {row}
  BY <1>2 DEF Holders
<1>5. row \in Holders(b) <=> b \in Range(block_tables[row])
  BY DEF Holders
<1>6. Cardinality(Holders(b)) \in Nat
  BY <1>1, FS_CardinalityType
<1>7. Cardinality(Holders(b) \cup {row}) =
        IF row \in Holders(b) THEN Cardinality(Holders(b)) ELSE Cardinality(Holders(b)) + 1
  BY <1>1, FS_AddElement
<1>8. Cardinality(Holders(b) \ {row}) =
        IF row \in Holders(b) THEN Cardinality(Holders(b)) - 1 ELSE Cardinality(Holders(b))
  BY <1>1, FS_RemoveElement
<1> QED
  BY <1>3, <1>4, <1>5, <1>6, <1>7, <1>8

\* What the hook evicts are distinct parked blocks.
LEMMA EvictedParked ==
  ASSUME NEW n \in Nat, NEW ev \in Evictions(n)
  PROVE  /\ ev \in Seq(Blocks)
         /\ IsInjective(ev)
         /\ Range(ev) \subseteq Parked
<1>1. CASE ev = <<>>
  BY <1>1 DEF Range, IsInjective
<1>2. CASE ev # <<>>
  <2>1. PICK k \in Nat : ev \in [1 .. k -> Parked] /\ IsInjective(ev)
    BY <1>2 DEF Evictions
  <2>2. Parked \subseteq Blocks
    BY DEF Parked
  <2>3. ev \in Seq(Parked)
    BY <2>1
  <2>4. ev \in Seq(Blocks)
    BY <2>2, <2>3, SeqMonotonic
  <2> QED
    BY <2>1, <2>4 DEF Range
<1> QED
  BY <1>1, <1>2

\* After an eviction the free list is still distinct, and holds exactly the
\* blocks with count 0 that are no longer pinned.
LEMMA ToppedUp ==
  ASSUME IInv, NEW ev \in Seq(Blocks), IsInjective(ev), Range(ev) \subseteq Parked
  PROVE  LET free == free_blocks \o ev
         IN  /\ free \in Seq(Blocks)
             /\ IsInjective(free)
             /\ \A b \in Blocks : b \in Range(free) <=>
                   ref_counts[b] = 0 /\ ~(cached[b] /\ b \notin Range(ev))
<1>1. ev \in Seq(Blocks) /\ IsInjective(ev) /\ Range(ev) \subseteq Parked
  OBVIOUS
<1>2. /\ free_blocks \in Seq(Blocks) /\ IsInjective(free_blocks)
      /\ \A b \in Blocks : b \in Range(free_blocks) <=> ref_counts[b] = 0 /\ ~cached[b]
  BY DEF IInv, TypeOK, InvariantHolds, FreeListDistinct, ThreeStates
<1>3. \A b \in Parked : b \in Blocks /\ cached[b] /\ ref_counts[b] = 0
  BY DEF Parked
<1>4. Range(free_blocks) \cap Range(ev) = {}
  BY <1>1, <1>2, <1>3
<1>5. free_blocks \o ev \in Seq(Blocks)
  BY <1>1, <1>2, ConcatProperties
<1>6. IsInjective(free_blocks \o ev)
  BY <1>1, <1>2, <1>4, ConcatInjective
<1>7. Range(free_blocks \o ev) = Range(free_blocks) \cup Range(ev)
  BY <1>1, <1>2, ConcatRange
<1> QED
  BY <1>1, <1>2, <1>3, <1>5, <1>6, <1>7

\* Popping takes the back of the free list, in reverse.
LEMMA PoppedBack ==
  ASSUME NEW free \in Seq(Blocks), IsInjective(free), NEW n \in Nat, n <= Len(free)
  PROVE  LET taken == Popped(free, n)
             rest == SubSeq(free, 1, Len(free) - n)
         IN  /\ taken \in Seq(Blocks) /\ IsInjective(taken) /\ Len(taken) = n
             /\ rest \in Seq(Blocks) /\ IsInjective(rest)
             /\ Range(taken) \cap Range(rest) = {}
             /\ Range(taken) \cup Range(rest) = Range(free)
<1> DEFINE taken == Popped(free, n)
           cut == Len(free) - n
           rest == SubSeq(free, 1, cut)
           back == SubSeq(free, cut + 1, Len(free))
<1>1. cut \in 0 .. Len(free)
  BY LenProperties
<1>2. /\ rest \in Seq(Blocks) /\ IsInjective(rest)
      /\ back \in Seq(Blocks)
      /\ Range(rest) \cap Range(back) = {}
      /\ Range(rest) \cup Range(back) = Range(free)
  BY <1>1, CutInjective
<1>3. /\ \A i \in 1 .. n : Len(free) + 1 - i \in 1 .. Len(free)
      /\ \A i \in 1 .. Len(free) : free[i] \in Blocks
      /\ \A i, j \in 1 .. Len(free) : free[i] = free[j] => i = j
  BY LenProperties, ElementOfSeq DEF IsInjective
<1>4. /\ taken \in [1 .. n -> Blocks]
      /\ \A i \in 1 .. n : taken[i] = free[Len(free) + 1 - i]
  BY <1>3 DEF Popped
<1>5. taken \in Seq(Blocks) /\ Len(taken) = n
  BY <1>4
<1>6. IsInjective(taken)
  <2>1. ASSUME NEW i \in 1 .. n, NEW j \in 1 .. n, taken[i] = taken[j]
        PROVE  i = j
    <3>1. Len(free) + 1 - i = Len(free) + 1 - j
      BY <1>3, <1>4, <2>1
    <3> QED
      BY <3>1, LenProperties
  <2> QED
    BY <2>1, <1>4 DEF IsInjective
<1>7. Range(taken) = Range(back)
  <2>1. /\ Len(back) = n /\ DOMAIN back = 1 .. n
        /\ \A i \in 1 .. n : back[i] = free[cut + i]
    BY <1>1, <1>3, SubSeqProperties, LenProperties
  <2>2. \A i \in 1 .. n : n + 1 - i \in 1 .. n /\ taken[n + 1 - i] = back[i]
    BY <1>4, <2>1, LenProperties
  <2>3. \A i \in 1 .. n : n + 1 - i \in 1 .. n /\ back[n + 1 - i] = taken[i]
    BY <1>4, <2>1, LenProperties
  <2>4. DOMAIN taken = 1 .. n
    BY <1>4
  <2> HIDE DEF taken, back
  <2>5. \A b \in Range(back) : b \in Range(taken)
    <3> SUFFICES ASSUME NEW i \in 1 .. n
                 PROVE  back[i] \in Range(taken)
      BY <2>1 DEF Range
    <3> QED
      BY <2>2, <2>4 DEF Range
  <2>6. \A b \in Range(taken) : b \in Range(back)
    <3> SUFFICES ASSUME NEW i \in 1 .. n
                 PROVE  taken[i] \in Range(back)
      BY <2>4 DEF Range
    <3> QED
      BY <2>1, <2>3 DEF Range
  <2> QED
    BY <2>5, <2>6
<1> QED
  BY <1>2, <1>5, <1>6, <1>7

(***************************************************************************)
(* One lemma per effect on the pool.                                       *)
(***************************************************************************)

\* Taking blocks off the topped-up free list for one row keeps the invariant.
LEMMA TakeKeeps ==
  ASSUME IInv, NEW row \in Rows, NEW n \in Nat, NEW ev \in Evictions(n),
         Len(free_blocks \o ev) >= n,
         Unpin(ev), Take(row, free_blocks \o ev, n),
         row_busy' \in [Rows -> BOOLEAN]
  PROVE  IInv'
<1> DEFINE free == free_blocks \o ev
           taken == Popped(free, n)
           table == block_tables[row]
<1>1. /\ free \in Seq(Blocks) /\ IsInjective(free)
      /\ \A b \in Blocks : b \in Range(free) <=>
            ref_counts[b] = 0 /\ ~(cached[b] /\ b \notin Range(ev))
  BY EvictedParked, ToppedUp
<1>2. /\ taken \in Seq(Blocks) /\ IsInjective(taken)
      /\ free_blocks' \in Seq(Blocks) /\ IsInjective(free_blocks')
      /\ Range(taken) \cap Range(free_blocks') = {}
      /\ Range(taken) \cup Range(free_blocks') = Range(free)
  BY <1>1, PoppedBack DEF Take
<1>3. /\ block_tables' = [block_tables EXCEPT ![row] = table \o taken]
      /\ ref_counts' = [b \in Blocks |-> IF b \in Range(taken) THEN 1 ELSE ref_counts[b]]
      /\ cached' = [b \in Blocks |-> cached[b] /\ b \notin Range(ev)]
  BY DEF Take, Unpin
<1>4. /\ table \in Seq(Blocks) /\ IsInjective(table)
      /\ block_tables \in [Rows -> Seq(Blocks)]
      /\ ref_counts \in [Blocks -> Nat]
      /\ cached \in [Blocks -> BOOLEAN]
      /\ \A r \in Rows : IsInjective(block_tables[r])
      /\ \A b \in Blocks : ref_counts[b] = Cardinality(Holders(b))
  BY DEF IInv, TypeOK, InvariantHolds, NoAlias, RefCountExact
<1>5. Range(taken) \subseteq Blocks
  BY <1>2, LenProperties DEF Range
<1> HIDE DEF free, taken, table
<1>6. \A b \in Range(taken) : ref_counts[b] = 0 /\ b \notin Range(table)
  BY <1>1, <1>2, <1>5, UnheldBlock DEF Holders, table
<1>7. table \o taken \in Seq(Blocks)
  BY <1>2, <1>4, ConcatProperties
<1>8. IsInjective(table \o taken)
  BY <1>2, <1>4, <1>6, ConcatInjective
<1>9. Range(table \o taken) = Range(table) \cup Range(taken)
  BY <1>2, <1>4, ConcatRange
<1>10. TypeOK'
  BY <1>2, <1>3, <1>4, <1>7 DEF TypeOK
<1>11. NoAlias'
  BY <1>3, <1>4, <1>8 DEF NoAlias
<1>12. RefCountExact'
  <2> SUFFICES ASSUME NEW b \in Blocks
               PROVE  ref_counts'[b] = Cardinality(Holders(b)')
    BY DEF RefCountExact
  <2>1. TypeOK
    BY DEF IInv
  <2>2. CASE b \in Range(taken)
    <3>1. Cardinality(Holders(b)') = Cardinality(Holders(b)) + 1
      BY <1>3, <1>6, <1>9, <2>1, <2>2, HoldersChange DEF table
    <3> QED
      BY <3>1, <1>3, <1>4, <1>6, <2>2
  <2>3. CASE b \notin Range(taken)
    <3>1. Cardinality(Holders(b)') = Cardinality(Holders(b))
      BY <1>3, <1>9, <2>1, <2>3, HoldersChange DEF table
    <3> QED
      BY <3>1, <1>3, <1>4, <2>3
  <2> QED
    BY <2>2, <2>3
<1>13. ThreeStates'
  <2> SUFFICES ASSUME NEW b \in Blocks
               PROVE  b \in Range(free_blocks') <=> ref_counts'[b] = 0 /\ ~cached'[b]
    BY DEF ThreeStates
  <2>1. cached'[b] = (cached[b] /\ b \notin Range(ev))
    BY <1>3
  <2>2. CASE b \in Range(taken)
    BY <1>2, <1>3, <2>2
  <2>3. CASE b \notin Range(taken)
    <3>1. b \in Range(free_blocks') <=> b \in Range(free)
      BY <1>2, <2>3
    <3>2. ref_counts'[b] = ref_counts[b]
      BY <1>3, <2>3
    <3> QED
      BY <1>1, <2>1, <3>1, <3>2
  <2> QED
    BY <2>2, <2>3
<1> QED
  BY <1>2, <1>10, <1>11, <1>12, <1>13 DEF IInv, InvariantHolds, FreeListDistinct

\* So does a reclaim that is not enough: only parked blocks changed state.
LEMMA FallShortKeeps ==
  ASSUME IInv, NEW n \in Nat, NEW ev \in Evictions(n),
         Unpin(ev), FallShort(free_blocks \o ev)
  PROVE  IInv'
<1>1. /\ free_blocks' \in Seq(Blocks) /\ IsInjective(free_blocks')
      /\ \A b \in Blocks : b \in Range(free_blocks') <=>
            ref_counts[b] = 0 /\ ~(cached[b] /\ b \notin Range(ev))
  BY EvictedParked, ToppedUp DEF FallShort
<1>2. /\ UNCHANGED <<ref_counts, block_tables, row_busy>>
      /\ cached' = [b \in Blocks |-> cached[b] /\ b \notin Range(ev)]
  BY DEF FallShort, Unpin
<1>3. TypeOK'
  BY <1>1, <1>2 DEF IInv, TypeOK
<1>4. NoAlias' /\ RefCountExact'
  BY <1>2 DEF IInv, InvariantHolds, NoAlias, RefCountExact, Holders
<1>5. ThreeStates'
  BY <1>1, <1>2 DEF ThreeStates
<1> QED
  BY <1>1, <1>3, <1>4, <1>5 DEF IInv, InvariantHolds, FreeListDistinct

\* Mounting a run of distinct mountable blocks, none of them the row's own.
LEMMA MountKeeps ==
  ASSUME IInv, NEW row \in Rows, NEW blocks \in Seq(Blocks),
         ReserveSharedPrefix(row, blocks)
  PROVE  IInv'
<1> DEFINE table == block_tables[row]
<1>1. /\ IsInjective(blocks)
      /\ Range(blocks) \subseteq Mountable \ Range(table)
      /\ block_tables' = [block_tables EXCEPT ![row] = blocks \o table]
      /\ ref_counts' = [b \in Blocks |->
                          IF b \in Range(blocks) THEN ref_counts[b] + 1 ELSE ref_counts[b]]
      /\ UNCHANGED <<free_blocks, cached, row_busy>>
  BY DEF ReserveSharedPrefix, CanMount, IInv, TypeOK
<1>2. /\ table \in Seq(Blocks) /\ IsInjective(table)
      /\ block_tables \in [Rows -> Seq(Blocks)]
      /\ ref_counts \in [Blocks -> Nat]
      /\ \A r \in Rows : IsInjective(block_tables[r])
      /\ \A b \in Blocks : ref_counts[b] = Cardinality(Holders(b))
      /\ \A b \in Blocks : b \in Range(free_blocks) <=> ref_counts[b] = 0 /\ ~cached[b]
  BY DEF IInv, TypeOK, InvariantHolds, NoAlias, RefCountExact, ThreeStates
<1> HIDE DEF table
<1>3. blocks \o table \in Seq(Blocks)
  BY <1>2, ConcatProperties
<1>4. IsInjective(blocks \o table)
  BY <1>1, <1>2, ConcatInjective
<1>5. Range(blocks \o table) = Range(blocks) \cup Range(table)
  BY <1>2, ConcatRange
<1>6. TypeOK'
  BY <1>1, <1>2, <1>3 DEF IInv, TypeOK
<1>7. NoAlias'
  BY <1>1, <1>2, <1>4 DEF NoAlias
<1>8. RefCountExact'
  <2> SUFFICES ASSUME NEW b \in Blocks
               PROVE  ref_counts'[b] = Cardinality(Holders(b)')
    BY DEF RefCountExact
  <2>1. TypeOK
    BY DEF IInv
  <2>2. CASE b \in Range(blocks)
    <3>1. Cardinality(Holders(b)') = Cardinality(Holders(b)) + 1
      BY <1>1, <1>5, <2>1, <2>2, HoldersChange DEF table
    <3> QED
      BY <3>1, <1>1, <1>2, <2>2
  <2>3. CASE b \notin Range(blocks)
    <3>1. Cardinality(Holders(b)') = Cardinality(Holders(b))
      BY <1>1, <1>5, <2>1, <2>3, HoldersChange DEF table
    <3> QED
      BY <3>1, <1>1, <1>2, <2>3
  <2> QED
    BY <2>2, <2>3
<1>9. ThreeStates'
  <2> SUFFICES ASSUME NEW b \in Blocks
               PROVE  b \in Range(free_blocks') <=> ref_counts'[b] = 0 /\ ~cached'[b]
    BY DEF ThreeStates
  <2>1. CASE b \in Range(blocks)
    <3>1. cached[b] \/ ref_counts[b] > 0
      BY <1>1, <2>1 DEF Mountable
    <3> QED
      BY <3>1, <1>1, <1>2, <2>1
  <2>2. CASE b \notin Range(blocks)
    BY <1>1, <1>2, <2>2
  <2> QED
    BY <2>1, <2>2
<1> QED
  BY <1>1, <1>6, <1>7, <1>8, <1>9 DEF IInv, InvariantHolds, FreeListDistinct

\* Dropping a row's entries from start on: its last references go back to the
\* free list or park.
LEMMA FreeKeeps ==
  ASSUME IInv, NEW row \in Rows, NEW start \in Nat, FreeBlocksFrom(row, start)
  PROVE  IInv'
<1> DEFINE table == block_tables[row]
           kept == SubSeq(table, 1, start)
           dropped == SubSeq(table, start + 1, Len(table))
<1>1. /\ start \in 0 .. Len(table)
      /\ ref_counts' = [b \in Blocks |->
                          IF b \in Range(dropped) THEN ref_counts[b] - 1 ELSE ref_counts[b]]
      /\ block_tables' = [block_tables EXCEPT ![row] = kept]
      /\ row_busy' = [row_busy EXCEPT ![row] = @ /\ start > 0]
      /\ UNCHANGED cached
  BY DEF FreeBlocksFrom, IInv, TypeOK
<1>2. PICK freed \in [1 .. Cardinality(Freed(dropped)) -> Freed(dropped)] :
        /\ Range(freed) = Freed(dropped)
        /\ InTableOrder(freed, dropped)
        /\ free_blocks' = free_blocks \o freed
  BY DEF FreeBlocksFrom
<1>3. /\ table \in Seq(Blocks) /\ IsInjective(table)
      /\ block_tables \in [Rows -> Seq(Blocks)]
      /\ ref_counts \in [Blocks -> Nat]
      /\ cached \in [Blocks -> BOOLEAN]
      /\ row_busy \in [Rows -> BOOLEAN]
      /\ \A r \in Rows : IsInjective(block_tables[r])
      /\ \A b \in Blocks : ref_counts[b] = Cardinality(Holders(b))
      /\ free_blocks \in Seq(Blocks) /\ IsInjective(free_blocks)
      /\ \A b \in Blocks : b \in Range(free_blocks) <=> ref_counts[b] = 0 /\ ~cached[b]
  BY DEF IInv, TypeOK, InvariantHolds, NoAlias, RefCountExact, ThreeStates, FreeListDistinct
<1>4. /\ kept \in Seq(Blocks) /\ IsInjective(kept)
      /\ dropped \in Seq(Blocks) /\ IsInjective(dropped)
      /\ Range(kept) \cap Range(dropped) = {}
      /\ Range(kept) \cup Range(dropped) = Range(table)
  BY <1>1, <1>3, CutInjective
<1>5. Range(dropped) \subseteq Blocks
  BY <1>4, LenProperties DEF Range
<1> HIDE DEF table, kept, dropped
\* Every dropped block was held: by this row.
<1>6. \A b \in Range(dropped) : ref_counts[b] > 0
  <2> SUFFICES ASSUME NEW b \in Range(dropped)
               PROVE  ref_counts[b] > 0
    OBVIOUS
  <2>1. row \in Holders(b)
    BY <1>4 DEF Holders, table
  <2>2. ref_counts[b] # 0
    BY <1>5, <2>1, UnheldBlock
  <2> QED
    BY <1>3, <1>5, <2>2
<1>7. \A b \in Freed(dropped) : /\ b \in Blocks
                                /\ b \in Range(dropped)
                                /\ ref_counts[b] = 1
                                /\ ~cached[b]
  BY <1>5 DEF Freed
<1>8. /\ freed \in Seq(Blocks)
      /\ IsInjective(freed)
  <2>1. IsFiniteSet(Freed(dropped))
    <3>1. IsFiniteSet(Blocks)
      BY PoolSizes, FS_Interval DEF Blocks
    <3> QED
      BY <3>1, <1>7, FS_Subset
  <2>2. Cardinality(Freed(dropped)) \in Nat
    BY <2>1, FS_CardinalityType
  <2>3. freed \in Seq(Blocks) /\ DOMAIN freed = 1 .. Len(freed) /\ Len(freed) \in Nat
    BY <2>2, <1>2, <1>7
  <2>4. ASSUME NEW i \in DOMAIN freed, NEW j \in DOMAIN freed, i < j
        PROVE  freed[i] # freed[j]
    <3>1. PICK p, q \in DOMAIN dropped : p < q /\ dropped[p] = freed[i] /\ dropped[q] = freed[j]
      BY <1>2, <2>4 DEF InTableOrder
    <3>2. p # q
      BY <3>1, <1>4, LenProperties
    <3> QED
      BY <3>1, <3>2, <1>4 DEF IsInjective
  <2>5. \A i, j \in DOMAIN freed : i < j \/ i = j \/ j < i
    BY <2>3
  <2> QED
    BY <2>3, <2>4, <2>5 DEF IsInjective
<1>9. Range(free_blocks) \cap Range(freed) = {}
  BY <1>2, <1>3, <1>7
<1>10. /\ free_blocks' \in Seq(Blocks)
       /\ IsInjective(free_blocks')
       /\ Range(free_blocks') = Range(free_blocks) \cup Range(freed)
  BY <1>2, <1>3, <1>8, <1>9, ConcatProperties, ConcatInjective, ConcatRange
<1>11. TypeOK'
  <2>1. ref_counts' \in [Blocks -> Nat]
    BY <1>1, <1>3, <1>6
  <2>2. row_busy' \in [Rows -> BOOLEAN]
    BY <1>1, <1>3
  <2> QED
    BY <1>1, <1>3, <1>4, <1>10, <2>1, <2>2 DEF TypeOK
<1>12. NoAlias'
  BY <1>1, <1>3, <1>4 DEF NoAlias
<1>13. RefCountExact'
  <2> SUFFICES ASSUME NEW b \in Blocks
               PROVE  ref_counts'[b] = Cardinality(Holders(b)')
    BY DEF RefCountExact
  <2>1. TypeOK
    BY DEF IInv
  <2>2. CASE b \in Range(dropped)
    <3>1. Cardinality(Holders(b)') = Cardinality(Holders(b)) - 1
      BY <1>1, <1>4, <2>1, <2>2, HoldersChange DEF table
    <3> QED
      BY <3>1, <1>1, <1>3, <2>2
  <2>3. CASE b \notin Range(dropped)
    <3>1. Cardinality(Holders(b)') = Cardinality(Holders(b))
      BY <1>1, <1>4, <2>1, <2>3, HoldersChange DEF table
    <3> QED
      BY <3>1, <1>1, <1>3, <2>3
  <2> QED
    BY <2>2, <2>3
<1>14. ThreeStates'
  <2> SUFFICES ASSUME NEW b \in Blocks
               PROVE  b \in Range(free_blocks') <=> ref_counts'[b] = 0 /\ ~cached'[b]
    BY DEF ThreeStates
  <2>1. CASE b \in Freed(dropped)
    BY <1>1, <1>2, <1>3, <1>7, <1>10, <2>1
  <2>2. CASE b \in Range(dropped) /\ b \notin Freed(dropped)
    BY <1>1, <1>2, <1>3, <1>6, <1>10, <2>2 DEF Freed
  <2>3. CASE b \notin Range(dropped)
    BY <1>1, <1>2, <1>3, <1>7, <1>10, <2>3
  <2> QED
    BY <2>1, <2>2, <2>3
<1> QED
  BY <1>10, <1>11, <1>12, <1>13, <1>14 DEF IInv, InvariantHolds, FreeListDistinct

\* Pinning a held block, having given back at most one parked block.
LEMMA PinKeeps ==
  ASSUME IInv, NEW b \in Blocks, NEW ev \in OneParked, MarkCached(b, ev)
  PROVE  IInv'
<1>1. ev \in Seq(Blocks) /\ IsInjective(ev) /\ Range(ev) \subseteq Parked
  <2>1. CASE ev = <<>>
    BY <2>1 DEF Range, IsInjective
  <2>2. ASSUME NEW p \in Parked, ev = <<p>>
        PROVE  ev \in Seq(Blocks) /\ IsInjective(ev) /\ Range(ev) \subseteq Parked
    BY <2>2 DEF Range, IsInjective, Parked
  <2> QED
    BY <2>1, <2>2 DEF OneParked
<1>2. UNCHANGED <<ref_counts, block_tables, row_busy>>
  BY DEF MarkCached
<1>3. /\ free_blocks' \in Seq(Blocks) /\ IsInjective(free_blocks')
      /\ \A c \in Blocks : c \in Range(free_blocks') <=>
            ref_counts[c] = 0 /\ ~(cached[c] /\ c \notin Range(ev))
  BY <1>1, ToppedUp DEF MarkCached
<1>4. cached' \in [Blocks -> BOOLEAN]
  BY DEF MarkCached, IInv, TypeOK
<1>5. NoAlias' /\ RefCountExact'
  BY <1>2 DEF IInv, InvariantHolds, NoAlias, RefCountExact, Holders
<1>6. TypeOK'
  BY <1>2, <1>3, <1>4 DEF IInv, TypeOK
<1>7. ThreeStates'
  <2>1. \A c \in Blocks : cached'[c] <=> c = b \/ (cached[c] /\ c \notin Range(ev))
    BY DEF MarkCached
  <2>2. ref_counts[b] # 0
    BY DEF MarkCached
  <2>3. \A c \in Blocks : ref_counts'[c] = ref_counts[c]
    BY <1>2
  <2> HIDE DEF MarkCached
  <2> QED
    BY <1>3, <2>1, <2>2, <2>3 DEF ThreeStates
<1> QED
  BY <1>3, <1>5, <1>6, <1>7 DEF IInv, InvariantHolds, FreeListDistinct

\* A run of mountable blocks is a sequence of blocks.
LEMMA MountsAreSeqs ==
  ASSUME NEW row \in Rows, NEW blocks \in Mounts(row)
  PROVE  blocks \in Seq(Blocks)
<1>1. PICK k \in 1 .. MaxBlocksPerSeq : blocks \in [1 .. k -> Mountable]
  BY DEF Mounts
<1>2. Mountable \subseteq Blocks
  BY DEF Mountable
<1> QED
  BY <1>1, <1>2, PoolSizes

(***************************************************************************)
(* The pool as a whole.                                                    *)
(***************************************************************************)

\* The empty pool is consistent.
LEMMA InitIInv == Init => IInv
<1> SUFFICES ASSUME Init PROVE IInv
  OBVIOUS
<1> USE PoolSizes DEF Init
<1>1. /\ free_blocks \in Seq(Blocks) /\ DOMAIN free_blocks = 1 .. NumBlocks
      /\ \A i \in 1 .. NumBlocks : free_blocks[i] = NumBlocks - i
  BY DEF Blocks
<1>2. TypeOK
  BY <1>1 DEF TypeOK
<1>3. FreeListDistinct
  BY <1>1 DEF FreeListDistinct, IsInjective
<1>4. NoAlias
  BY DEF NoAlias, IsInjective
<1>5. RefCountExact
  <2>1. \A b \in Blocks : Holders(b) = {}
    BY DEF Holders, Range
  <2> QED
    BY <2>1, FS_EmptySet DEF RefCountExact
<1>6. ThreeStates
  <2> SUFFICES ASSUME NEW b \in Blocks
               PROVE  b \in Range(free_blocks)
    BY DEF ThreeStates
  <2>1. NumBlocks - b \in 1 .. NumBlocks /\ free_blocks[NumBlocks - b] = b
    BY <1>1 DEF Blocks
  <2> QED
    BY <1>1, <2>1 DEF Range
<1> QED
  BY <1>2, <1>3, <1>4, <1>5, <1>6 DEF IInv, InvariantHolds

\* Every operation keeps the pool consistent.
LEMMA NextIInv == IInv /\ [Next]_vars => IInv'
<1> SUFFICES ASSUME IInv, [Next]_vars PROVE IInv'
  OBVIOUS
<1> USE PoolSizes
<1>1. ASSUME NEW n \in 0 .. MaxBlocksPerSeq, NEW ev \in Evictions(n), AllocateBlocks(n, ev)
      PROVE  IInv'
  <2>1. PICK row \in Rows :
          /\ Unpin(ev)
          /\ \/ /\ Len(free_blocks \o ev) >= n
                /\ Take(row, free_blocks \o ev, n)
                /\ row_busy' = [row_busy EXCEPT ![row] = TRUE]
             \/ FallShort(free_blocks \o ev)
    BY <1>1 DEF AllocateBlocks
  <2>2. CASE FallShort(free_blocks \o ev)
    BY <2>1, <2>2, FallShortKeeps
  <2>3. CASE /\ Len(free_blocks \o ev) >= n
             /\ Take(row, free_blocks \o ev, n)
             /\ row_busy' = [row_busy EXCEPT ![row] = TRUE]
    <3>1. row_busy' \in [Rows -> BOOLEAN]
      BY <2>3 DEF IInv, TypeOK
    <3> QED
      BY <2>1, <2>3, <3>1, TakeKeeps
  <2> QED
    BY <2>1, <2>2, <2>3
<1>2. ASSUME NEW row \in Rows, NEW n \in 1 .. MaxBlocksPerSeq, NEW ev \in Evictions(n),
             AppendBlocks(row, n, ev)
      PROVE  IInv'
  <2>1. CASE FallShort(free_blocks \o ev)
    BY <1>2, <2>1, FallShortKeeps DEF AppendBlocks
  <2>2. CASE Len(free_blocks \o ev) >= n /\ Take(row, free_blocks \o ev, n) /\ UNCHANGED row_busy
    <3>1. row_busy' \in [Rows -> BOOLEAN]
      BY <2>2 DEF IInv, TypeOK
    <3> QED
      BY <1>2, <2>2, <3>1, TakeKeeps DEF AppendBlocks
  <2> QED
    BY <1>2, <2>1, <2>2 DEF AppendBlocks
<1>3. ASSUME NEW row \in Rows, NEW blocks \in Mounts(row), ReserveSharedPrefix(row, blocks)
      PROVE  IInv'
  BY <1>3, MountsAreSeqs, MountKeeps
<1>4. ASSUME NEW row \in Rows, NEW start \in 0 .. MaxBlocksPerSeq, FreeBlocksFrom(row, start)
      PROVE  IInv'
  BY <1>4, FreeKeeps
<1>5. ASSUME NEW b \in Blocks, NEW ev \in OneParked, MarkCached(b, ev)
      PROVE  IInv'
  BY <1>5, PinKeeps
<1>6. CASE UNCHANGED vars
  BY <1>6 DEF vars, IInv, TypeOK, InvariantHolds, FreeListDistinct, NoAlias, RefCountExact,
              ThreeStates, Holders
<1> QED
  BY <1>1, <1>2, <1>3, <1>4, <1>5, <1>6 DEF Next

\* The pool's bookkeeping stays well typed.
THEOREM TypeCorrect == Spec => []TypeOK
<1>1. IInv => TypeOK
  BY DEF IInv
<1> QED
  BY InitIInv, NextIInv, <1>1, PTL DEF Spec

\* BlockAllocator::invariant_holds() is true after every operation, for every
\* pool size: the destructor's LOG(FATAL) cannot fire.
THEOREM PoolConsistent == Spec => []InvariantHolds
<1>1. IInv => InvariantHolds
  BY DEF IInv
<1> QED
  BY InitIInv, NextIInv, <1>1, PTL DEF Spec

(***************************************************************************)
(* What a step may never do.                                               *)
(***************************************************************************)

\* Who holds what after a row took blocks off the topped-up free list: nobody
\* held a taken block, and an evicted block is taken or is free.
LEMMA TakeHolders ==
  ASSUME IInv, NEW row \in Rows, NEW n \in Nat, NEW ev \in Evictions(n),
         Len(free_blocks \o ev) >= n, Take(row, free_blocks \o ev, n)
  PROVE  /\ \A b \in Blocks : Holders(b) # {} => Holders(b)' = Holders(b)
         /\ \A b \in Range(ev) : b \in Range(free_blocks') \/ Holders(b)' = {row}
<1> DEFINE free == free_blocks \o ev
           taken == Popped(free, n)
           table == block_tables[row]
<1>1. /\ free \in Seq(Blocks) /\ IsInjective(free)
      /\ \A b \in Blocks : b \in Range(free) <=>
            ref_counts[b] = 0 /\ ~(cached[b] /\ b \notin Range(ev))
  BY EvictedParked, ToppedUp
<1>2. /\ taken \in Seq(Blocks)
      /\ Range(taken) \cup Range(free_blocks') = Range(free)
  BY <1>1, PoppedBack DEF Take
<1>3. /\ block_tables' = [block_tables EXCEPT ![row] = table \o taken]
      /\ block_tables \in [Rows -> Seq(Blocks)]
      /\ table \in Seq(Blocks)
  BY DEF Take, IInv, TypeOK
<1> HIDE DEF free, taken, table
<1>4. Range(table \o taken) = Range(table) \cup Range(taken)
  BY <1>2, <1>3, ConcatRange
<1>5. /\ block_tables'[row] = table \o taken
      /\ \A r \in Rows \ {row} : block_tables'[r] = block_tables[r]
  BY <1>3
<1>6. \A b \in Blocks : Holders(b)' = Holders(b) \cup (IF b \in Range(taken) THEN {row} ELSE {})
  BY <1>4, <1>5 DEF Holders, table
<1>7. \A b \in Blocks : b \in Range(taken) => Holders(b) = {}
  BY <1>1, <1>2, UnheldBlock
<1>8. \A b \in Range(ev) : b \in Blocks /\ b \in Range(free)
  <2>1. \A b \in Range(ev) : b \in Blocks /\ ref_counts[b] = 0
    BY EvictedParked DEF Parked
  <2> QED
    BY <2>1, <1>1
<1> QED
  BY <1>2, <1>6, <1>7, <1>8

\* Nobody's table changed.
LEMMA SameHolders ==
  ASSUME UNCHANGED block_tables, NEW b
  PROVE  Holders(b)' = Holders(b)
BY DEF Holders

\* A cut row holds no block it did not hold before.
LEMMA CutHolders ==
  ASSUME IInv, NEW row \in Rows, NEW start \in Nat, FreeBlocksFrom(row, start), NEW b \in Blocks
  PROVE  Holders(b)' \subseteq Holders(b)
<1> DEFINE table == block_tables[row]
           kept == SubSeq(table, 1, start)
<1>1. /\ start \in 0 .. Len(table)
      /\ table \in Seq(Blocks) /\ IsInjective(table)
      /\ block_tables \in [Rows -> Seq(Blocks)]
      /\ block_tables' = [block_tables EXCEPT ![row] = kept]
  BY DEF FreeBlocksFrom, IInv, TypeOK, InvariantHolds, NoAlias
<1>2. Range(kept) \subseteq Range(table)
  BY <1>1, CutInjective
<1> HIDE DEF kept
<1> QED
  BY <1>1, <1>2 DEF Holders

\* A step that gives a row a block some row already holds leaves the free list
\* alone, and one that unpins a block unpins one that no row reads.
LEMMA StepKeepsHeld ==
  ASSUME IInv, Next, NEW b \in Blocks
  PROVE  /\ Holders(b) # {} /\ ~(Holders(b)' \subseteq Holders(b)) => free_blocks' = free_blocks
         /\ cached[b] /\ ~cached'[b] =>
              /\ Holders(b) = {}
              /\ b \in Range(free_blocks') \/ Cardinality(Holders(b)') = 1
<1> DEFINE Goal ==
      /\ Holders(b) # {} /\ ~(Holders(b)' \subseteq Holders(b)) => free_blocks' = free_blocks
      /\ cached[b] /\ ~cached'[b] =>
           /\ Holders(b) = {}
           /\ b \in Range(free_blocks') \/ Cardinality(Holders(b)') = 1
<1> USE PoolSizes
<1>t. ASSUME NEW row \in Rows, NEW n \in Nat, NEW ev \in Evictions(n), Unpin(ev),
             Len(free_blocks \o ev) >= n, Take(row, free_blocks \o ev, n)
      PROVE  Goal
  <2>1. /\ Holders(b) # {} => Holders(b)' = Holders(b)
        /\ b \in Range(ev) => b \in Range(free_blocks') \/ Holders(b)' = {row}
    BY <1>t, TakeHolders
  <2>2. cached[b] /\ ~cached'[b] => b \in Range(ev)
    BY <1>t DEF Unpin
  <2>3. b \in Range(ev) => Holders(b) = {}
    BY <1>t, EvictedParked, UnheldBlock DEF Parked
  <2>4. Cardinality({row}) = 1
    BY FS_Singleton
  <2> QED
    BY <2>1, <2>2, <2>3, <2>4
<1>f. ASSUME NEW n \in Nat, NEW ev \in Evictions(n), Unpin(ev), FallShort(free_blocks \o ev)
      PROVE  Goal
  <2>1. Holders(b)' = Holders(b)
    BY <1>f, SameHolders DEF FallShort
  <2>2. cached[b] /\ ~cached'[b] => b \in Range(ev)
    BY <1>f DEF Unpin
  <2>3. b \in Range(ev) => Holders(b) = {}
    BY <1>f, EvictedParked, UnheldBlock DEF Parked
  <2>4. Range(free_blocks') = Range(free_blocks) \cup Range(ev)
    BY <1>f, EvictedParked, ConcatRange DEF FallShort, IInv, TypeOK
  <2> QED
    BY <2>1, <2>2, <2>3, <2>4
<1> HIDE DEF Goal
<1>1. ASSUME NEW n \in 0 .. MaxBlocksPerSeq, NEW ev \in Evictions(n), AllocateBlocks(n, ev)
      PROVE  Goal
  BY <1>1, <1>t, <1>f DEF AllocateBlocks
<1>2. ASSUME NEW row \in Rows, NEW n \in 1 .. MaxBlocksPerSeq, NEW ev \in Evictions(n),
             AppendBlocks(row, n, ev)
      PROVE  Goal
  BY <1>2, <1>t, <1>f DEF AppendBlocks
<1>3. ASSUME NEW row \in Rows, NEW blocks \in Mounts(row), ReserveSharedPrefix(row, blocks)
      PROVE  Goal
  BY <1>3 DEF ReserveSharedPrefix, Goal
<1>4. ASSUME NEW row \in Rows, NEW start \in 0 .. MaxBlocksPerSeq, FreeBlocksFrom(row, start)
      PROVE  Goal
  <2>1. Holders(b)' \subseteq Holders(b)
    BY <1>4, CutHolders
  <2>2. UNCHANGED cached
    BY <1>4 DEF FreeBlocksFrom
  <2> QED
    BY <2>1, <2>2 DEF Goal
<1>5. ASSUME NEW c \in Blocks, NEW ev \in OneParked, MarkCached(c, ev)
      PROVE  Goal
  <2>1. Holders(b)' = Holders(b)
    BY <1>5, SameHolders DEF MarkCached
  <2>2. ev \in Seq(Blocks) /\ Range(ev) \subseteq Parked
    <3>1. CASE ev = <<>>
      BY <3>1 DEF Range
    <3>2. ASSUME NEW p \in Parked, ev = <<p>>
          PROVE  ev \in Seq(Blocks) /\ Range(ev) \subseteq Parked
      BY <3>2 DEF Range, Parked
    <3> QED
      BY <3>1, <3>2 DEF OneParked
  <2>3. Range(free_blocks') = Range(free_blocks) \cup Range(ev)
    BY <1>5, <2>2, ConcatRange DEF MarkCached, IInv, TypeOK
  <2>4. cached[b] /\ ~cached'[b] => b \in Range(ev)
    BY <1>5 DEF MarkCached
  <2>5. b \in Range(ev) => Holders(b) = {}
    BY <2>2, UnheldBlock DEF Parked
  <2> QED
    BY <2>1, <2>3, <2>4, <2>5 DEF Goal
<1>6. Goal
  BY <1>1, <1>2, <1>3, <1>4, <1>5 DEF Next
<1> QED
  BY <1>6 DEF Goal

\* An allocation never hands out a block that some row still reads, with any
\* reclaim hook: a row comes to share a block by a mount only.
THEOREM HeldStaysHeld == Spec => HeldNeverHandedOut
<1>1. ASSUME IInv, [Next]_vars
      PROVE  [\A b \in Blocks :
                Holders(b) # {} /\ ~(Holders(b)' \subseteq Holders(b))
                  => free_blocks' = free_blocks]_vars
  BY <1>1, StepKeepsHeld
<1> QED
  BY InitIInv, NextIInv, <1>1, PTL DEF Spec, HeldNeverHandedOut

\* evict_cached only ever unpins a block that no row reads, and the block is
\* not lost: it is free, or went to one row in the same call.
THEOREM UnpinIsSafe == Spec => UnpinnedOnlyWhenParked
<1>1. ASSUME IInv, [Next]_vars
      PROVE  [\A b \in Blocks :
                cached[b] /\ ~cached'[b]
                  => /\ Holders(b) = {}
                     /\ \/ b \in Range(free_blocks')
                        \/ Cardinality(Holders(b)') = 1]_vars
  BY <1>1, StepKeepsHeld
<1> QED
  BY InitIInv, NextIInv, <1>1, PTL DEF Spec, UnpinnedOnlyWhenParked

(***************************************************************************)
(* Rows and growth.                                                        *)
(***************************************************************************)

\* n indices are n, counted from 0 or from 1.
LEMMA IndexCount ==
  ASSUME NEW n \in Nat
  PROVE  /\ IsFiniteSet(0 .. n - 1) /\ Cardinality(0 .. n - 1) = n
         /\ IsFiniteSet(1 .. n) /\ Cardinality(1 .. n) = n
<1>1. n - 1 \in Int /\ n \in Int /\ 0 \in Int /\ 1 \in Int
  OBVIOUS
<1>2. IsFiniteSet(0 .. n - 1) /\ IsFiniteSet(1 .. n)
  BY <1>1, FS_Interval
<1>3. /\ Cardinality(0 .. n - 1) = IF 0 > n - 1 THEN 0 ELSE (n - 1) - 0 + 1
      /\ Cardinality(1 .. n) = IF 1 > n THEN 0 ELSE n - 1 + 1
  BY <1>1, FS_Interval
<1> QED
  BY <1>2, <1>3

\* A row that is cut keeps no more than it had.
LEMMA CutLength ==
  ASSUME NEW s \in Seq(Blocks), NEW start \in 0 .. Len(s)
  PROVE  /\ Len(SubSeq(s, 1, start)) = start
         /\ start = 0 => SubSeq(s, 1, start) = <<>>
<1>1. Len(s) \in Nat
  BY LenProperties
<1>2. Len(SubSeq(s, 1, start)) = start
  BY <1>1, SubSeqProperties
<1>3. SubSeq(s, 1, 0) = <<>>
  BY <1>1, SubSeqProperties, EmptySeq
<1> QED
  BY <1>2, <1>3

\* Every operation leaves an unowned row empty and no table too long.
LEMMA NextRowsOwned == IInv /\ RowsOwned /\ [Next]_vars => RowsOwned'
<1> SUFFICES ASSUME IInv, RowsOwned, [Next]_vars PROVE RowsOwned'
  OBVIOUS
<1> USE PoolSizes
<1>1. /\ block_tables \in [Rows -> Seq(Blocks)]
      /\ row_busy \in [Rows -> BOOLEAN]
      /\ \A r \in Rows : Len(block_tables[r]) \in Nat
  BY LenProperties DEF IInv, TypeOK
<1>2. ASSUME NEW row \in Rows, NEW n \in Nat, NEW ev \in Evictions(n),
             Take(row, free_blocks \o ev, n), Len(free_blocks \o ev) >= n
      PROVE  /\ Len(block_tables'[row]) = Len(block_tables[row]) + n
             /\ \A r \in Rows \ {row} : block_tables'[r] = block_tables[r]
  <2> DEFINE free == free_blocks \o ev
             taken == Popped(free, n)
  <2>1. free \in Seq(Blocks) /\ IsInjective(free)
    BY EvictedParked, ToppedUp
  <2>2. taken \in Seq(Blocks) /\ Len(taken) = n
    BY <1>2, <2>1, PoppedBack
  <2>3. block_tables' = [block_tables EXCEPT ![row] = @ \o taken]
    BY <1>2 DEF Take
  <2> HIDE DEF taken
  <2>4. block_tables'[row] = block_tables[row] \o taken
    BY <1>1, <2>3
  <2>5. Len(block_tables[row] \o taken) = Len(block_tables[row]) + n
    <3>1. block_tables[row] \in Seq(Blocks)
      BY <1>1
    <3> QED
      BY <2>2, <3>1, ConcatProperties
  <2> QED
    BY <1>1, <2>3, <2>4, <2>5
<1>3. ASSUME NEW n \in 0 .. MaxBlocksPerSeq, NEW ev \in Evictions(n), AllocateBlocks(n, ev)
      PROVE  RowsOwned'
  <2>1. PICK row \in Rows :
          /\ IsFirstFreeRow(row)
          /\ \/ /\ Len(free_blocks \o ev) >= n
                /\ Take(row, free_blocks \o ev, n)
                /\ row_busy' = [row_busy EXCEPT ![row] = TRUE]
             \/ FallShort(free_blocks \o ev)
    BY <1>3 DEF AllocateBlocks
  <2>2. CASE FallShort(free_blocks \o ev)
    BY <2>2 DEF FallShort, RowsOwned
  <2>3. CASE /\ Len(free_blocks \o ev) >= n
             /\ Take(row, free_blocks \o ev, n)
             /\ row_busy' = [row_busy EXCEPT ![row] = TRUE]
    <3>1. block_tables[row] = <<>>
      BY <2>1 DEF IsFirstFreeRow, RowsOwned
    <3>2. Len(block_tables'[row]) = n
      BY <1>2, <2>3, <3>1
    <3>3. \A r \in Rows \ {row} : block_tables'[r] = block_tables[r] /\ row_busy'[r] = row_busy[r]
      BY <1>1, <1>2, <2>3
    <3>4. row_busy'[row]
      BY <1>1, <2>3
    <3> QED
      BY <3>2, <3>3, <3>4 DEF RowsOwned
  <2> QED
    BY <2>1, <2>2, <2>3
<1>4. ASSUME NEW row \in Rows, NEW n \in 1 .. MaxBlocksPerSeq, NEW ev \in Evictions(n),
             AppendBlocks(row, n, ev)
      PROVE  RowsOwned'
  <2>1. CASE FallShort(free_blocks \o ev)
    BY <2>1 DEF FallShort, RowsOwned
  <2>2. CASE Len(free_blocks \o ev) >= n /\ Take(row, free_blocks \o ev, n) /\ UNCHANGED row_busy
    <3>1. row_busy[row] /\ Len(block_tables[row]) + n <= MaxBlocksPerSeq
      BY <1>4 DEF AppendBlocks
    <3>2. /\ Len(block_tables'[row]) = Len(block_tables[row]) + n
          /\ \A r \in Rows \ {row} : block_tables'[r] = block_tables[r]
      BY <1>2, <2>2
    <3> QED
      BY <2>2, <3>1, <3>2 DEF RowsOwned
  <2> QED
    BY <1>4, <2>1, <2>2 DEF AppendBlocks
<1>5. ASSUME NEW row \in Rows, NEW blocks \in Mounts(row), ReserveSharedPrefix(row, blocks)
      PROVE  RowsOwned'
  <2>1. /\ row_busy[row] /\ row_busy' = row_busy
        /\ Len(block_tables[row]) + Len(blocks) <= MaxBlocksPerSeq
        /\ block_tables'[row] = blocks \o block_tables[row]
        /\ \A r \in Rows \ {row} : block_tables'[r] = block_tables[r]
    BY <1>1, <1>5 DEF ReserveSharedPrefix, CanMount
  <2>2. Len(blocks \o block_tables[row]) = Len(blocks) + Len(block_tables[row])
    BY <1>1, MountsAreSeqs, ConcatProperties
  <2>3. Len(blocks) \in Nat
    BY MountsAreSeqs, LenProperties
  <2> QED
    BY <1>1, <2>1, <2>2, <2>3 DEF RowsOwned
<1>6. ASSUME NEW row \in Rows, NEW start \in 0 .. MaxBlocksPerSeq, FreeBlocksFrom(row, start)
      PROVE  RowsOwned'
  <2> DEFINE left == SubSeq(block_tables[row], 1, start)
  <2>1. /\ start \in 0 .. Len(block_tables[row])
        /\ block_tables' = [block_tables EXCEPT ![row] = left]
        /\ row_busy' = [row_busy EXCEPT ![row] = @ /\ start > 0]
    BY <1>1, <1>6 DEF FreeBlocksFrom
  <2>2. Len(left) = start /\ (start = 0 => left = <<>>)
    BY <1>1, <2>1, CutLength
  <2> HIDE DEF left
  <2>3. \A r \in Rows \ {row} : block_tables'[r] = block_tables[r] /\ row_busy'[r] = row_busy[r]
    BY <1>1, <2>1
  <2>4. block_tables'[row] = left /\ row_busy'[row] = (row_busy[row] /\ start > 0)
    BY <1>1, <2>1
  <2>5. Len(left) <= MaxBlocksPerSeq /\ (~row_busy[row] => left = <<>>)
    <3>1. ~row_busy[row] => start = 0
      BY <1>1, <2>1 DEF RowsOwned
    <3> QED
      BY <1>1, <2>1, <2>2, <3>1 DEF RowsOwned
  <2>6. /\ ~row_busy'[row] => block_tables'[row] = <<>>
        /\ Len(block_tables'[row]) <= MaxBlocksPerSeq
    BY <1>1, <2>1, <2>2, <2>4, <2>5
  <2> QED
    BY <2>3, <2>6 DEF RowsOwned
<1>7. ASSUME NEW b \in Blocks, NEW ev \in OneParked, MarkCached(b, ev)
      PROVE  RowsOwned'
  BY <1>7 DEF MarkCached, RowsOwned
<1>8. CASE UNCHANGED vars
  BY <1>8 DEF vars, RowsOwned
<1> QED
  BY <1>3, <1>4, <1>5, <1>6, <1>7, <1>8 DEF Next

\* When no block is free or parked, each is at some entry of some table, and
\* two blocks cannot be at one entry: full tables are the only way to run out.
LEMMA EnoughForEveryRow == IInv /\ RowsOwned => RoomToGrow
<1> USE PoolSizes
<1> SUFFICES ASSUME IInv, RowsOwned,
                    NEW r \in Rows, Len(block_tables[r]) < MaxBlocksPerSeq,
                    NumBlocks >= Cardinality(InUseWith(r)) * MaxBlocksPerSeq,
                    free_blocks = <<>>, Parked = {}
             PROVE  FALSE
  BY DEF RoomToGrow
<1> DEFINE used == InUseWith(r)
           entries == (used \X (1 .. MaxBlocksPerSeq))
           missing == <<r, MaxBlocksPerSeq>>
           places == entries \ {missing}
           At(b, e) == /\ e[2] \in 1 .. Len(block_tables[e[1]])
                       /\ block_tables[e[1]][e[2]] = b
<1>1. /\ block_tables \in [Rows -> Seq(Blocks)]
      /\ ref_counts \in [Blocks -> Nat]
      /\ \A q \in Rows : Len(block_tables[q]) \in Nat /\ Len(block_tables[q]) <= MaxBlocksPerSeq
      /\ \A q \in Rows : DOMAIN block_tables[q] = 1 .. Len(block_tables[q])
  BY LenProperties DEF IInv, TypeOK, RowsOwned
<1>2. MaxBlocksPerSeq \in 1 .. MaxBlocksPerSeq
  BY <1>1
<1>0. used \subseteq Rows /\ r \in used /\ \A q \in Rows \ used : block_tables[q] = <<>>
  BY DEF InUseWith, RowsOwned
<1>3. /\ IsFiniteSet(entries)
      /\ Cardinality(used) \in Nat
      /\ Cardinality(entries) = Cardinality(used) * MaxBlocksPerSeq
  <2>0. IsFiniteSet(Rows)
    BY IndexCount DEF Rows
  <2>1. IsFiniteSet(used) /\ Cardinality(used) \in Nat
    BY <1>0, <2>0, FS_Subset, FS_CardinalityType
  <2>2. IsFiniteSet(1 .. MaxBlocksPerSeq) /\ Cardinality(1 .. MaxBlocksPerSeq) = MaxBlocksPerSeq
    BY IndexCount
  <2> QED
    BY <2>1, <2>2, FS_Product
<1>4. IsFiniteSet(places) /\ Cardinality(places) = Cardinality(used) * MaxBlocksPerSeq - 1
  <2>1. missing \in entries
    BY <1>0, <1>2
  <2> HIDE DEF entries, missing
  <2> QED
    BY <1>3, <2>1, FS_RemoveElement
<1>5. IsFiniteSet(Blocks) /\ Cardinality(Blocks) = NumBlocks
  BY IndexCount DEF Blocks
<1>6. \A b \in Blocks : \E e \in places : At(b, e)
  <2> SUFFICES ASSUME NEW b \in Blocks PROVE \E e \in places : At(b, e)
    OBVIOUS
  <2>1. ref_counts[b] # 0
    <3>1. b \notin Range(free_blocks)
      BY DEF Range
    <3> QED
      BY <3>1 DEF IInv, InvariantHolds, ThreeStates, Parked
  <2>2. PICK q \in Rows : b \in Range(block_tables[q])
    BY <2>1, UnheldBlock DEF Holders
  <2>3. PICK i \in 1 .. Len(block_tables[q]) : block_tables[q][i] = b
    BY <1>1, <2>2 DEF Range
  <2>4. <<q, i>> \in entries
    <3>1. block_tables[q] # <<>>
      BY <1>1, <2>3
    <3> QED
      BY <1>0, <1>1, <3>1
  <2>5. <<q, i>> # missing
    BY <1>1
  <2> QED
    BY <2>3, <2>4, <2>5
<1> DEFINE place == [b \in Blocks |-> CHOOSE e \in places : At(b, e)]
<1>7. \A b \in Blocks : place[b] \in places /\ At(b, place[b])
  BY <1>6
<1> HIDE DEF places, place
<1>8. place \in [Blocks -> places]
  BY <1>7 DEF place
<1>9. Cardinality(places) < Cardinality(Blocks)
  <2> DEFINE c == Cardinality(InUseWith(r))
  <2>1. c \in Nat
    BY <1>3
  <2> HIDE DEF c
  <2>2. c * MaxBlocksPerSeq \in Nat
    BY <2>1
  <2> DEFINE n == c * MaxBlocksPerSeq
  <2>3. n \in Nat /\ NumBlocks >= n /\ Cardinality(places) = n - 1
    BY <1>4, <2>2 DEF c
  <2> HIDE DEF n
  <2> QED
    BY <1>5, <2>3
<1>10. PICK b, c \in Blocks : b # c /\ place[b] = place[c]
  BY <1>4, <1>5, <1>8, <1>9, FS_PigeonHole
<1> QED
  BY <1>7, <1>10

\* The tables of unowned rows are empty, and none outgrows its width.
THEOREM RowsStayOwned == Spec => []RowsOwned
<1>1. Init => RowsOwned
  BY PoolSizes, LenProperties DEF Init, RowsOwned
<1> QED
  BY InitIInv, NextIInv, NextRowsOwned, <1>1, PTL DEF Spec

\* What a growth does to who holds what: the row's table is extended by blocks
\* nobody held and the cache does not pin, and no other table moves.
LEMMA GrowthFacts ==
  ASSUME IInv, NEW row \in Rows, NEW n \in Nat, NEW ev \in Evictions(n),
         AppendBlocks(row, n, ev)
  PROVE  LET was == block_tables[row]
             is == block_tables'[row]
         IN  /\ row_busy' = row_busy
             /\ \A r \in Rows \ {row} : block_tables'[r] = block_tables[r]
             /\ Len(was) <= Len(is)
             /\ \A i \in 1 .. Len(was) : is[i] = was[i]
             /\ \A i \in Len(was) + 1 .. Len(is) :
                  /\ is[i] \in Blocks
                  /\ Holders(is[i]) = {}
                  /\ ~cached'[is[i]]
             /\ cached' = [b \in Blocks |-> cached[b] /\ b \notin Range(ev)]
<1> DEFINE free == free_blocks \o ev
           taken == Popped(free, n)
           was == block_tables[row]
           is == block_tables'[row]
<1>1. /\ block_tables \in [Rows -> Seq(Blocks)]
      /\ was \in Seq(Blocks) /\ Len(was) \in Nat
  BY LenProperties DEF IInv, TypeOK
<1>2. cached' = [b \in Blocks |-> cached[b] /\ b \notin Range(ev)]
  BY DEF AppendBlocks, Unpin
<1>3. CASE FallShort(free)
  <2>1. block_tables' = block_tables /\ row_busy' = row_busy
    BY <1>3 DEF FallShort
  <2> QED
    BY <1>1, <1>2, <2>1
<1>4. CASE Len(free) >= n /\ Take(row, free, n) /\ UNCHANGED row_busy
  <2>1. /\ free \in Seq(Blocks) /\ IsInjective(free)
        /\ \A b \in Blocks : b \in Range(free) <=>
              ref_counts[b] = 0 /\ ~(cached[b] /\ b \notin Range(ev))
    BY EvictedParked, ToppedUp
  <2>2. /\ taken \in Seq(Blocks) /\ Len(taken) = n
        /\ Range(taken) \cup Range(SubSeq(free, 1, Len(free) - n)) = Range(free)
    BY <1>4, <2>1, PoppedBack
  <2>3. block_tables' = [block_tables EXCEPT ![row] = @ \o taken]
    BY <1>4 DEF Take
  <2> HIDE DEF free, taken
  <2>4. is = was \o taken /\ \A r \in Rows \ {row} : block_tables'[r] = block_tables[r]
    BY <1>1, <2>3
  <2>5. /\ Len(was \o taken) = Len(was) + n
        /\ \A i \in 1 .. Len(was) : (was \o taken)[i] = was[i]
        /\ \A i \in 1 .. n : (was \o taken)[Len(was) + i] = taken[i]
    <3> HIDE DEF was
    <3>1. was \in Seq(Blocks) /\ taken \in Seq(Blocks)
      BY <1>1, <2>2
    <3>2. /\ Len(was \o taken) = Len(was) + Len(taken)
          /\ \A i \in 1 .. Len(was) + Len(taken) :
               (was \o taken)[i] = IF i <= Len(was) THEN was[i] ELSE taken[i - Len(was)]
      BY <3>1, ConcatProperties
    <3> QED
      BY <1>1, <2>2, <3>2
  <2>6. ASSUME NEW i \in 1 .. n
        PROVE  /\ taken[i] \in Blocks
               /\ Holders(taken[i]) = {}
               /\ ~cached'[taken[i]]
    <3>1. taken[i] \in Blocks /\ taken[i] \in Range(taken)
      BY <2>2, LenProperties DEF Range
    <3>2. ref_counts[taken[i]] = 0 /\ ~(cached[taken[i]] /\ taken[i] \notin Range(ev))
      BY <2>1, <2>2, <3>1
    <3> QED
      BY <1>2, <3>1, <3>2, UnheldBlock
  <2>7. ASSUME NEW i \in Len(was) + 1 .. Len(is)
        PROVE  is[i] \in Blocks /\ Holders(is[i]) = {} /\ ~cached'[is[i]]
    <3>1. i - Len(was) \in 1 .. n /\ i = Len(was) + (i - Len(was))
      BY <1>1, <2>4, <2>5
    <3>2. is[i] = taken[i - Len(was)]
      BY <2>4, <2>5, <3>1
    <3> QED
      BY <2>6, <3>1, <3>2
  <2> QED
    <3>1. Len(was) <= Len(is) /\ \A i \in 1 .. Len(was) : is[i] = was[i]
      BY <1>1, <2>2, <2>4, <2>5
    <3>2. row_busy' = row_busy
      BY <1>4
    <3> QED
      BY <1>2, <2>4, <2>7, <3>1, <3>2
<1> QED
  BY <1>3, <1>4 DEF AppendBlocks

\* With a full table's worth of blocks for every row in use (KVManager sizes the
\* pool so for all of them), a row with room in its table finds a block to grow
\* by, whatever the cache pins.
THEOREM RoomForEveryRow == Spec => []RoomToGrow
<1>1. Spec => []IInv
  BY InitIInv, NextIInv, PTL DEF Spec
<1> QED
  BY <1>1, RowsStayOwned, EnoughForEveryRow, PTL

=============================================================================
