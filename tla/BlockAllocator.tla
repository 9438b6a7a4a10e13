---------------------------- MODULE BlockAllocator ----------------------------
(***************************************************************************)
(* The paged KV pool's bookkeeping: physical blocks, the block-table row   *)
(* of each sequence, reference counts, and the pin the prefix cache puts   *)
(* on a block (scheduler/block_allocator.{h,cpp}).                         *)
(*                                                                         *)
(* Every public operation that changes the pool is an action.  The actions *)
(* take the blocks the reclaim hook evicts as a parameter, so that this    *)
(* module can leave them open (any hook) and PrefixCache can fix them (its *)
(* LRU order).  A call that returns -1 or false without changing anything  *)
(* is a stuttering step.  A block table is the sequence of its entries     *)
(* other than -1: they are always contiguous from entry 0.                 *)
(***************************************************************************)
EXTENDS Integers, Sequences, FiniteSets, Functions

CONSTANTS
  NumBlocks,       \* physical blocks of the pool
  NumRows,         \* block-table rows: sequences that may be admitted at once
  MaxBlocksPerSeq  \* width of a block-table row

ASSUME PoolSizes ==
  /\ NumBlocks \in Nat \ {0}
  /\ NumRows \in Nat
  /\ MaxBlocksPerSeq \in Nat

VARIABLES
  free_blocks,     \* LIFO free list, its back at the end of the sequence
  ref_counts,      \* per block: rows whose table mounts it
  cached,          \* per block: the prefix cache holds an entry for it
  block_tables,    \* per row: the blocks it mounts, in token order
  row_busy         \* per row: owned by a sequence

vars == <<free_blocks, ref_counts, cached, block_tables, row_busy>>

Blocks == 0 .. NumBlocks - 1
Rows == 0 .. NumRows - 1

TypeOK ==
  /\ free_blocks \in Seq(Blocks)
  /\ ref_counts \in [Blocks -> Nat]
  /\ cached \in [Blocks -> BOOLEAN]
  /\ block_tables \in [Rows -> Seq(Blocks)]
  /\ row_busy \in [Rows -> BOOLEAN]

-----------------------------------------------------------------------------
(* What the operations read.                                               *)

\* The rows whose table mounts b.
Holders(b) == {r \in Rows : b \in Range(block_tables[r])}

\* Mutant: eviction forgets that a row may still read the block.
ParkedOrHeld == {b \in Blocks : cached[b]}

\* The CACHED blocks: pinned by the cache and mounted nowhere.
Parked == {b \in Blocks : cached[b] /\ ref_counts[b] = 0}

\* The blocks reserve_shared_prefix accepts: a FREE block is not mountable.
Mountable == {b \in Blocks : cached[b] \/ ref_counts[b] > 0}

\* First fit over the rows.
IsFirstFreeRow(row) ==
  /\ ~row_busy[row]
  /\ \A r \in Rows : r < row => row_busy[r]

\* What a reclaim hook may evict when n blocks are wanted: distinct parked
\* blocks, never more than the free list is short of, and nothing when it is
\* not short.  How many of them it finds is the hook's affair.
Evictions(n) ==
  LET short_by == n - Len(free_blocks)
  IN  IF short_by <= 0
        THEN {<<>>}
        ELSE {ev \in UNION {[1 .. k -> Parked] : k \in 0 .. short_by} :
                IsInjective(ev)}

\* The n blocks popped off the back of a free list, in popping order.
Popped(free, n) == [i \in 1 .. n |-> free[Len(free) + 1 - i]]

\* Mutant: the last-reference check of the release is lost.
FreedWhileShared(dropped) == {b \in Range(dropped) : ~cached[b]}

\* Mutant: the pin test of the release is inverted, so blocks are stranded.
FreedIfPinned(dropped) == {b \in Range(dropped) : ref_counts[b] = 1 /\ cached[b]}

\* The blocks of a dropped run of table entries that go back to the free list:
\* this row held the last reference, and the cache does not pin them.
Freed(dropped) == {b \in Range(dropped) : ref_counts[b] = 1 /\ ~cached[b]}

\* s lists blocks of table in the table's order.
InTableOrder(s, table) ==
  \A i, j \in DOMAIN s :
    i < j => \E p, q \in DOMAIN table :
                /\ p < q
                /\ table[p] = s[i]
                /\ table[q] = s[j]

-----------------------------------------------------------------------------
(* Construction.                                                           *)

\* The free list is filled back to front, so that block 0 is popped first.
Init ==
  /\ free_blocks = [i \in 1 .. NumBlocks |-> NumBlocks - i]
  /\ ref_counts = [b \in Blocks |-> 0]
  /\ cached = [b \in Blocks |-> FALSE]
  /\ block_tables = [r \in Rows |-> <<>>]
  /\ row_busy = [r \in Rows |-> FALSE]

-----------------------------------------------------------------------------
(* Operations.                                                             *)

\* Unpin the evicted blocks.
Unpin(ev) == cached' = [b \in Blocks |-> cached[b] /\ b \notin Range(ev)]

\* Hand the last n blocks of the topped-up free list to the end of row's table.
Take(row, free, n) ==
  LET taken == Popped(free, n)
  IN  /\ free_blocks' = SubSeq(free, 1, Len(free) - n)
      /\ ref_counts' = [b \in Blocks |->
                          IF b \in Range(taken) THEN 1 ELSE ref_counts[b]]
      /\ block_tables' = [block_tables EXCEPT ![row] = @ \o taken]

\* The hook ran and the free list is still short: the call fails, and what
\* was evicted stays evicted.
FallShort(free) ==
  /\ free_blocks' = free
  /\ UNCHANGED <<ref_counts, block_tables, row_busy>>

\* allocate_blocks(n): claim the first free row, with n blocks.  Without a free
\* row the call fails before it reclaims anything.
AllocateBlocks(n, ev) ==
  LET free == free_blocks \o ev
  IN  \E row \in Rows :
        /\ IsFirstFreeRow(row)
        /\ Unpin(ev)
        /\ \/ /\ Len(free) >= n
              /\ Take(row, free, n)
              /\ row_busy' = [row_busy EXCEPT ![row] = TRUE]
           \/ /\ Len(free) < n
              /\ FallShort(free)

\* append_blocks(row, n): grow an owned row by n blocks.
AppendBlocks(row, n, ev) ==
  LET free == free_blocks \o ev
  IN  /\ row_busy[row]
      /\ n > 0
      /\ Len(block_tables[row]) + n <= MaxBlocksPerSeq
      /\ Unpin(ev)
      /\ \/ /\ Len(free) >= n
            /\ Take(row, free, n)
            /\ UNCHANGED row_busy
         \/ /\ Len(free) < n
            /\ FallShort(free)

\* Mutant: the width check of a mount is lost.
CanMountAnyWidth(row, blocks) ==
  /\ Len(blocks) > 0
  /\ Range(blocks) \subseteq Mountable \ Range(block_tables[row])

\* What reserve_shared_prefix checks before it mounts a run of blocks in front
\* of row's own: the width, that every block is mountable, and that the row
\* does not hold one of them already.
CanMount(row, blocks) ==
  /\ Len(blocks) > 0
  /\ Len(block_tables[row]) + Len(blocks) <= MaxBlocksPerSeq
  /\ Range(blocks) \subseteq Mountable \ Range(block_tables[row])

\* Mutant: the mount does not count its references.
MountUncounted(row, blocks) ==
  /\ row_busy[row]
  /\ IsInjective(blocks)
  /\ CanMount(row, blocks)
  /\ block_tables' = [block_tables EXCEPT ![row] = blocks \o @]
  /\ UNCHANGED <<free_blocks, ref_counts, cached, row_busy>>

\* reserve_shared_prefix(row, blocks), for distinct blocks: the entries of a
\* match are (PrefixCache shows it).
ReserveSharedPrefix(row, blocks) ==
  /\ row_busy[row]
  /\ IsInjective(blocks)
  /\ CanMount(row, blocks)
  /\ block_tables' = [block_tables EXCEPT ![row] = blocks \o @]
  /\ ref_counts' = [b \in Blocks |->
                      IF b \in Range(blocks) THEN ref_counts[b] + 1
                                             ELSE ref_counts[b]]
  /\ UNCHANGED <<free_blocks, cached, row_busy>>

\* free_blocks_from(row, start): drop the entries from start on (free_all is
\* start = 0).  A row left without a block is free again.
FreeBlocksFrom(row, start) ==
  LET table == block_tables[row]
      dropped == SubSeq(table, start + 1, Len(table))
  IN  /\ start \in 0 .. Len(table)
      /\ \E freed \in [1 .. Cardinality(Freed(dropped)) -> Freed(dropped)] :
            /\ Range(freed) = Freed(dropped)
            /\ InTableOrder(freed, dropped)
            /\ free_blocks' = free_blocks \o freed
      /\ ref_counts' = [b \in Blocks |->
                          IF b \in Range(dropped) THEN ref_counts[b] - 1
                                                  ELSE ref_counts[b]]
      /\ block_tables' = [block_tables EXCEPT ![row] = SubSeq(@, 1, start)]
      /\ row_busy' = [row_busy EXCEPT ![row] = @ /\ start > 0]
      /\ UNCHANGED cached

\* What evict_lru may give back to make room for one entry: a parked block, or
\* nothing when every entry is in use.
OneParked == {<<>>} \cup {<<p>> : p \in Parked}

\* mark_cached(b), after evict_cached on ev: pin a block some row holds.  The
\* cache evicts, outside reclaim, only for the entry it is about to insert.
MarkCached(b, ev) ==
  /\ ref_counts[b] > 0
  /\ cached' = [c \in Blocks |-> c = b \/ (cached[c] /\ c \notin Range(ev))]
  /\ free_blocks' = free_blocks \o ev
  /\ UNCHANGED <<ref_counts, block_tables, row_busy>>

\* The runs of blocks a caller may try to mount on row.
Mounts(row) ==
  UNION {[1 .. k -> Mountable] : k \in 1 .. MaxBlocksPerSeq}

Next ==
  \/ \E n \in 0 .. MaxBlocksPerSeq : \E ev \in Evictions(n) : AllocateBlocks(n, ev)
  \/ \E row \in Rows, n \in 1 .. MaxBlocksPerSeq :
        \E ev \in Evictions(n) : AppendBlocks(row, n, ev)
  \/ \E row \in Rows : \E blocks \in Mounts(row) : ReserveSharedPrefix(row, blocks)
  \/ \E row \in Rows, start \in 0 .. MaxBlocksPerSeq : FreeBlocksFrom(row, start)
  \/ \E b \in Blocks : \E ev \in OneParked : MarkCached(b, ev)

Spec == Init /\ [][Next]_vars

-----------------------------------------------------------------------------
(* Properties.                                                             *)

\* No block is on the free list twice: a double free would hand it to two rows.
FreeListDistinct == IsInjective(free_blocks)

\* No row mounts one physical block at two entries: the second entry's KV
\* writes would clobber what the first one reads.
NoAlias == \A r \in Rows : IsInjective(block_tables[r])

\* A reference count is the number of rows that mount the block.
RefCountExact == \A b \in Blocks : ref_counts[b] = Cardinality(Holders(b))

\* Every block is FREE, ALLOCATED or CACHED, and on the free list exactly when
\* it is FREE: none is stranded, none is handed out while still in use.
ThreeStates ==
  \A b \in Blocks : b \in Range(free_blocks) <=> ref_counts[b] = 0 /\ ~cached[b]

\* invariant_holds(), which the scheduler's destructor aborts on.
InvariantHolds ==
  /\ FreeListDistinct
  /\ NoAlias
  /\ RefCountExact
  /\ ThreeStates

\* A row nobody owns mounts nothing, and no table outgrows its width: the next
\* owner of a row starts from an empty table.
RowsOwned ==
  \A r \in Rows :
    /\ ~row_busy[r] => block_tables[r] = <<>>
    /\ Len(block_tables[r]) <= MaxBlocksPerSeq

\* The rows in use once r is.
InUseWith(r) == {q \in Rows : row_busy[q] \/ q = r}

\* When the pool has a full table for every row in use (KVManager sizes it so for
\* all rows), a row with room in its table can always take a free block or have
\* a parked one evicted, whatever the cache pins.
RoomToGrow ==
  \A r \in Rows :
    /\ NumBlocks >= Cardinality(InUseWith(r)) * MaxBlocksPerSeq
    /\ Len(block_tables[r]) < MaxBlocksPerSeq
    => free_blocks # <<>> \/ Parked # {}

\* A row comes to hold a block that another row already holds only in a step
\* that takes nothing off the free list: shared blocks are mounted, and an
\* allocation never hands out a block that some row still reads.
HeldNeverHandedOut ==
  [][\A b \in Blocks :
       Holders(b) # {} /\ ~(Holders(b)' \subseteq Holders(b))
         => free_blocks' = free_blocks]_vars

\* The cache loses its pin only on a block that no row reads, and that block
\* is then on the free list or was handed to a single row by the same call.
UnpinnedOnlyWhenParked ==
  [][\A b \in Blocks :
       cached[b] /\ ~cached'[b]
         => /\ Holders(b) = {}
            /\ \/ b \in Range(free_blocks')
               \/ Cardinality(Holders(b)') = 1]_vars

=============================================================================
