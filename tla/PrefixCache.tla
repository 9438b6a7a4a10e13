------------------------------ MODULE PrefixCache ------------------------------
(***************************************************************************)
(* The content-hash prefix cache over the block pool                       *)
(* (scheduler/prefix_cache.{h,cpp}): what it looks up, what it evicts, and *)
(* its effect, together with the pool's, on each call that reaches both.   *)
(* PrefixSharing and Scheduler compose these effects with the sequences    *)
(* that cause them.                                                        *)
(*                                                                         *)
(* A prompt is here the sequence of its blocks' contents, the last block   *)
(* possibly partial.                                                       *)
(***************************************************************************)
EXTENDS Integers, Sequences, FiniteSets, SequencesExt

CONSTANTS
  NumBlocks, NumRows, MaxBlocksPerSeq,  \* the pool, as in BlockAllocator
  MaxEntries,                           \* LRU capacity, in entries
  RootHash,                             \* the chain value before a first block
  BlockHash(_, _)                       \* block_hash(prev_hash, tokens)

ASSUME CacheSizes ==
  /\ NumBlocks \in Nat \ {0}
  /\ NumRows \in Nat
  /\ MaxBlocksPerSeq \in Nat
  /\ MaxEntries \in Nat \ {0}

VARIABLES
  free_blocks, ref_counts, cached, block_tables, row_busy,  \* the pool
  entries,       \* hash -> the entry's prev_hash, tokens and block
  lru            \* the hashes of the entries, most recently used first

pool_vars == <<free_blocks, ref_counts, cached, block_tables, row_busy>>
cache_vars == <<pool_vars, entries, lru>>

Pool == INSTANCE BlockAllocator

Blocks == Pool!Blocks
Rows == Pool!Rows

CacheInit ==
  /\ Pool!Init
  /\ entries = [h \in {} |-> {}]
  /\ lru = <<>>

-----------------------------------------------------------------------------
(* Lookup.                                                                 *)

\* Mutant: the block of the last prompt token is shareable too.
EveryBlock(prompt) == Len(prompt)

\* cacheable_blocks: all but the block that holds the last prompt token, which
\* the first decode step writes again.
Cacheable(prompt) == IF prompt = <<>> THEN 0 ELSE Len(prompt) - 1

\* The hash that precedes block i in a chain.
Before(chain, i) == IF i = 1 THEN RootHash ELSE chain[i - 1]

\* Entry chain[i] is a hit for block i of the prompt: hash, predecessor and
\* tokens agree, and its block cannot have been handed to a writer.
Hits(chain, prompt, i) ==
  /\ chain[i] = BlockHash(Before(chain, i), prompt[i])
  /\ entries[chain[i]].prev = Before(chain, i)
  /\ entries[chain[i]].tokens = prompt[i]
  /\ entries[chain[i]].block \in Pool!Mountable

\* lookup: the longest chain of hits from the first block on.
Lookup(prompt) ==
  LET matches == {chain \in UNION {[1 .. k -> DOMAIN entries] : k \in 0 .. Cacheable(prompt)} :
                    \A i \in DOMAIN chain : Hits(chain, prompt, i)}
  IN  CHOOSE chain \in matches : \A other \in matches : Len(other) <= Len(chain)

\* The blocks the entries of a chain stand for.
BlocksOf(chain) == [i \in DOMAIN chain |-> entries[chain[i]].block]

-----------------------------------------------------------------------------
(* The LRU list.                                                           *)

\* The list without the entries of gone, in its order: place k is the k-th of
\* those that stay.
Unlinked(gone) ==
  LET stays == {i \in DOMAIN lru : lru[i] \notin Range(gone)}
      Place(i) == Cardinality({j \in stays : j <= i})
  IN  [k \in 1 .. Cardinality(stays) |-> lru[CHOOSE i \in stays : Place(i) = k]]

\* Mutant: touching an entry does not unlink it first.
PushedFront(chain) == Reverse(chain) \o lru

\* commit_mounted touches the mounted entries in prompt order.
Touched(chain) == Reverse(chain) \o Unlinked(chain)

\* Mutant: the walk takes the last entry, referenced or not.
OldestEntry == IF lru = <<>> THEN <<>> ELSE <<lru[Len(lru)]>>

\* evict_lru(1): the least recently used entry whose block no row references,
\* if there is one.  (The scan cap only stops walks that have already evicted.)
EvictLRU ==
  LET idle == {i \in DOMAIN lru : ref_counts[entries[lru[i]].block] = 0}
  IN  IF idle = {} THEN <<>> ELSE <<lru[Max(idle)]>>

\* Mutant: the pool has no reclaim hook.
NothingReclaimed == <<>>

\* What the pool's reclaim hook gives up for an allocation of one block.
Reclaimed == IF free_blocks = <<>> THEN EvictLRU ELSE <<>>

\* Mutant: the eviction unlinks the entry but leaves it in the map.
LeftInMap(evicted) == entries

\* The entries after an eviction.
Without(evicted) == [h \in DOMAIN entries \ Range(evicted) |-> entries[h]]

\* hard_max_entries_: past it an insert is refused.
HardMaxEntries == 2 * MaxEntries

-----------------------------------------------------------------------------
(* Effects on the cache and the pool.                                      *)

\* lookup, reserve_shared_prefix and commit_mounted for a claimed row.
MountMatch(row, chain) ==
  /\ IF chain = <<>> THEN UNCHANGED pool_vars
                     ELSE Pool!ReserveSharedPrefix(row, BlocksOf(chain))
  /\ lru' = Touched(chain)
  /\ UNCHANGED entries

\* append_blocks(row, 1), with the cache as the pool's reclaim source.
AppendBlock(row) ==
  LET evicted == Reclaimed
  IN  /\ Pool!AppendBlocks(row, 1, BlocksOf(evicted))
      /\ entries' = Without(evicted)
      /\ lru' = Unlinked(evicted)

\* append_blocks would find a block.
CanAppend(row) ==
  /\ Len(block_tables[row]) < MaxBlocksPerSeq
  /\ free_blocks # <<>> \/ Reclaimed # <<>>

\* One block of insert_committed, once the chain has advanced to its hash h:
\* unless the hash is taken or the cache is full of entries in use, the block
\* gets an entry and is pinned.
InsertBlock(h, prev, tokens, block) ==
  LET full == Cardinality(DOMAIN entries) >= MaxEntries
      evicted == IF full THEN EvictLRU ELSE <<>>
      room == evicted # <<>> \/ Cardinality(DOMAIN entries) < HardMaxEntries
      entry == [prev |-> prev, tokens |-> tokens, block |-> block]
  IN  \/ /\ h \in DOMAIN entries \/ ~room
         /\ UNCHANGED cache_vars
      \/ /\ h \notin DOMAIN entries /\ room
         /\ Pool!MarkCached(block, BlocksOf(evicted))
         /\ entries' = [g \in DOMAIN Without(evicted) \cup {h} |->
                          IF g = h THEN entry ELSE entries[g]]
         /\ lru' = <<h>> \o Unlinked(evicted)

-----------------------------------------------------------------------------
(* Properties of the cache's own state.                                    *)

\* The cache only makes the pool's own moves: what is proved of any client and
\* any reclaim hook holds of this one.
PoolSpec == Pool!Spec

\* The pins of the pool are the entries of the cache, one block each, the LRU
\* list has each entry once, and there are at most twice MaxEntries: no block
\* stays pinned without an entry to release it, no entry is left pointing at a
\* block the pool may hand out, and the map cannot grow with its readers.
CacheCoherent ==
  /\ Pool!IsInjective(lru)
  /\ Range(lru) = DOMAIN entries
  /\ \A b \in Blocks : cached[b] <=> \E h \in DOMAIN entries : entries[h].block = b
  /\ \A g, h \in DOMAIN entries : entries[g].block = entries[h].block => g = h
  /\ Cardinality(DOMAIN entries) <= 2 * MaxEntries

\* An entry can be reached: the chain of entries before it is still there.  A
\* pinned block nobody can look up serves nobody until it is evicted.
EntriesReachable ==
  \A h \in DOMAIN entries :
    entries[h].prev = RootHash \/ entries[h].prev \in DOMAIN entries

=============================================================================
