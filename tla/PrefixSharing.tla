----------------------------- MODULE PrefixSharing -----------------------------
(***************************************************************************)
(* How sequences share KV through the prefix cache: claim a row, mount the *)
(* longest cached prefix, grow block by block, write KV, record committed  *)
(* blocks, be cut by a preemption, finish (scheduler.cpp's calls into the  *)
(* pool and the cache).  The sequences run in any order the scheduler      *)
(* could choose, and are cut anywhere.                                     *)
(*                                                                         *)
(* kv is a ghost: the prompt prefix whose KV a block can be relied on to   *)
(* hold, which the code never records and which every promise about        *)
(* sharing is really about.  A block that is free, or was just handed to a *)
(* writer, can be relied on for none (its old KV lasts until some chunk    *)
(* overwrites it).                                                         *)
(***************************************************************************)
EXTENDS PrefixCache

CONSTANT Prompts       \* the prompts that may be submitted

ASSUME PromptsFit ==
  \A p \in Prompts : p \in Seq(Range(p)) /\ Len(p) \in 1 .. MaxBlocksPerSeq

VARIABLES
  kv,            \* ghost, per block: the prefix whose KV it holds, or NoKV
  admitting,     \* the row an admission has claimed and not yet mounted
  row_prompt,    \* per row: the prompt of the sequence that owns it
  row_written,   \* per row: leading prompt blocks whose KV is committed
  row_chain      \* per row: prefix_hash_chain, one hash per recorded block

row_vars == <<row_prompt, row_written, row_chain>>
vars == <<cache_vars, kv, admitting, row_vars>>

\* The KV of no prompt prefix: not written yet, or generated.
NoKV == <<>>

\* No row.
None == -1

\* The rows whose sequences are running or preempted.
Live == {r \in Rows : row_busy[r] /\ r # admitting}

TypeOK ==
  /\ Pool!TypeOK
  /\ \A h \in DOMAIN entries : entries[h].block \in Blocks
  /\ row_prompt \in [Rows -> Prompts \cup {<<>>}]
  /\ admitting \in Rows \cup {None}
  /\ \A r \in Rows : row_written[r] \in 0 .. Len(row_prompt[r])
  /\ \A r \in Rows : Len(row_chain[r]) <= row_written[r]

-----------------------------------------------------------------------------
Init ==
  /\ CacheInit
  /\ kv = [b \in Blocks |-> NoKV]
  /\ admitting = None
  /\ row_prompt = [r \in Rows |-> <<>>]
  /\ row_written = [r \in Rows |-> 0]
  /\ row_chain = [r \in Rows |-> <<>>]

\* Blocks on the free list, and those a step hands to a row, hold no KV.
Clobber(taken) ==
  kv' = [b \in Blocks |-> IF b \in Range(free_blocks') \cup taken THEN NoKV ELSE kv[b]]

\* Admission, first half: allocate_blocks(0) claims a row for a request.
Claim(prompt) ==
  /\ Pool!AllocateBlocks(0, <<>>)
  /\ \E row \in Rows : /\ Pool!IsFirstFreeRow(row)
                       /\ admitting' = row
                       /\ row_prompt' = [row_prompt EXCEPT ![row] = prompt]
  /\ UNCHANGED <<entries, lru, kv, row_written, row_chain>>

\* Admission, second half: the match is mounted, and counts as prefilled.
Mount(row) ==
  LET chain == Lookup(row_prompt[row])
  IN  /\ MountMatch(row, chain)
      /\ admitting' = None
      /\ row_written' = [row_written EXCEPT ![row] = Len(chain)]
      /\ UNCHANGED <<kv, row_prompt, row_chain>>

\* ensure_blocks_for takes one more block; only decoding needs blocks past the
\* prompt's.
Grow(row) ==
  /\ \/ Len(block_tables[row]) < Len(row_prompt[row])
     \/ row_written[row] = Len(row_prompt[row])
  /\ AppendBlock(row)
  /\ Clobber(Range(block_tables'[row]) \ Range(block_tables[row]))
  /\ UNCHANGED <<admitting, row_vars>>

\* A prefill chunk completes the next block of the prompt.
Prefill(row) ==
  LET i == row_written[row] + 1
  IN  /\ i <= Len(row_prompt[row])
      /\ i <= Len(block_tables[row])
      /\ kv' = [kv EXCEPT ![block_tables[row][i]] = SubSeq(row_prompt[row], 1, i)]
      /\ row_written' = [row_written EXCEPT ![row] = i]
      /\ UNCHANGED <<cache_vars, admitting, row_prompt, row_chain>>

\* A decode step writes the KV of the last prompt token again, or that of a
\* generated token: never a block before the prompt's last one.
Decode(row) ==
  /\ row_written[row] = Len(row_prompt[row])
  /\ \E i \in Len(row_prompt[row]) .. Len(block_tables[row]) :
       kv' = [kv EXCEPT ![block_tables[row][i]] = NoKV]
  /\ UNCHANGED <<cache_vars, admitting, row_vars>>

\* record_committed_prefill, one block: the cursor advances whether or not the
\* block ends up cached.
RecordBlock(row) ==
  LET chain == row_chain[row]
      i == Len(chain) + 1
      h == BlockHash(Before(chain, i), row_prompt[row][i])
  IN  /\ i <= row_written[row]
      /\ i <= Cacheable(row_prompt[row])
      /\ row_chain' = [row_chain EXCEPT ![row] = Append(chain, h)]
      /\ InsertBlock(h, Before(chain, i), row_prompt[row][i], block_tables[row][i])
      /\ Clobber({})
      /\ UNCHANGED <<admitting, row_prompt, row_written>>

\* truncate_sequence: a preempted sequence keeps its first blocks, and the
\* cursor of its chain comes back with them.
Cut(row, keep) ==
  /\ keep < Len(block_tables[row])
  /\ Pool!FreeBlocksFrom(row, keep)
  /\ Clobber({})
  /\ row_written' = [row_written EXCEPT ![row] = Min({@, keep})]
  /\ row_chain' = [row_chain EXCEPT ![row] = SubSeq(@, 1, Min({Len(@), keep}))]
  /\ UNCHANGED <<entries, lru, admitting, row_prompt>>

\* The sequence ends: free_all.
Finish(row) ==
  /\ Pool!FreeBlocksFrom(row, 0)
  /\ Clobber({})
  /\ row_prompt' = [row_prompt EXCEPT ![row] = <<>>]
  /\ row_written' = [row_written EXCEPT ![row] = 0]
  /\ row_chain' = [row_chain EXCEPT ![row] = <<>>]
  /\ UNCHANGED <<entries, lru, admitting>>

Next ==
  \/ admitting = None /\ \E prompt \in Prompts : Claim(prompt)
  \/ admitting # None /\ Mount(admitting)
  \/ admitting = None /\ \E row \in Live :
       \/ Grow(row)
       \/ Prefill(row)
       \/ Decode(row)
       \/ RecordBlock(row)
       \/ \E keep \in 1 .. MaxBlocksPerSeq : Cut(row, keep)
       \/ Finish(row)

Spec == Init /\ [][Next]_vars

-----------------------------------------------------------------------------
(* Properties.                                                             *)

\* Every committed block of a prompt holds the KV of exactly that prompt's
\* prefix, whether this row wrote it or another one did: the sequence reads
\* what it would have computed itself.
KVIntact ==
  \A r \in Rows :
    \A i \in 1 .. Min({row_written[r], Cacheable(row_prompt[r])}) :
      kv[block_tables[r][i]] = SubSeq(row_prompt[r], 1, i)

\* KV is written only to a block that one row holds and no entry points at.
SharedReadOnly ==
  [][UNCHANGED pool_vars =>
       \A b \in Blocks :
         kv'[b] # kv[b] => Cardinality(Pool!Holders(b)) = 1 /\ ~cached[b]]_vars

\* What lookup proposes to a claimed row can always be mounted: the retry loop
\* of the admission never runs twice.
MatchMountable ==
  admitting # None =>
    LET blocks == BlocksOf(Lookup(row_prompt[admitting]))
    IN  blocks # <<>> => Pool!IsInjective(blocks) /\ Pool!CanMount(admitting, blocks)

=============================================================================
