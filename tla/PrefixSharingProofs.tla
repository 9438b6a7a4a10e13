-------------------------- MODULE PrefixSharingProofs --------------------------
(***************************************************************************)
(* Sharing KV through the prefix cache is sound, for every pool, cache     *)
(* size, set of prompts and hash function: the pool and the cache stay     *)
(* coherent whatever the hash does, and a sequence reads the KV of its own *)
(* prompt as long as no two prefixes of the prompts have one hash.         *)
(***************************************************************************)
EXTENDS PrefixSharing, PrefixCacheProofs

-------------------------------------------------------------------------------
(* Hashes.                                                                   *)

\* What the prompts are made of.
Tokens == UNION {Range(p) : p \in Prompts}

\* c is the chain of hashes of p's first n blocks.
IsChain(c, p, n) ==
  /\ DOMAIN c = 1 .. n
  /\ \A k \in 1 .. n : c[k] = BlockHash(Before(c, k), p[k])

\* h is the hash a chain has come to after p's first n blocks.
IsHashOf(h, p, n) == n > 0 /\ \E c : IsChain(c, p, n) /\ c[n] = h

\* No two different prefixes of the prompts have the same hash.  block_hash is
\* 64 bits wide, so this is an assumption about the prompts.
NoCollisions ==
  \A p, q \in Prompts : \A m \in 1 .. Len(p), n \in 1 .. Len(q) :
    \A h : IsHashOf(h, p, m) /\ IsHashOf(h, q, n) => SubSeq(p, 1, m) = SubSeq(q, 1, n)

-------------------------------------------------------------------------------
(* The invariant.                                                            *)

Typed ==
  /\ kv \in [Blocks -> Seq(Tokens)]
  /\ admitting \in Rows \cup {None}
  /\ row_prompt \in [Rows -> Prompts \cup {<<>>}]
  /\ row_written \in [Rows -> Nat]
  /\ \E S : row_chain \in [Rows -> Seq(S)]

\* How far a row has come: it has written no more than its table and its prompt
\* have room for, and recorded no more than it has written.  The row of an
\* admission is still empty.
Progress ==
  \A r \in Rows :
    /\ row_written[r] <= Len(row_prompt[r])
    /\ row_written[r] <= Len(block_tables[r])
    /\ Len(row_chain[r]) <= row_written[r]
    /\ row_busy[r] => row_prompt[r] \in Prompts
    /\ r = admitting => row_busy[r] /\ block_tables[r] = <<>>

\* The hash chain of a row is that of its prompt.
ChainsOwn == \A r \in Rows : IsChain(row_chain[r], row_prompt[r], Len(row_chain[r]))

\* A block still to be written, or written again by decoding, is its row's own.
WritableOwn ==
  \A r \in Rows : \A i \in 1 .. Len(block_tables[r]) :
    i > row_written[r] \/ i >= Len(row_prompt[r])
      => /\ ~cached[block_tables[r][i]]
         /\ \A q \in Rows : \A j \in 1 .. Len(block_tables[q]) :
              block_tables[q][j] = block_tables[r][i] => q = r

\* A block two rows hold is pinned.
SharedPinned ==
  \A q, r \in Rows :
    \A i \in 1 .. Len(block_tables[q]), j \in 1 .. Len(block_tables[r]) :
      q # r /\ block_tables[q][i] = block_tables[r][j] => cached[block_tables[q][i]]

\* An entry for a block a row has written has the hash of that row's prompt.
EntriesNamed ==
  \A r \in Rows : \A i \in 1 .. row_written[r] : \A h \in DOMAIN entries :
    i < Len(row_prompt[r]) /\ entries[h].block = block_tables[r][i]
      => IsHashOf(h, row_prompt[r], i)

\* A free block can be relied on for no KV.
FreeBlank == \A b \in Range(free_blocks) : kv[b] = NoKV

\* An entry's block holds the prefix the entry's hash stands for.
EntriesHold ==
  \A h \in DOMAIN entries :
    \E p \in Prompts : \E n \in 1 .. Len(p) :
      IsHashOf(h, p, n) /\ kv[entries[h].block] = SubSeq(p, 1, n)

\* What holds whatever the hash does.
SharingInv ==
  /\ CacheInv /\ Typed /\ Progress /\ ChainsOwn /\ WritableOwn /\ SharedPinned
  /\ EntriesNamed /\ FreeBlank

-------------------------------------------------------------------------------
(* Facts about hashes and prompts.                                           *)

\* A prompt prefix has one hash.
LEMMA HashUnique ==
  ASSUME NEW p, NEW n \in Nat, NEW g, NEW h, IsHashOf(g, p, n), IsHashOf(h, p, n)
  PROVE  g = h
<1>1. PICK c : IsChain(c, p, n) /\ c[n] = g
  BY DEF IsHashOf
<1>2. PICK d : IsChain(d, p, n) /\ d[n] = h
  BY DEF IsHashOf
<1> DEFINE bad == {k \in 1 .. n : c[k] # d[k]}
<1>3. bad = {}
  <2> SUFFICES ASSUME bad # {} PROVE FALSE
    OBVIOUS
  <2>1. PICK k \in bad : \A l \in bad : k <= l
    <3>1. bad \subseteq Nat
      OBVIOUS
    <3> HIDE DEF bad
    <3> QED
      BY <3>1, LeastNatural
  <2>2. k \in 1 .. n /\ c[k] # d[k]
    OBVIOUS
  <2>3. c[k] = BlockHash(Before(c, k), p[k]) /\ d[k] = BlockHash(Before(d, k), p[k])
    BY <1>1, <1>2, <2>2 DEF IsChain
  <2>4. CASE k = 1
    BY <2>2, <2>3, <2>4 DEF Before
  <2>5. CASE k # 1
    <3>1. k - 1 \in 1 .. n /\ ~(k <= k - 1)
      BY <2>2, <2>5
    <3>2. c[k - 1] = d[k - 1]
      BY <2>1, <3>1
    <3> QED
      BY <2>2, <2>3, <2>5, <3>2 DEF Before
  <2> QED
    BY <2>4, <2>5
<1>4. n \in 1 .. n
  BY DEF IsHashOf
<1> QED
  BY <1>1, <1>2, <1>3, <1>4

\* A chain of hashes names each prefix it has passed.
LEMMA ChainNames ==
  ASSUME NEW c, NEW p, NEW n \in Nat, IsChain(c, p, n), NEW i \in 1 .. n
  PROVE  IsHashOf(c[i], p, i)
<1> DEFINE d == [k \in 1 .. i |-> c[k]]
<1>1. DOMAIN d = 1 .. i /\ d[i] = c[i]
  OBVIOUS
<1>2. ASSUME NEW k \in 1 .. i PROVE d[k] = BlockHash(Before(d, k), p[k])
  <2>1. k \in 1 .. n /\ d[k] = c[k]
    OBVIOUS
  <2>2. Before(d, k) = Before(c, k)
    BY DEF Before
  <2> QED
    BY <2>1, <2>2 DEF IsChain
<1> HIDE DEF d
<1> QED
  BY <1>1, <1>2 DEF IsHashOf, IsChain

\* A chain of hashes grows by the hash of the next block.
LEMMA ChainGrows ==
  ASSUME NEW S, NEW c \in Seq(S), NEW p, IsChain(c, p, Len(c)),
         NEW h, h = BlockHash(Before(c, Len(c) + 1), p[Len(c) + 1])
  PROVE  /\ IsChain(Append(c, h), p, Len(c) + 1)
         /\ Len(Append(c, h)) = Len(c) + 1
         /\ IsHashOf(h, p, Len(c) + 1)
<1> DEFINE d == Append(c, h)
<1>1. Len(c) \in Nat
  BY OwnElements
<1>2. /\ d \in Seq(S \cup {h}) /\ Len(d) = Len(c) + 1
      /\ \A k \in 1 .. Len(c) : d[k] = c[k]
      /\ d[Len(c) + 1] = h
  BY AppendFacts
<1>3. DOMAIN d = 1 .. Len(c) + 1
  BY <1>2, OwnElements
<1> HIDE DEF d
<1>4. ASSUME NEW k \in 1 .. Len(c) + 1 PROVE d[k] = BlockHash(Before(d, k), p[k])
  <2>1. Before(d, k) = Before(c, k)
    BY <1>1, <1>2 DEF Before
  <2>2. CASE k = Len(c) + 1
    BY <1>2, <2>1, <2>2
  <2>3. CASE k # Len(c) + 1
    <3>1. k \in 1 .. Len(c)
      BY <1>1, <2>3
    <3> QED
      BY <1>2, <2>1, <3>1 DEF IsChain
  <2> QED
    BY <2>2, <2>3
<1>5. IsChain(d, p, Len(c) + 1)
  BY <1>3, <1>4 DEF IsChain
<1>6. IsHashOf(d[Len(c) + 1], p, Len(c) + 1)
  BY <1>1, <1>5, ChainNames
<1> QED
  BY <1>2, <1>5, <1>6 DEF d

\* A chain of hashes can be cut.
LEMMA ChainCut ==
  ASSUME NEW S, NEW c \in Seq(S), NEW p, IsChain(c, p, Len(c)), NEW m \in 0 .. Len(c)
  PROVE  /\ SubSeq(c, 1, m) \in Seq(S)
         /\ Len(SubSeq(c, 1, m)) = m
         /\ IsChain(SubSeq(c, 1, m), p, m)
<1> DEFINE d == SubSeq(c, 1, m)
<1>1. Len(c) \in Nat
  BY OwnElements
<1>2. /\ d \in Seq(S) /\ Len(d) = m
      /\ \A k \in 1 .. m : d[k] = c[k]
  <2>1. \A i \in 1 .. m : c[i] \in S
    BY <1>1, OwnElements
  <2>2. 1 \in 1 .. Len(c) + 1 /\ m \in 1 - 1 .. Len(c)
    BY <1>1
  <2> QED
    BY <1>1, <2>1, <2>2, SubSeqProperties
<1>3. DOMAIN d = 1 .. m
  BY <1>2, OwnElements
<1> HIDE DEF d
<1>4. ASSUME NEW k \in 1 .. m PROVE d[k] = BlockHash(Before(d, k), p[k])
  <2>1. k \in 1 .. Len(c) /\ d[k] = c[k] /\ Before(d, k) = Before(c, k)
    BY <1>1, <1>2 DEF Before
  <2> QED
    BY <2>1 DEF IsChain
<1> QED
  BY <1>2, <1>3, <1>4 DEF IsChain, d

\* A prompt fits a table, and all but its last block may be shared.
LEMMA PromptFacts ==
  ASSUME NEW p \in Prompts \cup {<<>>}
  PROVE  /\ p \in Seq(Tokens)
         /\ Len(p) \in 0 .. MaxBlocksPerSeq
         /\ p \in Prompts => Len(p) # 0
         /\ Cacheable(p) \in Nat
         /\ \A i \in Nat : i > 0 => (i <= Cacheable(p) <=> i < Len(p))
<1>1. CASE p = <<>>
  <2>1. p \in Seq(Tokens) /\ Len(p) = 0 /\ Cacheable(p) = 0
    BY <1>1 DEF Cacheable
  <2>2. p \notin Prompts
    BY <2>1, PromptsFit
  <2> QED
    BY <2>1, <2>2, CacheSizes
<1>2. CASE p # <<>>
  <2>1. p \in Prompts /\ p \in Seq(Range(p)) /\ Len(p) \in 1 .. MaxBlocksPerSeq
    BY <1>2, PromptsFit
  <2>2. p \in Seq(Tokens)
    <3>1. Range(p) \subseteq Tokens
      BY <2>1 DEF Tokens
    <3> QED
      BY <2>1, <3>1, SeqMonotonic
  <2>3. Cacheable(p) = Len(p) - 1
    BY <1>2 DEF Cacheable
  <2> QED
    BY <2>1, <2>2, <2>3, CacheSizes
<1> QED
  BY <1>1, <1>2

-------------------------------------------------------------------------------
(* What the invariant says of one row.                                       *)

\* The invariant, for one row.
LEMMA RowFacts ==
  ASSUME SharingInv, NEW r \in Rows
  PROVE  /\ row_prompt[r] \in Prompts \cup {<<>>}
         /\ Len(row_prompt[r]) \in Nat /\ Len(row_prompt[r]) <= MaxBlocksPerSeq
         /\ Len(block_tables[r]) \in Nat /\ row_written[r] \in Nat /\ Len(row_chain[r]) \in Nat
         /\ row_written[r] <= Len(row_prompt[r]) /\ row_written[r] <= Len(block_tables[r])
         /\ Len(row_chain[r]) <= row_written[r]
         /\ row_busy[r] => row_prompt[r] \in Prompts /\ Len(row_prompt[r]) # 0
         /\ \A i \in Nat : i > 0 => (i <= Cacheable(row_prompt[r]) <=> i < Len(row_prompt[r]))
         /\ \A i \in 1 .. row_written[r] : i \in 1 .. Len(block_tables[r])
<1>1. /\ row_prompt[r] \in Prompts \cup {<<>>} /\ row_written[r] \in Nat
  BY DEF SharingInv, Typed
<1>2. Len(row_prompt[r]) \in Nat /\ Len(row_prompt[r]) <= MaxBlocksPerSeq
  BY <1>1, PromptFacts, CacheSizes
<1>3. Len(block_tables[r]) \in Nat
  BY PoolFacts, CacheSizes DEF SharingInv, CacheInv, PoolView
<1>4. Len(row_chain[r]) \in Nat
  BY LenProperties DEF SharingInv, Typed
<1>5. /\ row_written[r] <= Len(row_prompt[r]) /\ row_written[r] <= Len(block_tables[r])
      /\ Len(row_chain[r]) <= row_written[r]
      /\ row_busy[r] => row_prompt[r] \in Prompts
  BY DEF SharingInv, Progress
<1>6. /\ row_busy[r] => Len(row_prompt[r]) # 0
      /\ \A i \in Nat : i > 0 => (i <= Cacheable(row_prompt[r]) <=> i < Len(row_prompt[r]))
  BY <1>1, <1>5, PromptFacts
<1> QED
  BY <1>1, <1>2, <1>3, <1>4, <1>5, <1>6

\* Writing KV to a block the row may write leaves the pool, the cache and every
\* other row alone.
LEMMA WritableFacts ==
  ASSUME SharingInv, NEW row \in Rows, NEW i \in 1 .. Len(block_tables[row]),
         i > row_written[row] \/ i >= Len(row_prompt[row])
  PROVE  LET b == block_tables[row][i]
         IN  /\ b \in Blocks /\ ~cached[b] /\ b \notin Range(free_blocks)
             /\ \A r \in Rows : \A j \in 1 .. Len(block_tables[r]) :
                  block_tables[r][j] = b => r = row /\ j = i
             /\ \A h \in DOMAIN entries : entries[h].block # b
<1>1. PoolView /\ CacheInv
  BY PoolFacts DEF SharingInv, CacheInv
<1>2. /\ ~cached[block_tables[row][i]]
      /\ \A q \in Rows : \A j \in 1 .. Len(block_tables[q]) :
           block_tables[q][j] = block_tables[row][i] => q = row
  BY DEF SharingInv, WritableOwn
<1> QED
  BY <1>1, <1>2, CacheFacts DEF PoolView

\* A step that leaves pool and cache alone keeps their invariant.
LEMMA UnchangedCache ==
  ASSUME CacheInv, UNCHANGED cache_vars
  PROVE  /\ CacheInv' /\ UNCHANGED pool_vars
         /\ free_blocks' = free_blocks /\ ref_counts' = ref_counts /\ cached' = cached
         /\ block_tables' = block_tables /\ row_busy' = row_busy
         /\ entries' = entries /\ lru' = lru
BY PoolMoveKeeps DEF cache_vars, pool_vars

\* A clobber takes the KV of the free blocks and of those just taken, and of no
\* others.
LEMMA ClobberFacts ==
  ASSUME Typed, PoolView', NEW taken, Clobber(taken)
  PROVE  /\ kv' \in [Blocks -> Seq(Tokens)]
         /\ FreeBlank'
         /\ \A b \in Blocks : b \notin Range(free_blocks') /\ b \notin taken => kv'[b] = kv[b]
<1>1. /\ kv \in [Blocks -> Seq(Tokens)]
      /\ kv' = [b \in Blocks |-> IF b \in Range(free_blocks') \cup taken THEN NoKV ELSE kv[b]]
  BY DEF Typed, Clobber
<1>2. NoKV \in Seq(Tokens)
  BY DEF NoKV
<1>3. Range(free_blocks') \subseteq Blocks
  <2>1. free_blocks' \in Seq(Blocks)
    BY DEF PoolView, Blocks, Pool!Blocks
  <2> QED
    BY <2>1, OwnElements
<1> QED
  BY <1>1, <1>2, <1>3 DEF FreeBlank

\* The smaller of two numbers.
LEMMA MinFacts ==
  ASSUME NEW a \in Nat, NEW b \in Nat
  PROVE  Min({a, b}) = IF a <= b THEN a ELSE b
<1> DEFINE m == IF a <= b THEN a ELSE b
<1>1. m \in {a, b} /\ \A y \in {a, b} : m <= y
  OBVIOUS
<1>2. \A x \in {a, b} : (\A y \in {a, b} : x <= y) => x = m
  OBVIOUS
<1> HIDE DEF m
<1>3. Min({a, b}) = m
  BY <1>1, <1>2 DEF Min
<1> QED
  BY <1>3 DEF m

-------------------------------------------------------------------------------
(* The steps.  Each makes a move of the pool, or leaves it alone, and keeps  *)
(* the invariant.                                                            *)

PoolStep == Pool!Next \/ UNCHANGED pool_vars

\* Decode, or a prefill chunk, writes KV.
LEMMA DecodeStep ==
  ASSUME SharingInv, NEW row \in Live, Decode(row)
  PROVE  PoolStep /\ SharingInv'
<1>1. row \in Rows /\ row_busy[row]
  BY DEF Live
<1>2. PICK i \in Len(row_prompt[row]) .. Len(block_tables[row]) :
        kv' = [kv EXCEPT ![block_tables[row][i]] = NoKV]
  BY DEF Decode
<1>3. UNCHANGED cache_vars /\ UNCHANGED <<admitting, row_prompt, row_written, row_chain>>
  BY DEF Decode, row_vars
<1>4. /\ CacheInv' /\ UNCHANGED pool_vars
      /\ free_blocks' = free_blocks /\ cached' = cached
      /\ block_tables' = block_tables /\ row_busy' = row_busy
      /\ entries' = entries
  BY <1>3, UnchangedCache DEF SharingInv
<1>5. kv' \in [Blocks -> Seq(Tokens)] /\ FreeBlank'
  <2>1. NoKV \in Seq(Tokens)
    BY DEF NoKV
  <2>2. kv \in [Blocks -> Seq(Tokens)] /\ \A b \in Range(free_blocks) : kv[b] = NoKV
    BY DEF SharingInv, Typed, FreeBlank
  <2>3. Range(free_blocks) \subseteq Blocks
    BY PoolFacts, OwnElements DEF SharingInv, CacheInv, PoolView
  <2> QED
    BY <1>2, <1>4, <2>1, <2>2, <2>3 DEF FreeBlank
<1>6. Typed'
  BY <1>3, <1>5 DEF SharingInv, Typed
<1>7. (Progress /\ ChainsOwn /\ WritableOwn /\ SharedPinned /\ EntriesNamed)'
  <2>1. (Progress /\ WritableOwn /\ SharedPinned)'
    BY <1>3, <1>4 DEF SharingInv, Progress, WritableOwn, SharedPinned
  <2>2. ChainsOwn'
    BY <1>3 DEF SharingInv, ChainsOwn, IsChain, Before
  <2>3. EntriesNamed'
    BY <1>3, <1>4 DEF SharingInv, EntriesNamed, IsHashOf, IsChain, Before
  <2> QED
    BY <2>1, <2>2, <2>3
<1> QED
  BY <1>4, <1>5, <1>6, <1>7 DEF SharingInv, PoolStep

\* A prefill chunk writes the row's next block.
LEMMA PrefillStep ==
  ASSUME SharingInv, NEW row \in Live, Prefill(row)
  PROVE  PoolStep /\ SharingInv'
<1> DEFINE i == row_written[row] + 1
           b == block_tables[row][i]
<1>1. row \in Rows /\ row_busy[row]
  BY DEF Live
<1>2. /\ i <= Len(row_prompt[row]) /\ i <= Len(block_tables[row])
      /\ kv' = [kv EXCEPT ![b] = SubSeq(row_prompt[row], 1, i)]
      /\ row_written' = [row_written EXCEPT ![row] = i]
      /\ UNCHANGED cache_vars /\ UNCHANGED <<admitting, row_prompt, row_chain>>
  BY DEF Prefill
<1>3. /\ CacheInv' /\ UNCHANGED pool_vars
      /\ free_blocks' = free_blocks /\ cached' = cached
      /\ block_tables' = block_tables /\ row_busy' = row_busy
      /\ entries' = entries
  BY <1>2, UnchangedCache DEF SharingInv
<1>4. i \in 1 .. Len(block_tables[row]) /\ i > row_written[row] /\ i \in Nat
  BY <1>1, <1>2, RowFacts
<1>5. /\ b \in Blocks /\ b \notin Range(free_blocks)
      /\ \A h \in DOMAIN entries : entries[h].block # b
  BY <1>1, <1>4, WritableFacts
<1>6. /\ row_written \in [Rows -> Nat] /\ row_written'[row] = i
      /\ \A r \in Rows \ {row} : row_written'[r] = row_written[r]
      /\ \A r \in Rows : row_written[r] <= row_written'[r]
  BY <1>1, <1>2, <1>4 DEF SharingInv, Typed
<1>7. Typed'
  <2>1. SubSeq(row_prompt[row], 1, i) \in Seq(Tokens)
    BY <1>1, <1>2, <1>4, RowFacts, PromptFacts, SubSeqProperties, OwnElements
  <2> HIDE DEF b
  <2>2. kv' \in [Blocks -> Seq(Tokens)]
    BY <1>2, <2>1 DEF SharingInv, Typed
  <2>3. row_written' \in [Rows -> Nat]
    BY <1>1, <1>2, <1>4, <1>6
  <2> QED
    BY <1>2, <2>2, <2>3 DEF SharingInv, Typed
<1>8. FreeBlank'
  <2> HIDE DEF b
  <2>1. Range(free_blocks) \subseteq Blocks
    BY PoolFacts, OwnElements DEF SharingInv, CacheInv, PoolView
  <2> QED
    BY <1>2, <1>3, <1>5, <2>1 DEF SharingInv, Typed, FreeBlank
<1>9. EntriesNamed'
  <2> SUFFICES ASSUME NEW r \in Rows, NEW k \in 1 .. row_written'[r], NEW h \in DOMAIN entries,
                      k < Len(row_prompt[r]), entries[h].block = block_tables[r][k]
               PROVE  IsHashOf(h, row_prompt[r], k)
    BY <1>2, <1>3 DEF EntriesNamed, IsHashOf, IsChain, Before
  <2>1. k \in 1 .. row_written[r]
    <3>1. CASE r = row
      BY <1>5, <1>6, <3>1
    <3>2. CASE r # row
      BY <1>6, <3>2
    <3> QED
      BY <3>1, <3>2
  <2> QED
    BY <2>1 DEF SharingInv, EntriesNamed
<1>10. Progress'
  BY <1>1, <1>2, <1>3, <1>4, <1>6, RowFacts DEF SharingInv, Progress
<1>11. (ChainsOwn /\ SharedPinned)'
  BY <1>2, <1>3 DEF SharingInv, ChainsOwn, SharedPinned, IsChain, Before
<1>12. WritableOwn'
  BY <1>2, <1>3, <1>6, RowFacts DEF SharingInv, WritableOwn
<1> QED
  BY <1>3, <1>7, <1>8, <1>9, <1>10, <1>11, <1>12 DEF SharingInv, PoolStep

\* An admission claims a row.
LEMMA ClaimStep ==
  ASSUME SharingInv, admitting = None, NEW prompt \in Prompts, Claim(prompt)
  PROVE  PoolStep /\ SharingInv'
<1>1. /\ Pool!AllocateBlocks(0, <<>>)
      /\ entries' = entries /\ lru' = lru /\ kv' = kv
      /\ row_written' = row_written /\ row_chain' = row_chain
  BY DEF Claim
<1>2. Pool!Next /\ CacheInv'
  BY <1>1, ClaimKeeps DEF SharingInv
<1>3. /\ cached' = cached /\ block_tables' = block_tables
      /\ Range(free_blocks') = Range(free_blocks)
  BY <1>1, ClaimFacts DEF SharingInv
<1>4. PICK row \in Rows : /\ Pool!IsFirstFreeRow(row) /\ ~row_busy[row]
                         /\ row_busy' = [row_busy EXCEPT ![row] = TRUE]
  BY <1>1, ClaimFacts DEF SharingInv
<1>5. admitting' = row /\ row_prompt' = [row_prompt EXCEPT ![row] = prompt]
  <2>1. PICK q \in Rows : /\ Pool!IsFirstFreeRow(q) /\ admitting' = q
                         /\ row_prompt' = [row_prompt EXCEPT ![q] = prompt]
    BY DEF Claim
  <2>2. q = row
    BY <1>4, <2>1, CacheSizes, SameSets DEF Pool!IsFirstFreeRow, Rows, Pool!Rows
  <2> QED
    BY <2>1, <2>2
<1>6. /\ row_prompt \in [Rows -> Prompts \cup {<<>>}] /\ row_busy \in [Rows -> BOOLEAN]
      /\ kv \in [Blocks -> Seq(Tokens)] /\ row_written \in [Rows -> Nat]
  BY PoolFacts DEF SharingInv, Typed, CacheInv, PoolView
<1>7. /\ row_prompt'[row] = prompt /\ row_busy'[row]
      /\ \A r \in Rows \ {row} : row_prompt'[r] = row_prompt[r] /\ row_busy'[r] = row_busy[r]
  BY <1>4, <1>5, <1>6
<1>8. block_tables[row] = <<>> /\ row_written[row] = 0 /\ Len(row_chain[row]) = 0
  <2>1. block_tables[row] = <<>> /\ Len(<<>>) = 0
    BY <1>4, PoolFacts DEF SharingInv, CacheInv, PoolView
  <2> QED
    BY <2>1, RowFacts
<1>9. Typed'
  <2>1. row_prompt' \in [Rows -> Prompts \cup {<<>>}]
    BY <1>5, <1>6
  <2> QED
    BY <1>1, <1>5, <2>1 DEF SharingInv, Typed
<1>10. Progress'
  <2> SUFFICES ASSUME NEW r \in Rows
               PROVE  /\ row_written[r] <= Len(row_prompt'[r])
                      /\ row_written[r] <= Len(block_tables[r])
                      /\ Len(row_chain[r]) <= row_written[r]
                      /\ row_busy'[r] => row_prompt'[r] \in Prompts
                      /\ r = row => row_busy'[r] /\ block_tables[r] = <<>>
    BY <1>1, <1>3, <1>5 DEF Progress
  <2>1. CASE r = row
    <3>1. Len(prompt) \in Nat
      BY PromptFacts, CacheSizes
    <3>2. Len(block_tables[row]) = 0
      BY <1>8
    <3> QED
      BY <1>7, <1>8, <2>1, <3>1, <3>2
  <2>2. CASE r # row
    BY <1>7, <2>2 DEF SharingInv, Progress
  <2> QED
    BY <2>1, <2>2
<1>11. ChainsOwn'
  <2> SUFFICES ASSUME NEW r \in Rows
               PROVE  IsChain(row_chain[r], row_prompt'[r], Len(row_chain[r]))
    BY <1>1 DEF ChainsOwn, IsChain, Before
  <2>1. IsChain(row_chain[r], row_prompt[r], Len(row_chain[r]))
    BY DEF SharingInv, ChainsOwn
  <2>2. CASE r = row
    BY <1>8, <2>1, <2>2 DEF IsChain
  <2>3. CASE r # row
    BY <1>7, <2>1, <2>3
  <2> QED
    BY <2>2, <2>3
<1>12. WritableOwn'
  <2> SUFFICES ASSUME NEW r \in Rows, NEW i \in 1 .. Len(block_tables[r]),
                      i > row_written[r] \/ i >= Len(row_prompt'[r])
               PROVE  /\ ~cached[block_tables[r][i]]
                      /\ \A q \in Rows : \A j \in 1 .. Len(block_tables[q]) :
                           block_tables[q][j] = block_tables[r][i] => q = r
    BY <1>1, <1>3 DEF WritableOwn
  <2>1. r # row
    BY <1>8
  <2> QED
    BY <1>7, <2>1 DEF SharingInv, WritableOwn
<1>13. SharedPinned'
  BY <1>3 DEF SharingInv, SharedPinned
<1>14. EntriesNamed'
  <2> SUFFICES ASSUME NEW r \in Rows, NEW i \in 1 .. row_written[r], NEW h \in DOMAIN entries,
                      i < Len(row_prompt'[r]), entries[h].block = block_tables[r][i]
               PROVE  IsHashOf(h, row_prompt'[r], i)
    BY <1>1, <1>3 DEF EntriesNamed, IsHashOf, IsChain, Before
  <2>1. r # row
    BY <1>8
  <2> QED
    BY <1>7, <2>1 DEF SharingInv, EntriesNamed
<1>15. FreeBlank'
  BY <1>1, <1>3 DEF SharingInv, FreeBlank
<1> QED
  BY <1>2, <1>9, <1>10, <1>11, <1>12, <1>13, <1>14, <1>15 DEF SharingInv, PoolStep

\* The match is a chain of hashes of the prompt.
LEMMA MatchFacts ==
  ASSUME SharingInv, NEW prompt \in Prompts \cup {<<>>}
  PROVE  LET chain == Lookup(prompt)
         IN  /\ chain \in Seq(DOMAIN entries)
             /\ Len(chain) \in Nat
             /\ IsChain(chain, prompt, Len(chain))
             /\ \A i \in 1 .. Len(chain) : /\ chain[i] \in DOMAIN entries
                                          /\ i < Len(prompt)
                                          /\ IsHashOf(chain[i], prompt, i)
<1> DEFINE chain == Lookup(prompt)
<1>1. /\ Cacheable(prompt) \in Nat
      /\ \A i \in Nat : i > 0 => (i <= Cacheable(prompt) <=> i < Len(prompt))
  BY PromptFacts
<1>2. /\ chain \in Seq(DOMAIN entries) /\ Len(chain) <= Cacheable(prompt)
      /\ \A i \in 1 .. Len(chain) : Hits(chain, prompt, i)
  BY <1>1, LookupFacts
<1> HIDE DEF chain
<1>3. /\ Len(chain) \in Nat /\ DOMAIN chain = 1 .. Len(chain)
      /\ \A i \in 1 .. Len(chain) : chain[i] \in DOMAIN entries
  BY <1>2, OwnElements
<1>4. IsChain(chain, prompt, Len(chain))
  BY <1>2, <1>3 DEF IsChain, Hits
<1>5. \A i \in 1 .. Len(chain) : IsHashOf(chain[i], prompt, i)
  BY <1>3, <1>4, ChainNames
<1>6. \A i \in 1 .. Len(chain) : i < Len(prompt)
  BY <1>1, <1>2, <1>3
<1> QED
  BY <1>2, <1>3, <1>4, <1>5, <1>6 DEF chain

\* An admission mounts its match.
LEMMA MountStep ==
  ASSUME SharingInv, admitting # None, Mount(admitting)
  PROVE  PoolStep /\ SharingInv'
<1>1. PICK row \in Rows : row = admitting
  BY DEF SharingInv, Typed
<1>2. row_prompt[row] \in Prompts \cup {<<>>}
  BY DEF SharingInv, Typed
<1>3. PICK chain : chain = Lookup(row_prompt[row])
  OBVIOUS
<1>4. /\ chain \in Seq(DOMAIN entries)
      /\ Len(chain) \in Nat
      /\ \A i \in 1 .. Len(chain) : /\ chain[i] \in DOMAIN entries
                                   /\ i < Len(row_prompt[row])
                                   /\ IsHashOf(chain[i], row_prompt[row], i)
  BY <1>2, <1>3, MatchFacts
<1>5. /\ MountMatch(row, chain)
      /\ admitting' = None /\ row_written' = [row_written EXCEPT ![row] = Len(chain)]
      /\ kv' = kv /\ row_prompt' = row_prompt /\ row_chain' = row_chain
  BY <1>1, <1>3 DEF Mount
<1>6. row_busy[row] /\ block_tables[row] = <<>>
  BY <1>1 DEF SharingInv, Progress
<1>7. PoolStep /\ CacheInv'
  BY <1>4, <1>5, MountMatchKeeps DEF SharingInv, PoolStep
<1>8. /\ row_busy' = row_busy /\ cached' = cached /\ entries' = entries
      /\ free_blocks' = free_blocks
      /\ \A r \in Rows \ {row} : block_tables'[r] = block_tables[r]
      /\ Len(block_tables'[row]) = Len(chain)
      /\ \A i \in 1 .. Len(chain) : block_tables'[row][i] = entries[chain[i]].block
  BY <1>4, <1>5, <1>6, MountMatchFacts DEF SharingInv
<1>9. /\ row_written' \in [Rows -> Nat] /\ row_written'[row] = Len(chain)
      /\ \A r \in Rows \ {row} : row_written'[r] = row_written[r]
  BY <1>4, <1>5 DEF SharingInv, Typed
<1>10. \A i \in 1 .. Len(chain) : /\ block_tables'[row][i] \in Blocks
                                 /\ cached[block_tables'[row][i]]
  BY <1>4, <1>8, CacheFacts DEF SharingInv
<1>11. Len(row_chain[row]) = 0
  <2>1. Len(block_tables[row]) = 0
    BY <1>6
  <2> QED
    BY <2>1, RowFacts
<1>12. Typed'
  BY <1>5, <1>9 DEF SharingInv, Typed
<1>13. Progress'
  <2> SUFFICES ASSUME NEW r \in Rows
               PROVE  /\ row_written'[r] <= Len(row_prompt[r])
                      /\ row_written'[r] <= Len(block_tables'[r])
                      /\ Len(row_chain[r]) <= row_written'[r]
                      /\ row_busy[r] => row_prompt[r] \in Prompts
                      /\ r # None
    BY <1>5, <1>8 DEF Progress
  <2>1. r # None /\ (row_busy[r] => row_prompt[r] \in Prompts)
    BY RowFacts, CacheSizes DEF None, Rows, Pool!Rows
  <2>2. CASE r = row
    <3>1. Len(chain) <= Len(row_prompt[row])
      BY <1>4, RowFacts
    <3> QED
      BY <1>4, <1>8, <1>9, <1>11, <2>1, <2>2, <3>1
  <2>3. CASE r # row
    BY <1>8, <1>9, <2>1, <2>3, RowFacts
  <2> QED
    BY <2>2, <2>3
<1>14. ChainsOwn'
  BY <1>5 DEF SharingInv, ChainsOwn, IsChain, Before
<1>15. WritableOwn'
  <2> SUFFICES ASSUME NEW r \in Rows, NEW i \in 1 .. Len(block_tables'[r]),
                      i > row_written'[r] \/ i >= Len(row_prompt[r])
               PROVE  /\ ~cached[block_tables'[r][i]]
                      /\ \A q \in Rows : \A j \in 1 .. Len(block_tables'[q]) :
                           block_tables'[q][j] = block_tables'[r][i] => q = r
    BY <1>5, <1>8 DEF WritableOwn
  <2>1. r # row
    BY <1>4, <1>8, <1>9, RowFacts
  <2>2. /\ ~cached[block_tables'[r][i]]
        /\ \A q \in Rows : \A j \in 1 .. Len(block_tables[q]) :
             block_tables[q][j] = block_tables'[r][i] => q = r
    BY <1>8, <1>9, <2>1 DEF SharingInv, WritableOwn
  <2> QED
    BY <1>8, <1>10, <2>2
<1>16. SharedPinned'
  <2> SUFFICES ASSUME NEW q \in Rows, NEW r \in Rows,
                      NEW i \in 1 .. Len(block_tables'[q]), NEW j \in 1 .. Len(block_tables'[r]),
                      q # r, block_tables'[q][i] = block_tables'[r][j]
               PROVE  cached[block_tables'[q][i]]
    BY <1>8 DEF SharedPinned
  <2>1. CASE q = row
    BY <1>8, <1>10, <2>1
  <2>2. CASE r = row
    BY <1>8, <1>10, <2>2
  <2>3. CASE q # row /\ r # row
    BY <1>8, <2>3 DEF SharingInv, SharedPinned
  <2> QED
    BY <2>1, <2>2, <2>3
<1>17. EntriesNamed'
  <2> SUFFICES ASSUME NEW r \in Rows, NEW i \in 1 .. row_written'[r], NEW h \in DOMAIN entries,
                      i < Len(row_prompt[r]), entries[h].block = block_tables'[r][i]
               PROVE  IsHashOf(h, row_prompt[r], i)
    BY <1>5, <1>8 DEF EntriesNamed, IsHashOf, IsChain, Before
  <2>1. CASE r = row
    <3>1. i \in 1 .. Len(chain)
      BY <1>9, <2>1
    <3>2. chain[i] \in DOMAIN entries /\ entries[h].block = entries[chain[i]].block
      BY <1>4, <1>8, <2>1, <3>1
    <3>3. h = chain[i]
      BY <3>2, CacheFacts DEF SharingInv
    <3> QED
      BY <1>4, <2>1, <3>1, <3>3
  <2>2. CASE r # row
    BY <1>8, <1>9, <2>2 DEF SharingInv, EntriesNamed
  <2> QED
    BY <2>1, <2>2
<1>18. FreeBlank'
  BY <1>5, <1>8 DEF SharingInv, FreeBlank
<1> QED
  BY <1>7, <1>12, <1>13, <1>14, <1>15, <1>16, <1>17, <1>18 DEF SharingInv

\* A row grows by a block.
LEMMA GrowStep ==
  ASSUME SharingInv, NEW row \in Live, Grow(row)
  PROVE  PoolStep /\ SharingInv'
<1>1. row \in Rows
  BY DEF Live
<1>2. PICK taken : taken = Range(block_tables'[row]) \ Range(block_tables[row])
  OBVIOUS
<1>3. /\ AppendBlock(row) /\ Clobber(taken)
      /\ admitting' = admitting /\ row_prompt' = row_prompt
      /\ row_written' = row_written /\ row_chain' = row_chain
  BY <1>2 DEF Grow, row_vars
<1>4. Pool!Next /\ CacheInv'
  BY <1>1, <1>3, AppendBlockKeeps DEF SharingInv
<1>5. PICK is, was : is = block_tables'[row] /\ was = block_tables[row]
  OBVIOUS
<1>6. /\ row_busy' = row_busy
      /\ \A r \in Rows \ {row} : block_tables'[r] = block_tables[r]
      /\ Len(was) <= Len(is) /\ \A i \in 1 .. Len(was) : is[i] = was[i]
      /\ \A i \in Len(was) + 1 .. Len(is) :
           /\ is[i] \in Blocks /\ ~cached'[is[i]]
           /\ \A r \in Rows : \A j \in 1 .. Len(block_tables[r]) : block_tables[r][j] # is[i]
      /\ \A b \in Blocks : cached'[b] => cached[b]
      /\ \A b \in Blocks : cached[b] /\ ref_counts[b] # 0 => cached'[b]
      /\ \A h \in DOMAIN entries' : h \in DOMAIN entries /\ entries'[h] = entries[h]
  BY <1>1, <1>3, <1>5, AppendBlockFacts DEF SharingInv
<1>7. PoolView /\ PoolView'
  BY <1>4, PoolFacts, PoolFactsNext DEF SharingInv, CacheInv
<1>8. Len(was) \in Nat /\ Len(is) \in Nat
  BY <1>1, <1>5, <1>7 DEF PoolView, Rows, Pool!Rows
<1>9. Typed' /\ FreeBlank'
  <2>1. kv' \in [Blocks -> Seq(Tokens)] /\ FreeBlank'
    BY <1>3, <1>7, ClobberFacts DEF SharingInv
  <2> QED
    BY <1>3, <2>1 DEF SharingInv, Typed
<1>10. \A r \in Rows : /\ Len(block_tables[r]) <= Len(block_tables'[r])
                       /\ \A i \in 1 .. Len(block_tables[r]) : block_tables'[r][i] = block_tables[r][i]
  BY <1>5, <1>6, <1>8, RowFacts
<1>11. Progress'
  <2> SUFFICES ASSUME NEW r \in Rows
               PROVE  /\ row_written[r] <= Len(row_prompt[r])
                      /\ row_written[r] <= Len(block_tables'[r])
                      /\ Len(row_chain[r]) <= row_written[r]
                      /\ row_busy[r] => row_prompt[r] \in Prompts
                      /\ r = admitting => row_busy[r] /\ block_tables'[r] = <<>>
    BY <1>3, <1>6 DEF Progress
  <2>1. row_written[r] <= Len(block_tables'[r])
    <3>1. Len(block_tables'[r]) \in Nat
      BY <1>7 DEF PoolView, Rows, Pool!Rows
    <3> QED
      BY <1>10, <3>1, RowFacts
  <2>2. r = admitting => row_busy[r] /\ block_tables'[r] = <<>>
    BY <1>6 DEF SharingInv, Progress, Live
  <2> QED
    BY <2>1, <2>2, RowFacts
<1>12. ChainsOwn'
  BY <1>3 DEF SharingInv, ChainsOwn, IsChain, Before
<1>13. WritableOwn'
  <2> SUFFICES ASSUME NEW r \in Rows, NEW i \in 1 .. Len(block_tables'[r]),
                      i > row_written[r] \/ i >= Len(row_prompt[r])
               PROVE  /\ ~cached'[block_tables'[r][i]]
                      /\ \A q \in Rows : \A j \in 1 .. Len(block_tables'[q]) :
                           block_tables'[q][j] = block_tables'[r][i] => q = r
    BY <1>3 DEF WritableOwn
  <2>1. CASE i \in 1 .. Len(block_tables[r])
    <3>1. /\ block_tables'[r][i] = block_tables[r][i] /\ block_tables[r][i] \in Blocks
      BY <1>7, <1>10, <2>1 DEF PoolView
    <3>2. /\ ~cached[block_tables[r][i]]
          /\ \A q \in Rows : \A j \in 1 .. Len(block_tables[q]) :
               block_tables[q][j] = block_tables[r][i] => q = r
      BY <2>1 DEF SharingInv, WritableOwn
    <3>3. ASSUME NEW q \in Rows, NEW j \in 1 .. Len(block_tables'[q]),
                 block_tables'[q][j] = block_tables[r][i]
          PROVE  q = r
      <4>1. CASE q = row /\ j \in Len(was) + 1 .. Len(is)
        BY <1>5, <1>6, <2>1, <3>3, <4>1
      <4>2. CASE q # row \/ j \in 1 .. Len(was)
        BY <1>5, <1>6, <3>2, <3>3, <4>2
      <4> QED
        BY <1>5, <1>8, <4>1, <4>2
    <3> QED
      BY <1>6, <3>1, <3>2, <3>3
  <2>2. CASE i \notin 1 .. Len(block_tables[r])
    <3>1. r = row /\ i \in Len(was) + 1 .. Len(is)
      BY <1>5, <1>6, <1>8, <2>2
    <3>2. ASSUME NEW q \in Rows, NEW j \in 1 .. Len(block_tables'[q]),
                 block_tables'[q][j] = is[i]
          PROVE  q = r
      BY <1>6, <3>1, <3>2
    <3> QED
      BY <1>5, <1>6, <3>1, <3>2
  <2> QED
    BY <2>1, <2>2
<1>14. SharedPinned'
  <2> SUFFICES ASSUME NEW q \in Rows, NEW r \in Rows,
                      NEW i \in 1 .. Len(block_tables'[q]), NEW j \in 1 .. Len(block_tables'[r]),
                      q # r, block_tables'[q][i] = block_tables'[r][j]
               PROVE  cached'[block_tables'[q][i]]
    BY DEF SharedPinned
  <2>1. i \in 1 .. Len(block_tables[q])
    <3>1. q = row \/ i \in 1 .. Len(block_tables[q])
      BY <1>6
    <3>2. q = row /\ i \in Len(was) + 1 .. Len(is) => block_tables'[r][j] # is[i]
      BY <1>6
    <3> QED
      BY <1>5, <1>8, <3>1, <3>2
  <2>2. j \in 1 .. Len(block_tables[r])
    <3>1. r = row \/ j \in 1 .. Len(block_tables[r])
      BY <1>6
    <3>2. r = row /\ j \in Len(was) + 1 .. Len(is) => block_tables'[q][i] # is[j]
      BY <1>6
    <3> QED
      BY <1>5, <1>8, <3>1, <3>2
  <2>3. /\ block_tables[q][i] = block_tables[r][j] /\ block_tables'[q][i] = block_tables[q][i]
        /\ block_tables[q][i] \in Blocks /\ ref_counts[block_tables[q][i]] # 0
    BY <1>7, <1>10, <2>1, <2>2 DEF PoolView
  <2>4. cached[block_tables[q][i]]
    BY <2>1, <2>2, <2>3 DEF SharingInv, SharedPinned
  <2> QED
    BY <1>6, <2>3, <2>4
<1>15. EntriesNamed'
  <2> SUFFICES ASSUME NEW r \in Rows, NEW i \in 1 .. row_written[r], NEW h \in DOMAIN entries',
                      i < Len(row_prompt[r]), entries'[h].block = block_tables'[r][i]
               PROVE  IsHashOf(h, row_prompt[r], i)
    BY <1>3 DEF EntriesNamed, IsHashOf, IsChain, Before
  <2>1. i \in 1 .. Len(block_tables[r])
    BY RowFacts
  <2>2. h \in DOMAIN entries /\ entries[h].block = block_tables[r][i]
    BY <1>6, <1>10, <2>1
  <2> QED
    BY <2>2 DEF SharingInv, EntriesNamed
<1> QED
  BY <1>4, <1>9, <1>11, <1>12, <1>13, <1>14, <1>15 DEF SharingInv, PoolStep

\* A committed block is recorded.
LEMMA RecordStep ==
  ASSUME SharingInv, NEW row \in Live, RecordBlock(row)
  PROVE  PoolStep /\ SharingInv'
<1>1. row \in Rows
  BY DEF Live
<1>2. PICK chain, i, h, block :
        /\ chain = row_chain[row] /\ i = Len(chain) + 1
        /\ h = BlockHash(Before(chain, i), row_prompt[row][i])
        /\ block = block_tables[row][i]
  OBVIOUS
<1>3. /\ i <= row_written[row] /\ i <= Cacheable(row_prompt[row])
      /\ row_chain' = [row_chain EXCEPT ![row] = Append(chain, h)]
      /\ InsertBlock(h, Before(chain, i), row_prompt[row][i], block)
      /\ Clobber({})
      /\ admitting' = admitting /\ row_prompt' = row_prompt /\ row_written' = row_written
  BY <1>2 DEF RecordBlock
<1>4. PoolView
  BY PoolFacts DEF SharingInv, CacheInv
<1>5. i \in 1 .. row_written[row] /\ i < Len(row_prompt[row]) /\ i \in 1 .. Len(block_tables[row])
  BY <1>1, <1>2, <1>3, RowFacts
<1>6. block \in Blocks /\ ref_counts[block] # 0
  BY <1>1, <1>2, <1>4, <1>5 DEF PoolView
<1>7. PICK S : row_chain \in [Rows -> Seq(S)]
  BY DEF SharingInv, Typed
<1>8. IsChain(chain, row_prompt[row], Len(chain)) /\ chain \in Seq(S)
  BY <1>1, <1>2, <1>7 DEF SharingInv, ChainsOwn
<1>9. /\ IsChain(Append(chain, h), row_prompt[row], i)
      /\ Len(Append(chain, h)) = i
      /\ Append(chain, h) \in Seq(S \cup {h})
      /\ IsHashOf(h, row_prompt[row], i)
  BY <1>2, <1>8, ChainGrows, AppendFacts
<1>10. \A g \in DOMAIN entries : entries[g].block = block => g = h
  <2> SUFFICES ASSUME NEW g \in DOMAIN entries, entries[g].block = block
               PROVE  g = h
    OBVIOUS
  <2>1. IsHashOf(g, row_prompt[row], i)
    BY <1>1, <1>2, <1>5 DEF SharingInv, EntriesNamed
  <2> QED
    BY <1>5, <1>9, <2>1, HashUnique
<1>11. PoolStep /\ CacheInv'
  BY <1>3, <1>6, <1>10, InsertBlockKeeps DEF SharingInv, PoolStep
<1>12. /\ row_busy' = row_busy /\ block_tables' = block_tables
       /\ \A b \in Blocks : cached'[b] => cached[b] \/ b = block
       /\ \A b \in Blocks : cached[b] /\ ref_counts[b] # 0 => cached'[b]
       /\ \A g \in DOMAIN entries' :
            \/ g \in DOMAIN entries /\ entries'[g] = entries[g]
            \/ g = h /\ h \notin DOMAIN entries /\ entries'[g].block = block
  BY <1>3, <1>6, InsertBlockFacts DEF SharingInv
<1>13. /\ row_chain'[row] = Append(chain, h)
       /\ \A r \in Rows \ {row} : row_chain'[r] = row_chain[r]
  BY <1>1, <1>3, <1>7
<1>14. Typed' /\ FreeBlank'
  <2>1. PoolView'
    BY <1>11, PoolFactsNext DEF CacheInv
  <2>2. kv' \in [Blocks -> Seq(Tokens)] /\ FreeBlank'
    BY <1>3, <2>1, ClobberFacts DEF SharingInv
  <2>3. row_chain' \in [Rows -> Seq(S \cup {h})]
    <3>1. \A s \in Seq(S) : s \in Seq(S \cup {h})
      BY SeqMonotonic
    <3> QED
      BY <1>3, <1>7, <1>9, <3>1
  <2> QED
    BY <1>3, <2>2, <2>3 DEF SharingInv, Typed
<1>15. Progress'
  <2> SUFFICES ASSUME NEW r \in Rows PROVE Len(row_chain'[r]) <= row_written[r]
    BY <1>3, <1>12 DEF SharingInv, Progress
  <2> QED
    BY <1>5, <1>9, <1>13, RowFacts
<1>16. ChainsOwn'
  <2> SUFFICES ASSUME NEW r \in Rows
               PROVE  IsChain(row_chain'[r], row_prompt[r], Len(row_chain'[r]))
    BY <1>3 DEF ChainsOwn, IsChain, Before
  <2> QED
    BY <1>9, <1>13 DEF SharingInv, ChainsOwn
<1>17. WritableOwn'
  <2> SUFFICES ASSUME NEW r \in Rows, NEW j \in 1 .. Len(block_tables[r]),
                      j > row_written[r] \/ j >= Len(row_prompt[r])
               PROVE  /\ ~cached'[block_tables[r][j]]
                      /\ \A q \in Rows : \A k \in 1 .. Len(block_tables[q]) :
                           block_tables[q][k] = block_tables[r][j] => q = r
    BY <1>3, <1>12 DEF WritableOwn
  <2>1. /\ block_tables[r][j] \in Blocks /\ ~cached[block_tables[r][j]]
        /\ \A q \in Rows : \A k \in 1 .. Len(block_tables[q]) :
             block_tables[q][k] = block_tables[r][j] => q = r /\ k = j
    BY WritableFacts
  <2>2. block_tables[r][j] # block
    <3> SUFFICES ASSUME block_tables[r][j] = block PROVE FALSE
      OBVIOUS
    <3>1. row = r /\ i = j
      BY <1>1, <1>2, <1>5, <2>1
    <3> QED
      BY <1>5, <3>1, RowFacts
  <2> QED
    BY <1>12, <2>1, <2>2
<1>18. SharedPinned'
  <2> SUFFICES ASSUME NEW q \in Rows, NEW r \in Rows,
                      NEW j \in 1 .. Len(block_tables[q]), NEW k \in 1 .. Len(block_tables[r]),
                      q # r, block_tables[q][j] = block_tables[r][k]
               PROVE  cached'[block_tables[q][j]]
    BY <1>12 DEF SharedPinned
  <2>1. cached[block_tables[q][j]]
    BY DEF SharingInv, SharedPinned
  <2>2. block_tables[q][j] \in Blocks /\ ref_counts[block_tables[q][j]] # 0
    BY <1>4 DEF PoolView
  <2> QED
    BY <1>12, <2>1, <2>2
<1>19. EntriesNamed'
  <2> SUFFICES ASSUME NEW r \in Rows, NEW k \in 1 .. row_written[r], NEW g \in DOMAIN entries',
                      k < Len(row_prompt[r]), entries'[g].block = block_tables[r][k]
               PROVE  IsHashOf(g, row_prompt[r], k)
    BY <1>3, <1>12 DEF EntriesNamed, IsHashOf, IsChain, Before
  <2>1. CASE g \in DOMAIN entries /\ entries'[g] = entries[g]
    BY <2>1 DEF SharingInv, EntriesNamed
  <2>2. CASE g = h /\ h \notin DOMAIN entries /\ entries'[g].block = block
    <3>1. k \in 1 .. Len(block_tables[r]) /\ block_tables[r][k] = block
      BY <2>2, RowFacts
    <3>2. r = row
      <4> SUFFICES ASSUME r # row PROVE FALSE
        OBVIOUS
      <4>1. cached[block]
        BY <1>1, <1>2, <1>5, <3>1 DEF SharingInv, SharedPinned
      <4>2. PICK f \in DOMAIN entries : entries[f].block = block
        BY <1>6, <4>1, CacheFacts DEF SharingInv
      <4> QED
        BY <1>10, <2>2, <4>2
    <3>3. k = i
      BY <1>2, <1>4, <1>5, <3>1, <3>2 DEF PoolView
    <3> QED
      BY <1>9, <2>2, <3>2, <3>3
  <2> QED
    BY <1>12, <2>1, <2>2
<1> QED
  BY <1>11, <1>14, <1>15, <1>16, <1>17, <1>18, <1>19 DEF SharingInv

\* A row is cut back, or ends.
LEMMA ReleaseStep ==
  ASSUME SharingInv, admitting = None, NEW row \in Rows, NEW keep \in Nat,
         Pool!FreeBlocksFrom(row, keep), Clobber({}),
         entries' = entries, lru' = lru, admitting' = admitting,
         NEW prompt \in Prompts \cup {<<>>}, NEW written \in Nat, NEW m \in Nat,
         row_prompt' = [row_prompt EXCEPT ![row] = prompt],
         row_written' = [row_written EXCEPT ![row] = written],
         row_chain' = [row_chain EXCEPT ![row] = SubSeq(@, 1, m)],
         \/ keep = 0 /\ prompt = <<>> /\ written = 0 /\ m = 0
         \/ /\ prompt = row_prompt[row]
            /\ written = IF row_written[row] <= keep THEN row_written[row] ELSE keep
            /\ m = IF Len(row_chain[row]) <= keep THEN Len(row_chain[row]) ELSE keep
  PROVE  PoolStep /\ SharingInv'
<1>1. Pool!Next /\ CacheInv'
  BY ReleaseKeeps DEF SharingInv
<1>2. /\ keep \in 0 .. Len(block_tables[row]) /\ cached' = cached
      /\ \A r \in Rows \ {row} : /\ block_tables'[r] = block_tables[r]
                                 /\ row_busy'[r] = row_busy[r]
      /\ Len(block_tables'[row]) = keep
      /\ \A i \in 1 .. keep : block_tables'[row][i] = block_tables[row][i]
      /\ row_busy'[row] => row_busy[row] /\ keep # 0
  BY ReleaseFacts DEF SharingInv
<1>3. PICK S : row_chain \in [Rows -> Seq(S)]
  BY DEF SharingInv, Typed
<1>4. /\ row_prompt \in [Rows -> Prompts \cup {<<>>}] /\ row_written \in [Rows -> Nat]
      /\ Len(row_prompt[row]) \in Nat /\ Len(block_tables[row]) \in Nat
      /\ Len(row_chain[row]) \in Nat
      /\ row_written[row] <= Len(row_prompt[row]) /\ row_written[row] <= Len(block_tables[row])
      /\ Len(row_chain[row]) <= row_written[row]
  BY RowFacts DEF SharingInv, Typed
<1>5. /\ m \in 0 .. Len(row_chain[row]) /\ m <= written /\ written <= keep
      /\ written <= Len(prompt) /\ written <= row_written[row]
  <2>1. Len(<<>>) = 0
    OBVIOUS
  <2> QED
    BY <1>4, <2>1
<1>6. PICK chain : chain = SubSeq(row_chain[row], 1, m)
  OBVIOUS
<1>7. /\ chain \in Seq(S) /\ Len(chain) = m
      /\ IsChain(chain, row_prompt[row], m)
  BY <1>3, <1>5, <1>6, ChainCut DEF SharingInv, ChainsOwn
<1>8. /\ row_chain' \in [Rows -> Seq(S)] /\ row_chain'[row] = chain
      /\ row_prompt'[row] = prompt /\ row_written'[row] = written
      /\ \A r \in Rows \ {row} : /\ row_chain'[r] = row_chain[r]
                                 /\ row_prompt'[r] = row_prompt[r]
                                 /\ row_written'[r] = row_written[r]
  BY <1>3, <1>4, <1>6, <1>7
<1>9. \A r \in Rows : \A i \in 1 .. Len(block_tables'[r]) :
        i \in 1 .. Len(block_tables[r]) /\ block_tables'[r][i] = block_tables[r][i]
  BY <1>2
<1>10. Typed' /\ FreeBlank'
  <2>1. PoolView'
    BY <1>1, PoolFactsNext DEF CacheInv
  <2>2. kv' \in [Blocks -> Seq(Tokens)] /\ FreeBlank'
    BY <2>1, ClobberFacts DEF SharingInv
  <2>3. /\ row_prompt' \in [Rows -> Prompts \cup {<<>>}]
        /\ row_written' \in [Rows -> Nat]
    BY <1>4
  <2> QED
    BY <1>8, <2>2, <2>3 DEF SharingInv, Typed
<1>11. Progress'
  <2> SUFFICES ASSUME NEW r \in Rows
               PROVE  /\ row_written'[r] <= Len(row_prompt'[r])
                      /\ row_written'[r] <= Len(block_tables'[r])
                      /\ Len(row_chain'[r]) <= row_written'[r]
                      /\ row_busy'[r] => row_prompt'[r] \in Prompts
                      /\ r # None
    BY DEF Progress
  <2>1. r # None
    BY CacheSizes DEF None, Rows, Pool!Rows
  <2>2. CASE r = row
    <3>1. row_busy'[row] => prompt \in Prompts
      BY <1>2, RowFacts
    <3> QED
      BY <1>2, <1>5, <1>7, <1>8, <2>1, <2>2, <3>1
  <2>3. CASE r # row
    BY <1>2, <1>8, <2>1, <2>3, RowFacts
  <2> QED
    BY <2>2, <2>3
<1>12. ChainsOwn'
  <2> SUFFICES ASSUME NEW r \in Rows
               PROVE  IsChain(row_chain'[r], row_prompt'[r], Len(row_chain'[r]))
    BY DEF ChainsOwn, IsChain, Before
  <2>1. CASE r = row
    <3>1. IsChain(chain, prompt, m)
      BY <1>7 DEF IsChain
    <3> QED
      BY <1>7, <1>8, <2>1, <3>1
  <2>2. CASE r # row
    BY <1>8, <2>2 DEF SharingInv, ChainsOwn
  <2> QED
    BY <2>1, <2>2
<1>13. WritableOwn'
  <2> SUFFICES ASSUME NEW r \in Rows, NEW i \in 1 .. Len(block_tables'[r]),
                      i > row_written'[r] \/ i >= Len(row_prompt'[r])
               PROVE  /\ ~cached[block_tables'[r][i]]
                      /\ \A q \in Rows : \A j \in 1 .. Len(block_tables'[q]) :
                           block_tables'[q][j] = block_tables'[r][i] => q = r
    BY <1>2 DEF WritableOwn
  <2>1. i > row_written[r] \/ i >= Len(row_prompt[r])
    BY <1>2, <1>4, <1>8
  <2>2. i \in 1 .. Len(block_tables[r]) /\ block_tables'[r][i] = block_tables[r][i]
    BY <1>9
  <2>3. /\ ~cached[block_tables[r][i]]
        /\ \A q \in Rows : \A j \in 1 .. Len(block_tables[q]) :
             block_tables[q][j] = block_tables[r][i] => q = r
    BY <2>1, <2>2 DEF SharingInv, WritableOwn
  <2> QED
    BY <1>9, <2>2, <2>3
<1>14. SharedPinned'
  <2> SUFFICES ASSUME NEW q \in Rows, NEW r \in Rows,
                      NEW i \in 1 .. Len(block_tables'[q]), NEW j \in 1 .. Len(block_tables'[r]),
                      q # r, block_tables'[q][i] = block_tables'[r][j]
               PROVE  cached[block_tables'[q][i]]
    BY <1>2 DEF SharedPinned
  <2>1. /\ i \in 1 .. Len(block_tables[q]) /\ block_tables'[q][i] = block_tables[q][i]
        /\ j \in 1 .. Len(block_tables[r]) /\ block_tables'[r][j] = block_tables[r][j]
    BY <1>9
  <2> QED
    BY <2>1 DEF SharingInv, SharedPinned
<1>15. EntriesNamed'
  <2> SUFFICES ASSUME NEW r \in Rows, NEW i \in 1 .. row_written'[r], NEW h \in DOMAIN entries,
                      i < Len(row_prompt'[r]), entries[h].block = block_tables'[r][i]
               PROVE  IsHashOf(h, row_prompt'[r], i)
    BY DEF EntriesNamed, IsHashOf, IsChain, Before
  <2>1. CASE r = row
    <3>1. i \in 1 .. row_written[row] /\ i \in 1 .. keep /\ prompt = row_prompt[row]
      BY <1>2, <1>4, <1>5, <1>8, <2>1
    <3> QED
      BY <1>2, <1>8, <2>1, <3>1 DEF SharingInv, EntriesNamed
  <2>2. CASE r # row
    BY <1>2, <1>8, <2>2 DEF SharingInv, EntriesNamed
  <2> QED
    BY <2>1, <2>2
<1> QED
  BY <1>1, <1>10, <1>11, <1>12, <1>13, <1>14, <1>15 DEF SharingInv, PoolStep

\* A preempted row keeps its first blocks.
LEMMA CutStep ==
  ASSUME SharingInv, admitting = None, NEW row \in Live,
         NEW keep \in 1 .. MaxBlocksPerSeq, Cut(row, keep)
  PROVE  PoolStep /\ SharingInv'
<1>1. row \in Rows /\ keep \in Nat
  BY DEF Live
<1>2. row_written[row] \in Nat /\ Len(row_chain[row]) \in Nat
  BY <1>1, RowFacts
<1>3. PICK written, m :
        /\ written = IF row_written[row] <= keep THEN row_written[row] ELSE keep
        /\ m = IF Len(row_chain[row]) <= keep THEN Len(row_chain[row]) ELSE keep
  OBVIOUS
<1>4. /\ Min({row_written[row], keep}) = written /\ written \in Nat
      /\ Min({Len(row_chain[row]), keep}) = m /\ m \in Nat
  BY <1>1, <1>2, <1>3, MinFacts
<1>5. /\ Pool!FreeBlocksFrom(row, keep) /\ Clobber({})
      /\ entries' = entries /\ lru' = lru /\ admitting' = admitting
      /\ row_written' = [row_written EXCEPT ![row] = Min({row_written[row], keep})]
      /\ row_chain' = [row_chain EXCEPT ![row] = SubSeq(@, 1, Min({Len(row_chain[row]), keep}))]
      /\ row_prompt' = row_prompt
  BY DEF Cut
<1>6. PICK prompt \in Prompts \cup {<<>>} : prompt = row_prompt[row]
  BY <1>1 DEF SharingInv, Typed
<1>7. /\ row_prompt' = [row_prompt EXCEPT ![row] = prompt]
      /\ row_written' = [row_written EXCEPT ![row] = written]
      /\ row_chain' = [row_chain EXCEPT ![row] = SubSeq(@, 1, m)]
  BY <1>1, <1>4, <1>5, <1>6 DEF SharingInv, Typed
<1>8. /\ Pool!FreeBlocksFrom(row, keep) /\ Clobber({})
      /\ entries' = entries /\ lru' = lru /\ admitting' = admitting
  BY <1>5
<1> QED
  BY <1>1, <1>3, <1>4, <1>6, <1>7, <1>8, ReleaseStep

\* A row's sequence ends.
LEMMA FinishStep ==
  ASSUME SharingInv, admitting = None, NEW row \in Live, Finish(row)
  PROVE  PoolStep /\ SharingInv'
<1>1. row \in Rows
  BY DEF Live
<1>2. /\ Pool!FreeBlocksFrom(row, 0) /\ Clobber({})
      /\ entries' = entries /\ lru' = lru /\ admitting' = admitting
      /\ row_written' = [row_written EXCEPT ![row] = 0]
      /\ row_chain' = [row_chain EXCEPT ![row] = <<>>]
      /\ row_prompt' = [row_prompt EXCEPT ![row] = <<>>]
  BY DEF Finish
<1>3. SubSeq(row_chain[row], 1, 0) = <<>>
  OBVIOUS
<1>4. row_chain' = [row_chain EXCEPT ![row] = SubSeq(@, 1, 0)]
  BY <1>2, <1>3
<1> QED
  BY <1>1, <1>2, <1>4, ReleaseStep

\* A forward pass commits blocks of several rows at once.
LEMMA CommitStep ==
  ASSUME SharingInv, UNCHANGED cache_vars, UNCHANGED <<kv, admitting, row_prompt, row_chain>>,
         row_written' \in [Rows -> Nat],
         \A r \in Rows : /\ row_written[r] <= row_written'[r]
                        /\ row_written'[r] <= Len(row_prompt[r])
                        /\ row_written'[r] <= Len(block_tables[r])
  PROVE  PoolStep /\ SharingInv'
<1>1. /\ CacheInv' /\ UNCHANGED pool_vars
      /\ free_blocks' = free_blocks /\ cached' = cached
      /\ block_tables' = block_tables /\ row_busy' = row_busy
      /\ entries' = entries /\ row_prompt' = row_prompt
  BY UnchangedCache DEF SharingInv
<1>2. Typed'
  BY DEF SharingInv, Typed, Rows, Pool!Rows, Blocks, Pool!Blocks
<1>3. Progress'
  <2>1. Rows' = Rows
    BY DEF Rows, Pool!Rows
  <2>2. ASSUME NEW r \in Rows PROVE Len(row_chain[r]) <= row_written'[r]
    BY RowFacts
  <2> QED
    BY <1>1, <2>1, <2>2 DEF SharingInv, Progress
<1>4. WritableOwn'
  BY <1>1, RowFacts DEF SharingInv, WritableOwn
<1>5. EntriesNamed'
  <2> SUFFICES ASSUME NEW r \in Rows, NEW k \in 1 .. row_written'[r], NEW h \in DOMAIN entries,
                      k < Len(row_prompt[r]), entries[h].block = block_tables[r][k]
               PROVE  IsHashOf(h, row_prompt[r], k)
    BY <1>1 DEF EntriesNamed, IsHashOf, IsChain, Before
  <2>1. k \in 1 .. Len(block_tables[r]) /\ row_written[r] \in Nat
    BY RowFacts
  <2>2. k \in 1 .. row_written[r]
    BY <2>1, WritableFacts
  <2> QED
    BY <2>2 DEF SharingInv, EntriesNamed
<1>6. (ChainsOwn /\ SharedPinned)'
  <2>1. ChainsOwn'
    BY <1>1 DEF SharingInv, ChainsOwn, IsChain, Before
  <2>2. SharedPinned'
    BY <1>1 DEF SharingInv, SharedPinned
  <2> QED
    BY <2>1, <2>2
<1>7. FreeBlank'
  BY <1>1 DEF SharingInv, FreeBlank
<1> QED
  BY <1>1, <1>2, <1>3, <1>4, <1>5, <1>6, <1>7 DEF SharingInv, PoolStep

\* A step that changes nothing.
LEMMA StutterStep ==
  ASSUME SharingInv, UNCHANGED vars
  PROVE  PoolStep /\ SharingInv'
<1>1. CacheInv' /\ UNCHANGED pool_vars
  BY UnchangedCache DEF SharingInv, vars
<1>2. (Progress /\ WritableOwn /\ SharedPinned /\ FreeBlank)'
  BY DEF SharingInv, Progress, WritableOwn, SharedPinned, FreeBlank, vars, cache_vars,
         pool_vars, row_vars
<1>3. Typed'
  BY DEF SharingInv, Typed, vars, row_vars
<1>4. (ChainsOwn /\ EntriesNamed)'
  BY DEF SharingInv, ChainsOwn, EntriesNamed, IsHashOf, IsChain, Before, vars, cache_vars,
         pool_vars, row_vars
<1> QED
  BY <1>1, <1>2, <1>3, <1>4 DEF SharingInv, PoolStep

\* Nothing is shared to begin with.
LEMMA InitSharing == Init => SharingInv
<1> SUFFICES ASSUME Init PROVE SharingInv
  OBVIOUS
<1>1. /\ entries = [h \in {} |-> {}] /\ lru = <<>> /\ Pool!Init
      /\ kv = [b \in Blocks |-> NoKV] /\ admitting = None
      /\ row_prompt = [r \in Rows |-> <<>>]
      /\ row_written = [r \in Rows |-> 0]
      /\ row_chain = [r \in Rows |-> <<>>]
  BY DEF Init, CacheInit
<1>2. /\ cached = [b \in Blocks |-> FALSE] /\ block_tables = [r \in Rows |-> <<>>]
      /\ row_busy = [r \in Rows |-> FALSE]
  BY <1>1, SameSets DEF Pool!Init
<1>3. DOMAIN entries = {} /\ Range(lru) = {} /\ DOMAIN lru = {} /\ Len(<<>>) = 0
  BY <1>1 DEF Range
<1>4. CacheInv
  <2>1. PoolInv
    BY <1>1, InitPoolInv
  <2>2. CacheTyped
    BY <1>1, <1>3 DEF CacheTyped
  <2>3. CacheCoherent
    <3>1. Pool!IsInjective(lru) /\ Range(lru) = DOMAIN entries
      BY <1>3 DEF Pool!IsInjective
    <3>2. Cardinality(DOMAIN entries) <= 2 * MaxEntries
      BY <1>3, FS_EmptySet, CacheSizes
    <3> QED
      BY <1>2, <1>3, <3>1, <3>2 DEF CacheCoherent
  <2> QED
    BY <2>1, <2>2, <2>3 DEF CacheInv
<1>5. Typed
  <2>1. row_chain \in [Rows -> Seq({})]
    BY <1>1
  <2>2. NoKV \in Seq(Tokens)
    BY DEF NoKV
  <2> QED
    BY <1>1, <2>1, <2>2 DEF Typed
<1>6. Progress
  <2> SUFFICES ASSUME NEW r \in Rows
               PROVE  /\ row_written[r] = 0 /\ row_prompt[r] = <<>> /\ block_tables[r] = <<>>
                      /\ row_chain[r] = <<>> /\ ~row_busy[r] /\ r # admitting
    BY <1>3 DEF Progress
  <2> QED
    BY <1>1, <1>2, CacheSizes DEF None, Rows, Pool!Rows
<1>7. ChainsOwn
  BY <1>1, <1>3 DEF ChainsOwn, IsChain
<1>8. WritableOwn /\ SharedPinned
  BY <1>2, <1>3 DEF WritableOwn, SharedPinned
<1>9. EntriesNamed
  BY <1>3 DEF EntriesNamed
<1>10. FreeBlank
  <2>1. Range(free_blocks) \subseteq Blocks
    BY <1>4, PoolFacts, OwnElements DEF CacheInv, PoolView
  <2> QED
    BY <1>1, <2>1 DEF FreeBlank
<1> QED
  BY <1>4, <1>5, <1>6, <1>7, <1>8, <1>9, <1>10 DEF SharingInv

\* Every step.
LEMMA SharingSteps == SharingInv /\ [Next]_vars => PoolStep /\ SharingInv'
<1> SUFFICES ASSUME SharingInv, [Next]_vars PROVE PoolStep /\ SharingInv'
  OBVIOUS
<1>1. CASE admitting = None /\ \E prompt \in Prompts : Claim(prompt)
  BY <1>1, ClaimStep
<1>2. CASE admitting # None /\ Mount(admitting)
  BY <1>2, MountStep
<1>3. ASSUME admitting = None, NEW row \in Live,
             \/ Grow(row) \/ Prefill(row) \/ Decode(row) \/ RecordBlock(row)
             \/ \E keep \in 1 .. MaxBlocksPerSeq : Cut(row, keep)
             \/ Finish(row)
      PROVE  PoolStep /\ SharingInv'
  BY <1>3, GrowStep, PrefillStep, DecodeStep, RecordStep, CutStep, FinishStep
<1>4. CASE UNCHANGED vars
  BY <1>4, StutterStep
<1> QED
  BY <1>1, <1>2, <1>3, <1>4 DEF Next

-------------------------------------------------------------------------------
(* The theorems that hold whatever the hash does.                            *)

\* The invariant, for every pool, cache, hash function and set of prompts.
THEOREM SharingInvariant == Spec => []SharingInv
<1>1. Init => SharingInv
  BY InitSharing
<1>2. SharingInv /\ [Next]_vars => SharingInv'
  BY SharingSteps
<1> QED
  BY <1>1, <1>2, PTL DEF Spec

\* The pins of the pool are the entries of the cache, however its users'
\* admissions, evictions, preemptions and endings interleave.
THEOREM PinsAreEntries == Spec => []CacheCoherent
<1>1. SharingInv => CacheCoherent
  BY DEF SharingInv, CacheInv
<1> QED
  BY <1>1, SharingInvariant, PTL

\* Everything the prefix cache and its users do to the pool is a move of the
\* pool: what is proved of BlockAllocator holds of the pool they share.
THEOREM SharingImplementsPool == Spec => PoolSpec
<1>1. Init => Pool!Init
  BY DEF Init, CacheInit
<1>2. SharingInv /\ [Next]_vars => [Pool!Next]_(Pool!vars)
  BY SharingSteps DEF PoolStep, pool_vars, Pool!vars
<1> QED
  BY <1>1, <1>2, SharingInvariant, PTL DEF Spec, PoolSpec, Pool!Spec

\* The one row that may write a block is the only one that holds it.
LEMMA OneHolder ==
  ASSUME SharingInv, NEW row \in Rows, NEW i \in 1 .. Len(block_tables[row]),
         i > row_written[row] \/ i >= Len(row_prompt[row])
  PROVE  Cardinality(Pool!Holders(block_tables[row][i])) = 1 /\ ~cached[block_tables[row][i]]
<1> DEFINE b == block_tables[row][i]
<1>1. /\ ~cached[b]
      /\ \A r \in Rows : \A j \in 1 .. Len(block_tables[r]) : block_tables[r][j] = b => r = row
  BY WritableFacts
<1>2. \A r \in Rows : DOMAIN block_tables[r] = 1 .. Len(block_tables[r])
  BY PoolFacts DEF SharingInv, CacheInv, PoolView
<1>3. Pool!Holders(b) = {row}
  <2>1. Pool!Holders(b) = {r \in Rows : b \in Range(block_tables[r])}
    BY SameSets, SameRange DEF Pool!Holders
  <2>2. b \in Range(block_tables[row])
    BY <1>2 DEF Range
  <2> HIDE DEF b
  <2>3. \A r \in Rows : b \in Range(block_tables[r]) => r = row
    BY <1>1, <1>2 DEF Range
  <2> QED
    BY <2>1, <2>2, <2>3
<1> QED
  BY <1>1, <1>3, FS_Singleton

\* While the pool stands still, only a writer changes what a block holds.
LEMMA WriterStep ==
  ASSUME SharingInv, [Next]_vars, UNCHANGED pool_vars, NEW b \in Blocks, kv'[b] # kv[b]
  PROVE  Cardinality(Pool!Holders(b)) = 1 /\ ~cached[b]
<1>1. /\ free_blocks' = free_blocks /\ block_tables' = block_tables
  BY DEF pool_vars
<1>2. /\ kv \in [Blocks -> Seq(Tokens)] /\ \A c \in Range(free_blocks) : kv[c] = NoKV
      /\ Live \subseteq Rows
  BY DEF SharingInv, Typed, FreeBlank, Live
<1>3. ~Clobber({})
  BY <1>1, <1>2 DEF Clobber
<1>4. \A row \in Rows : ~Clobber(Range(block_tables'[row]) \ Range(block_tables[row]))
  BY <1>1, <1>2 DEF Clobber
<1>5. PICK row \in Live : Prefill(row) \/ Decode(row)
  <2>1. \A prompt : ~Claim(prompt)
    BY DEF Claim
  <2>2. ~Mount(admitting)
    BY DEF Mount
  <2>3. \A row \in Rows : ~Grow(row)
    BY <1>4 DEF Grow
  <2>4. \A row \in Rows : ~RecordBlock(row) /\ ~Finish(row) /\ \A keep : ~Cut(row, keep)
    BY <1>3 DEF RecordBlock, Finish, Cut
  <2>5. ~UNCHANGED vars
    BY DEF vars
  <2> QED
    BY <1>2, <2>1, <2>2, <2>3, <2>4, <2>5 DEF Next
<1>6. row \in Rows /\ Len(row_prompt[row]) \in Nat /\ Len(row_prompt[row]) # 0
      /\ row_written[row] \in Nat /\ Len(block_tables[row]) \in Nat
  BY <1>2, RowFacts DEF Live
<1>7. PICK i, value :
        /\ i \in 1 .. Len(block_tables[row])
        /\ i > row_written[row] \/ i >= Len(row_prompt[row])
        /\ kv' = [kv EXCEPT ![block_tables[row][i]] = value]
  <2>1. CASE Prefill(row)
    <3>1. PICK i : i = row_written[row] + 1
      OBVIOUS
    <3>2. /\ i <= Len(block_tables[row])
          /\ kv' = [kv EXCEPT ![block_tables[row][i]] = SubSeq(row_prompt[row], 1, i)]
      BY <2>1, <3>1 DEF Prefill
    <3>3. i \in 1 .. Len(block_tables[row]) /\ i > row_written[row]
      BY <1>6, <3>1, <3>2
    <3> QED
      BY <3>2, <3>3
  <2>2. CASE Decode(row)
    <3>1. PICK i \in Len(row_prompt[row]) .. Len(block_tables[row]) :
            kv' = [kv EXCEPT ![block_tables[row][i]] = NoKV]
      BY <2>2 DEF Decode
    <3>2. i \in 1 .. Len(block_tables[row]) /\ i >= Len(row_prompt[row])
      BY <1>6, <3>1
    <3> QED
      BY <3>1, <3>2
  <2> QED
    BY <1>5, <2>1, <2>2
<1>8. block_tables[row][i] = b
  BY <1>2, <1>7
<1> QED
  BY <1>6, <1>7, <1>8, OneHolder

\* KV is written only to a block that one row holds and no entry points at.
THEOREM WritersAlone == Spec => SharedReadOnly
<1>1. SharingInv /\ [Next]_vars
        => [UNCHANGED pool_vars =>
              \A b \in Blocks :
                kv'[b] # kv[b] => Cardinality(Pool!Holders(b)) = 1 /\ ~cached[b]]_vars
  BY WriterStep
<1> QED
  BY <1>1, SharingInvariant, PTL DEF Spec, SharedReadOnly

-------------------------------------------------------------------------------
(* The theorems that need hashes not to collide.                             *)

\* A match can be mounted: its entries stand for different blocks, none is free,
\* and the table is wide enough.
LEMMA MatchFits ==
  ASSUME NoCollisions, SharingInv PROVE MatchMountable
<1> SUFFICES ASSUME NEW row \in Rows, row = admitting,
                    BlocksOf(Lookup(row_prompt[row])) # <<>>
             PROVE  /\ Pool!IsInjective(BlocksOf(Lookup(row_prompt[row])))
                    /\ Pool!CanMount(row, BlocksOf(Lookup(row_prompt[row])))
  BY DEF MatchMountable, SharingInv, Typed
<1>1. PICK p, chain, blocks :
        p = row_prompt[row] /\ chain = Lookup(p) /\ blocks = BlocksOf(chain)
  OBVIOUS
<1>2. /\ p \in Prompts /\ p \in Seq(Tokens) /\ Len(p) \in Nat /\ Len(p) <= MaxBlocksPerSeq
      /\ block_tables[row] = <<>>
  BY <1>1, RowFacts, PromptFacts DEF SharingInv, Progress
<1>3. /\ chain \in Seq(DOMAIN entries) /\ Len(chain) \in Nat /\ DOMAIN chain = 1 .. Len(chain)
      /\ \A i \in 1 .. Len(chain) : /\ chain[i] \in DOMAIN entries
                                   /\ i < Len(p) /\ IsHashOf(chain[i], p, i)
  BY <1>1, <1>2, MatchFacts, OwnElements
<1>4. /\ DOMAIN blocks = 1 .. Len(chain) /\ Len(blocks) = Len(chain)
      /\ \A i \in 1 .. Len(chain) : /\ blocks[i] = entries[chain[i]].block
                                   /\ blocks[i] \in Blocks /\ cached[blocks[i]]
  BY <1>1, <1>3, CacheFacts DEF BlocksOf, SharingInv
<1>5. Pool!IsInjective(blocks)
  <2> SUFFICES ASSUME NEW i \in 1 .. Len(chain), NEW j \in 1 .. Len(chain), blocks[i] = blocks[j]
               PROVE  i = j
    BY <1>4 DEF Pool!IsInjective
  <2>1. chain[i] = chain[j]
    BY <1>3, <1>4, CacheFacts DEF SharingInv
  <2>2. i \in 1 .. Len(p) /\ j \in 1 .. Len(p)
    BY <1>2, <1>3
  <2>3. SubSeq(p, 1, i) = SubSeq(p, 1, j)
    BY <1>2, <1>3, <2>1, <2>2 DEF NoCollisions
  <2>4. Len(SubSeq(p, 1, i)) = i /\ Len(SubSeq(p, 1, j)) = j
    BY <1>2, <2>2, SubSeqProperties, OwnElements
  <2> QED
    BY <2>3, <2>4
<1>6. Pool!CanMount(row, blocks)
  <2>1. Len(blocks) > 0
    <3>1. Len(blocks) # 0
      BY <1>1, <1>3, <1>4 DEF BlocksOf
    <3> QED
      BY <1>3, <1>4, <3>1
  <2>2. Len(block_tables[row]) + Len(blocks) <= MaxBlocksPerSeq
    <3>1. Len(block_tables[row]) = 0
      BY <1>2
    <3>2. Len(chain) <= Len(p)
      BY <1>2, <1>3
    <3> QED
      BY <1>2, <1>3, <1>4, <3>1, <3>2, CacheSizes
  <2>3. Range(blocks) \subseteq Pool!Mountable
    BY <1>4, SameSets DEF Range, Pool!Mountable
  <2>4. Range(block_tables[row]) = {}
    BY <1>2 DEF Range
  <2> QED
    BY <2>1, <2>2, <2>3, <2>4, SameRange DEF Pool!CanMount
<1> QED
  BY <1>1, <1>5, <1>6

\* What a row has committed of its prompt, entry by entry of its table.
KVHeld ==
  \A r \in Rows : \A i \in 1 .. row_written[r] :
    i < Len(row_prompt[r]) => kv[block_tables[r][i]] = SubSeq(row_prompt[r], 1, i)

\* That is all KVIntact speaks of.
LEMMA HeldIsIntact == SharingInv /\ KVHeld => KVIntact
<1> SUFFICES ASSUME SharingInv, KVHeld, NEW r \in Rows,
                    NEW i \in 1 .. Min({row_written[r], Cacheable(row_prompt[r])})
             PROVE  kv[block_tables[r][i]] = SubSeq(row_prompt[r], 1, i)
  BY DEF KVIntact
<1>1. /\ row_written[r] \in Nat /\ Cacheable(row_prompt[r]) \in Nat
      /\ \A k \in Nat : k > 0 => (k <= Cacheable(row_prompt[r]) <=> k < Len(row_prompt[r]))
  BY RowFacts, PromptFacts
<1>2. i \in Nat /\ i > 0 /\ i <= row_written[r] /\ i <= Cacheable(row_prompt[r])
  BY <1>1, MinFacts
<1> QED
  BY <1>1, <1>2 DEF KVHeld

\* The blocks of tables and entries, none of which is free.
HeldView ==
  /\ \A r \in Rows : \A i \in 1 .. row_written[r] :
       /\ i \in 1 .. Len(block_tables[r])
       /\ block_tables[r][i] \in Blocks /\ block_tables[r][i] \notin Range(free_blocks)
  /\ \A h \in DOMAIN entries :
       /\ entries[h].block \in Blocks /\ cached[entries[h].block]
       /\ entries[h].block \notin Range(free_blocks)

\* The invariant sees to that.
LEMMA HeldFacts == SharingInv => HeldView
<1> SUFFICES ASSUME SharingInv PROVE HeldView
  OBVIOUS
<1>1. PoolView
  BY PoolFacts DEF SharingInv, CacheInv
<1>2. \A r \in Rows : \A i \in 1 .. row_written[r] : i \in 1 .. Len(block_tables[r])
  BY RowFacts
<1>3. \A h \in DOMAIN entries : entries[h].block \in Blocks /\ cached[entries[h].block]
  BY CacheFacts DEF SharingInv
<1> QED
  BY <1>1, <1>2, <1>3 DEF HeldView, PoolView

\* The same after a step.
LEMMA HeldFactsNext == SharingInv' => HeldView'
BY HeldFacts, PTL

\* What the sequences read is right.
KVInv == KVHeld /\ EntriesHold

\* A step that leaves the KV of all blocks in use, and the entries, alone, and
\* has no row commit more.
LEMMA KVStays ==
  ASSUME KVInv,
         \A r \in Rows : \A i \in 1 .. row_written'[r] :
           i < Len(row_prompt'[r]) =>
             /\ i \in 1 .. row_written[r] /\ row_prompt'[r] = row_prompt[r]
             /\ block_tables'[r][i] = block_tables[r][i]
             /\ kv'[block_tables[r][i]] = kv[block_tables[r][i]],
         \A h \in DOMAIN entries' :
           /\ h \in DOMAIN entries /\ entries'[h].block = entries[h].block
           /\ kv'[entries[h].block] = kv[entries[h].block]
  PROVE  KVInv'
<1>1. KVHeld'
  <2> SUFFICES ASSUME NEW r \in Rows, NEW i \in 1 .. row_written'[r], i < Len(row_prompt'[r])
               PROVE  kv'[block_tables'[r][i]] = SubSeq(row_prompt'[r], 1, i)
    BY DEF KVHeld, Rows, Pool!Rows
  <2> QED
    BY DEF KVInv, KVHeld
<1>2. EntriesHold'
  <2> SUFFICES ASSUME NEW h \in DOMAIN entries'
               PROVE  \E p \in Prompts : \E n \in 1 .. Len(p) :
                        IsHashOf(h, p, n) /\ kv'[entries'[h].block] = SubSeq(p, 1, n)
    BY DEF EntriesHold, IsHashOf, IsChain, Before
  <2>1. h \in DOMAIN entries /\ kv'[entries'[h].block] = kv[entries[h].block]
    OBVIOUS
  <2>2. \E p \in Prompts : \E n \in 1 .. Len(p) :
          IsHashOf(h, p, n) /\ kv[entries[h].block] = SubSeq(p, 1, n)
    BY <2>1 DEF KVInv, EntriesHold
  <2> QED
    BY <2>1, <2>2
<1> QED
  BY <1>1, <1>2 DEF KVInv

\* An admission claims a row.
LEMMA ClaimKV ==
  ASSUME SharingInv, KVInv, NEW prompt \in Prompts, Claim(prompt)
  PROVE  KVInv'
<1>1. /\ Pool!AllocateBlocks(0, <<>>)
      /\ entries' = entries /\ kv' = kv /\ row_written' = row_written
  BY DEF Claim
<1>2. PICK row \in Rows : /\ Pool!IsFirstFreeRow(row)
                         /\ row_prompt' = [row_prompt EXCEPT ![row] = prompt]
  BY DEF Claim
<1>3. block_tables' = block_tables
  BY <1>1, ClaimFacts DEF SharingInv
<1>4. row_written[row] = 0
  <2>1. block_tables[row] = <<>> /\ Len(<<>>) = 0
    BY <1>2, PoolFacts DEF SharingInv, CacheInv, PoolView, Pool!IsFirstFreeRow
  <2> QED
    BY <2>1, RowFacts
<1>5. \A r \in Rows \ {row} : row_prompt'[r] = row_prompt[r]
  BY <1>2 DEF SharingInv, Typed
<1> QED
  BY <1>1, <1>3, <1>4, <1>5, KVStays

\* A mounted block holds the KV of the prompt it was looked up for.
LEMMA MountKV ==
  ASSUME NoCollisions, SharingInv, KVInv, admitting # None, Mount(admitting)
  PROVE  KVInv'
<1>1. PICK row \in Rows : row = admitting
  BY DEF SharingInv, Typed
<1>2. PICK p, chain : p = row_prompt[row] /\ chain = Lookup(p)
  OBVIOUS
<1>3. p \in Prompts /\ Len(p) \in Nat /\ block_tables[row] = <<>>
  BY <1>1, <1>2, RowFacts DEF SharingInv, Progress
<1>4. /\ chain \in Seq(DOMAIN entries) /\ Len(chain) \in Nat
      /\ \A i \in 1 .. Len(chain) : /\ chain[i] \in DOMAIN entries
                                   /\ i < Len(p) /\ IsHashOf(chain[i], p, i)
  BY <1>2, <1>3, MatchFacts
<1>5. /\ MountMatch(row, chain)
      /\ row_written' = [row_written EXCEPT ![row] = Len(chain)]
      /\ kv' = kv /\ row_prompt' = row_prompt
  BY <1>1, <1>2 DEF Mount
<1>6. /\ entries' = entries
      /\ \A r \in Rows \ {row} : block_tables'[r] = block_tables[r]
      /\ \A i \in 1 .. Len(chain) : block_tables'[row][i] = entries[chain[i]].block
  BY <1>3, <1>4, <1>5, MountMatchFacts DEF SharingInv
<1>7. /\ row_written'[row] = Len(chain)
      /\ \A r \in Rows \ {row} : row_written'[r] = row_written[r]
  BY <1>5 DEF SharingInv, Typed
<1>8. EntriesHold'
  <2> SUFFICES EntriesHold
    BY <1>5, <1>6 DEF EntriesHold, IsHashOf, IsChain, Before
  <2> QED
    BY DEF KVInv
<1>9. KVHeld'
  <2> SUFFICES ASSUME NEW r \in Rows, NEW i \in 1 .. row_written'[r], i < Len(row_prompt[r])
               PROVE  kv[block_tables'[r][i]] = SubSeq(row_prompt[r], 1, i)
    BY <1>5 DEF KVHeld, Rows, Pool!Rows
  <2>1. CASE r = row
    <3>1. i \in 1 .. Len(chain) /\ i \in 1 .. Len(p)
      BY <1>2, <1>3, <1>7, <2>1
    <3>2. PICK q \in Prompts : \E n \in 1 .. Len(q) :
            IsHashOf(chain[i], q, n) /\ kv[entries[chain[i]].block] = SubSeq(q, 1, n)
      BY <1>4, <3>1 DEF KVInv, EntriesHold
    <3>3. kv[entries[chain[i]].block] = SubSeq(p, 1, i)
      BY <1>3, <1>4, <3>1, <3>2 DEF NoCollisions
    <3> QED
      BY <1>2, <1>6, <2>1, <3>1, <3>3
  <2>2. CASE r # row
    BY <1>6, <1>7, <2>2 DEF KVInv, KVHeld
  <2> QED
    BY <2>1, <2>2
<1> QED
  BY <1>8, <1>9 DEF KVInv

\* A row grows: what is overwritten was in no table and behind no entry.
LEMMA GrowKV ==
  ASSUME SharingInv, SharingInv', KVInv, NEW row \in Live, Grow(row)
  PROVE  KVInv'
<1>1. row \in Rows
  BY DEF Live
<1>2. PICK is, was, taken :
        /\ is = block_tables'[row] /\ was = block_tables[row] /\ taken = Range(is) \ Range(was)
  OBVIOUS
<1>3. /\ AppendBlock(row) /\ Clobber(taken)
      /\ row_prompt' = row_prompt /\ row_written' = row_written
  BY <1>2 DEF Grow, row_vars
<1>4. /\ \A r \in Rows \ {row} : block_tables'[r] = block_tables[r]
      /\ Len(was) <= Len(is) /\ \A i \in 1 .. Len(was) : is[i] = was[i]
      /\ \A i \in Len(was) + 1 .. Len(is) :
           /\ ~cached'[is[i]]
           /\ \A r \in Rows : \A j \in 1 .. Len(block_tables[r]) : block_tables[r][j] # is[i]
      /\ \A h \in DOMAIN entries' : h \in DOMAIN entries /\ entries'[h] = entries[h]
  BY <1>1, <1>2, <1>3, AppendBlockFacts DEF SharingInv
<1>5. PoolView /\ PoolView' /\ HeldView /\ HeldView'
  BY PoolFacts, PoolFactsNext, HeldFacts, HeldFactsNext DEF SharingInv, CacheInv
<1>6. /\ Len(was) \in Nat /\ Len(is) \in Nat
      /\ DOMAIN was = 1 .. Len(was) /\ DOMAIN is = 1 .. Len(is)
  BY <1>1, <1>2, <1>5 DEF PoolView, Rows, Pool!Rows
<1>7. \A b \in taken : \E i \in Len(was) + 1 .. Len(is) : b = is[i]
  <2> SUFFICES ASSUME NEW b \in taken PROVE \E i \in Len(was) + 1 .. Len(is) : b = is[i]
    OBVIOUS
  <2>1. PICK i \in 1 .. Len(is) : b = is[i]
    BY <1>2, <1>6 DEF Range
  <2>2. i \notin 1 .. Len(was)
    BY <1>2, <1>4, <1>6, <2>1 DEF Range
  <2> QED
    BY <1>6, <2>1, <2>2
<1>8. \A b \in Blocks : b \notin Range(free_blocks') /\ b \notin taken => kv'[b] = kv[b]
  BY <1>3, <1>5, ClobberFacts DEF SharingInv
<1>9. ASSUME NEW r \in Rows, NEW i \in 1 .. row_written[r]
      PROVE  /\ block_tables'[r][i] = block_tables[r][i]
             /\ kv'[block_tables[r][i]] = kv[block_tables[r][i]]
  <2>1. i \in 1 .. Len(block_tables[r]) /\ block_tables[r][i] \in Blocks
    BY <1>5 DEF HeldView
  <2>2. block_tables'[r][i] = block_tables[r][i]
    BY <1>2, <1>4, <2>1
  <2>3. block_tables'[r][i] \notin Range(free_blocks')
    BY <1>3, <1>5 DEF HeldView, Rows, Pool!Rows
  <2>4. block_tables[r][i] \notin taken
    BY <1>4, <1>7, <2>1
  <2> QED
    BY <1>8, <2>1, <2>2, <2>3, <2>4
<1>10. ASSUME NEW h \in DOMAIN entries'
       PROVE  kv'[entries[h].block] = kv[entries[h].block]
  <2>1. /\ entries'[h].block = entries[h].block /\ entries[h].block \in Blocks
        /\ cached'[entries[h].block] /\ entries[h].block \notin Range(free_blocks')
    BY <1>4, <1>5 DEF HeldView, Blocks, Pool!Blocks
  <2> QED
    BY <1>4, <1>7, <1>8, <2>1
<1> QED
  BY <1>3, <1>4, <1>9, <1>10, KVStays

\* A write changes no block that an entry, or a committed entry of a table,
\* stands for.
LEMMA WriteKV ==
  ASSUME SharingInv, KVInv, NEW row \in Rows, NEW i \in 1 .. Len(block_tables[row]),
         i > row_written[row] \/ i >= Len(row_prompt[row]),
         NEW value, kv' = [kv EXCEPT ![block_tables[row][i]] = value]
  PROVE  /\ \A r \in Rows : \A j \in 1 .. row_written[r] :
              j < Len(row_prompt[r]) => kv'[block_tables[r][j]] = kv[block_tables[r][j]]
         /\ \A h \in DOMAIN entries : kv'[entries[h].block] = kv[entries[h].block]
<1>1. PICK b : b = block_tables[row][i]
  OBVIOUS
<1>2. /\ b \in Blocks
      /\ \A r \in Rows : \A j \in 1 .. Len(block_tables[r]) :
           block_tables[r][j] = b => r = row /\ j = i
      /\ \A h \in DOMAIN entries : entries[h].block # b
  BY <1>1, WritableFacts
<1>3. kv' = [kv EXCEPT ![b] = value] /\ kv \in [Blocks -> Seq(Tokens)]
  BY <1>1 DEF SharingInv, Typed
<1>4. HeldView
  BY HeldFacts
<1>5. ASSUME NEW r \in Rows, NEW j \in 1 .. row_written[r], j < Len(row_prompt[r])
      PROVE  kv'[block_tables[r][j]] = kv[block_tables[r][j]]
  <2>1. j \in 1 .. Len(block_tables[r]) /\ block_tables[r][j] \in Blocks
    BY <1>4 DEF HeldView
  <2>2. block_tables[r][j] # b
    BY <1>2, <1>5, <2>1, RowFacts
  <2> QED
    BY <1>3, <2>1, <2>2
<1>6. \A h \in DOMAIN entries : kv'[entries[h].block] = kv[entries[h].block]
  BY <1>2, <1>3, <1>4 DEF HeldView
<1> QED
  BY <1>1, <1>2, <1>3, <1>5, <1>6

\* Decoding writes past what is shared.
LEMMA DecodeKV ==
  ASSUME SharingInv, KVInv, NEW row \in Live, Decode(row)
  PROVE  KVInv'
<1>1. PICK i \in Len(row_prompt[row]) .. Len(block_tables[row]) :
        kv' = [kv EXCEPT ![block_tables[row][i]] = NoKV]
  BY DEF Decode
<1>2. UNCHANGED cache_vars /\ row_prompt' = row_prompt /\ row_written' = row_written
  BY DEF Decode, row_vars
<1>3. block_tables' = block_tables /\ entries' = entries
  BY <1>2 DEF cache_vars, pool_vars
<1>4. row \in Rows /\ i \in 1 .. Len(block_tables[row]) /\ i >= Len(row_prompt[row])
  BY <1>1, RowFacts DEF Live
<1>5. /\ \A r \in Rows : \A j \in 1 .. row_written[r] :
           j < Len(row_prompt[r]) => kv'[block_tables[r][j]] = kv[block_tables[r][j]]
      /\ \A h \in DOMAIN entries : kv'[entries[h].block] = kv[entries[h].block]
  BY <1>1, <1>4, WriteKV
<1> QED
  BY <1>2, <1>3, <1>5, KVStays

\* A prefill chunk writes the KV of the prompt's next prefix.
LEMMA PrefillKV ==
  ASSUME SharingInv, KVInv, NEW row \in Live, Prefill(row)
  PROVE  KVInv'
<1>1. PICK i, value : i = row_written[row] + 1 /\ value = SubSeq(row_prompt[row], 1, i)
  OBVIOUS
<1>2. /\ i <= Len(block_tables[row])
      /\ kv' = [kv EXCEPT ![block_tables[row][i]] = value]
      /\ row_written' = [row_written EXCEPT ![row] = i]
      /\ UNCHANGED cache_vars /\ row_prompt' = row_prompt
  BY <1>1 DEF Prefill
<1>3. block_tables' = block_tables /\ entries' = entries
  BY <1>2 DEF cache_vars, pool_vars
<1>4. row \in Rows /\ i \in 1 .. Len(block_tables[row])
      /\ (i > row_written[row] \/ i >= Len(row_prompt[row]))
  BY <1>1, <1>2, RowFacts DEF Live
<1>5. /\ \A r \in Rows : \A j \in 1 .. row_written[r] :
           j < Len(row_prompt[r]) => kv'[block_tables[r][j]] = kv[block_tables[r][j]]
      /\ \A h \in DOMAIN entries : kv'[entries[h].block] = kv[entries[h].block]
      /\ kv'[block_tables[row][i]] = value
  <2>1. kv' = [kv EXCEPT ![block_tables[row][i]] = value]
    BY <1>2
  <2>2. /\ \A r \in Rows : \A j \in 1 .. row_written[r] :
             j < Len(row_prompt[r]) => kv'[block_tables[r][j]] = kv[block_tables[r][j]]
        /\ \A h \in DOMAIN entries : kv'[entries[h].block] = kv[entries[h].block]
    BY <1>4, <2>1, WriteKV
  <2>3. kv'[block_tables[row][i]] = value
    BY <1>4, <2>1, PoolFacts DEF SharingInv, CacheInv, PoolView, Typed
  <2> QED
    BY <2>2, <2>3
<1>6. EntriesHold'
  <2> SUFFICES ASSUME NEW h \in DOMAIN entries'
               PROVE  \E p \in Prompts : \E n \in 1 .. Len(p) :
                        IsHashOf(h, p, n) /\ kv'[entries'[h].block] = SubSeq(p, 1, n)
    BY DEF EntriesHold, IsHashOf, IsChain, Before
  <2> QED
    BY <1>3, <1>5 DEF KVInv, EntriesHold
<1>7. KVHeld'
  <2> SUFFICES ASSUME NEW r \in Rows, NEW j \in 1 .. row_written'[r], j < Len(row_prompt[r])
               PROVE  kv'[block_tables[r][j]] = SubSeq(row_prompt[r], 1, j)
    BY <1>2, <1>3 DEF KVHeld, Rows, Pool!Rows
  <2>1. (r = row /\ j = i) \/ j \in 1 .. row_written[r]
    BY <1>1, <1>2, <1>4, RowFacts DEF SharingInv, Typed
  <2> QED
    BY <1>1, <1>5, <2>1 DEF KVInv, KVHeld
<1> QED
  BY <1>6, <1>7 DEF KVInv

\* A recorded block holds the KV its hash stands for.
LEMMA RecordKV ==
  ASSUME SharingInv, SharingInv', KVInv, NEW row \in Live, RecordBlock(row)
  PROVE  KVInv'
<1>1. row \in Rows
  BY DEF Live
<1>2. PICK chain, i, h, block, p :
        /\ chain = row_chain[row] /\ i = Len(chain) + 1 /\ p = row_prompt[row]
        /\ h = BlockHash(Before(chain, i), p[i])
        /\ block = block_tables[row][i]
  OBVIOUS
<1>3. /\ i <= row_written[row] /\ i <= Cacheable(p)
      /\ InsertBlock(h, Before(chain, i), p[i], block)
      /\ Clobber({})
      /\ row_prompt' = row_prompt /\ row_written' = row_written
  BY <1>2 DEF RecordBlock
<1>4. PoolView /\ PoolView' /\ HeldView /\ HeldView'
  BY PoolFacts, PoolFactsNext, HeldFacts, HeldFactsNext DEF SharingInv, CacheInv
<1>5. /\ i \in 1 .. row_written[row] /\ i < Len(p) /\ i \in 1 .. Len(block_tables[row])
      /\ i \in 1 .. Len(p)
  BY <1>1, <1>2, <1>3, RowFacts
<1>6. block \in Blocks /\ ref_counts[block] # 0
  BY <1>1, <1>2, <1>4, <1>5 DEF PoolView
<1>7. IsHashOf(h, p, i)
  BY <1>1, <1>2, ChainGrows DEF SharingInv, ChainsOwn, Typed
<1>8. p \in Prompts
  <2>1. p \in Prompts \cup {<<>>} /\ Len(<<>>) = 0
    BY <1>1, <1>2 DEF SharingInv, Typed
  <2> QED
    BY <1>5, <2>1
<1>9. /\ block_tables' = block_tables
      /\ \A g \in DOMAIN entries' :
           \/ g \in DOMAIN entries /\ entries'[g] = entries[g]
           \/ g = h /\ entries'[g].block = block
  BY <1>3, <1>6, InsertBlockFacts DEF SharingInv
<1>10. \A b \in Blocks : b \notin Range(free_blocks') => kv'[b] = kv[b]
  BY <1>3, <1>4, ClobberFacts DEF SharingInv
<1>11. \A r \in Rows : \A k \in 1 .. row_written[r] :
         kv'[block_tables[r][k]] = kv[block_tables[r][k]]
  BY <1>3, <1>4, <1>9, <1>10 DEF HeldView, Rows, Pool!Rows
<1>12. \A g \in DOMAIN entries' : kv'[entries'[g].block] = kv[entries'[g].block]
  BY <1>4, <1>10 DEF HeldView, Blocks, Pool!Blocks
<1>13. EntriesHold'
  <2> SUFFICES ASSUME NEW g \in DOMAIN entries'
               PROVE  \E q \in Prompts : \E n \in 1 .. Len(q) :
                        IsHashOf(g, q, n) /\ kv'[entries'[g].block] = SubSeq(q, 1, n)
    BY DEF EntriesHold, IsHashOf, IsChain, Before
  <2>1. CASE g \in DOMAIN entries /\ entries'[g] = entries[g]
    BY <1>12, <2>1 DEF KVInv, EntriesHold
  <2>2. CASE g = h /\ entries'[g].block = block
    <3>1. kv[block] = SubSeq(p, 1, i)
      BY <1>1, <1>2, <1>5 DEF KVInv, KVHeld
    <3> QED
      BY <1>5, <1>7, <1>8, <1>12, <2>2, <3>1
  <2> QED
    BY <1>9, <2>1, <2>2
<1>14. KVHeld'
  <2> SUFFICES ASSUME NEW r \in Rows, NEW k \in 1 .. row_written[r], k < Len(row_prompt[r])
               PROVE  kv'[block_tables[r][k]] = SubSeq(row_prompt[r], 1, k)
    BY <1>3, <1>9 DEF KVHeld, Rows, Pool!Rows
  <2> QED
    BY <1>11 DEF KVInv, KVHeld
<1> QED
  BY <1>13, <1>14 DEF KVInv

\* A row that is cut back, or ends, leaves the KV of the others alone, and the
\* KV of the blocks it keeps.
LEMMA ReleaseKV ==
  ASSUME SharingInv, SharingInv', KVInv, NEW row \in Rows, NEW keep,
         Pool!FreeBlocksFrom(row, keep), Clobber({}), entries' = entries,
         \A r \in Rows : \/ row_written'[r] = 0
                        \/ /\ row_prompt'[r] = row_prompt[r]
                           /\ row_written'[r] \in Nat /\ row_written'[r] <= row_written[r]
  PROVE  KVInv'
<1>1. /\ keep \in 0 .. Len(block_tables[row])
      /\ \A r \in Rows \ {row} : block_tables'[r] = block_tables[r]
      /\ Len(block_tables'[row]) = keep
      /\ \A i \in 1 .. keep : block_tables'[row][i] = block_tables[row][i]
  BY ReleaseFacts DEF SharingInv
<1>2. PoolView /\ PoolView' /\ HeldView /\ HeldView'
  BY PoolFacts, PoolFactsNext, HeldFacts, HeldFactsNext DEF SharingInv, CacheInv
<1>3. \A b \in Blocks : b \notin Range(free_blocks') => kv'[b] = kv[b]
  BY <1>2, ClobberFacts DEF SharingInv
<1>4. ASSUME NEW r \in Rows, NEW i \in 1 .. row_written'[r]
      PROVE  /\ i \in 1 .. row_written[r] /\ row_prompt'[r] = row_prompt[r]
             /\ block_tables'[r][i] = block_tables[r][i]
             /\ kv'[block_tables[r][i]] = kv[block_tables[r][i]]
  <2>1. i \in 1 .. row_written[r] /\ row_prompt'[r] = row_prompt[r]
    BY RowFacts
  <2>2. /\ i \in 1 .. Len(block_tables'[r])
        /\ block_tables'[r][i] \in Blocks /\ block_tables'[r][i] \notin Range(free_blocks')
    BY <1>2 DEF HeldView, Rows, Pool!Rows, Blocks, Pool!Blocks
  <2>3. block_tables'[r][i] = block_tables[r][i]
    BY <1>1, <2>2
  <2> QED
    BY <1>3, <2>1, <2>2, <2>3
<1>5. \A h \in DOMAIN entries : kv'[entries[h].block] = kv[entries[h].block]
  BY <1>2, <1>3 DEF HeldView, Blocks, Pool!Blocks
<1> QED
  BY <1>4, <1>5, KVStays

\* A preempted row.
LEMMA CutKV ==
  ASSUME SharingInv, SharingInv', KVInv, NEW row \in Live, NEW keep \in Nat, Cut(row, keep)
  PROVE  KVInv'
<1>1. row \in Rows
  BY DEF Live
<1>2. /\ Pool!FreeBlocksFrom(row, keep) /\ Clobber({}) /\ entries' = entries
      /\ row_written' = [row_written EXCEPT ![row] = Min({row_written[row], keep})]
      /\ row_prompt' = row_prompt
  BY DEF Cut
<1>3. \A r \in Rows : row_written'[r] \in Nat /\ row_written'[r] <= row_written[r]
  <2>1. row_written \in [Rows -> Nat]
    BY DEF SharingInv, Typed
  <2>2. /\ Min({row_written[row], keep}) \in Nat
        /\ Min({row_written[row], keep}) <= row_written[row]
    BY <1>1, <2>1, MinFacts
  <2> QED
    BY <1>2, <2>1, <2>2
<1> QED
  BY <1>1, <1>2, <1>3, ReleaseKV

\* A row that ends.
LEMMA FinishKV ==
  ASSUME SharingInv, SharingInv', KVInv, NEW row \in Live, Finish(row)
  PROVE  KVInv'
<1>1. row \in Rows
  BY DEF Live
<1>2. /\ Pool!FreeBlocksFrom(row, 0) /\ Clobber({}) /\ entries' = entries
      /\ row_written' = [row_written EXCEPT ![row] = 0]
      /\ row_prompt' = [row_prompt EXCEPT ![row] = <<>>]
  BY DEF Finish
<1>3. /\ row_written'[row] = 0
      /\ \A r \in Rows \ {row} : /\ row_written'[r] = row_written[r] /\ row_written[r] \in Nat
                                 /\ row_prompt'[r] = row_prompt[r]
  BY <1>1, <1>2 DEF SharingInv, Typed
<1> QED
  BY <1>1, <1>2, <1>3, ReleaseKV

\* Every step.
LEMMA KVSteps ==
  ASSUME NoCollisions, SharingInv, SharingInv', KVInv, [Next]_vars
  PROVE  KVInv'
<1>1. CASE \E prompt \in Prompts : Claim(prompt)
  BY <1>1, ClaimKV
<1>2. CASE admitting # None /\ Mount(admitting)
  BY <1>2, MountKV
<1>3. CASE \E row \in Live : Grow(row) \/ RecordBlock(row) \/ Finish(row)
  BY <1>3, GrowKV, RecordKV, FinishKV
<1>4. CASE \E row \in Live : Prefill(row) \/ Decode(row)
  BY <1>4, PrefillKV, DecodeKV
<1>5. CASE \E row \in Live : \E keep \in 1 .. MaxBlocksPerSeq : Cut(row, keep)
  <2>1. 1 .. MaxBlocksPerSeq \subseteq Nat
    BY CacheSizes
  <2> QED
    BY <1>5, <2>1, CutKV
<1>6. CASE UNCHANGED vars
  <2>1. /\ kv' = kv /\ row_prompt' = row_prompt /\ row_written' = row_written
        /\ block_tables' = block_tables /\ entries' = entries
    BY <1>6 DEF vars, cache_vars, pool_vars, row_vars
  <2> QED
    BY <2>1, KVStays
<1> QED
  BY <1>1, <1>2, <1>3, <1>4, <1>5, <1>6 DEF Next

\* As long as no two prefixes of the submitted prompts have one hash, every
\* sequence reads, in each block of its prompt, the KV it would have computed
\* itself: whoever wrote it, and whatever was evicted, cut or reused since.
THEOREM SharedKVIntact ==
  ASSUME NoCollisions
  PROVE  Spec => []KVIntact
<1>1. Init => KVInv
  <2>1. ASSUME Init PROVE KVInv
    <3>1. row_written = [r \in Rows |-> 0] /\ DOMAIN entries = {}
      BY <2>1 DEF Init, CacheInit
    <3> QED
      BY <3>1 DEF KVInv, KVHeld, EntriesHold
  <2> QED
    BY <2>1
<1>2. SharingInv /\ SharingInv' /\ KVInv /\ [Next]_vars => KVInv'
  BY KVSteps
<1>3. SharingInv /\ KVInv => KVIntact
  BY HeldIsIntact DEF KVInv
<1> QED
  BY <1>1, <1>2, <1>3, SharingInvariant, PTL DEF Spec

\* As long as no two prefixes of the submitted prompts have one hash, whatever
\* lookup proposes to a claimed row can be mounted: the admission's retry loop
\* never runs twice.
THEOREM MatchesMount ==
  ASSUME NoCollisions
  PROVE  Spec => []MatchMountable
<1>1. SharingInv => MatchMountable
  BY MatchFits
<1> QED
  BY <1>1, SharingInvariant, PTL

=============================================================================
