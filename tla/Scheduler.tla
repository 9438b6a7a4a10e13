------------------------------- MODULE Scheduler -------------------------------
(***************************************************************************)
(* The continuous-batching scheduler (scheduler/scheduler.{h,cpp}) over    *)
(* the block pool and the prefix cache, in its paged layout.               *)
(*                                                                         *)
(* One thread alternates between the driver, which submits requests, and   *)
(* step(), whose passes are the phases of this module; a pass over a list  *)
(* handles one sequence, or one block of it, per action, and the list of   *)
(* what it has left is `todo'.  Between two steps the phase is "idle".     *)
(*                                                                         *)
(* Sampling is greedy, so whether the k-th generated token of a prompt     *)
(* ends the sentence is a function of the prompt: eos gives that k.        *)
(* Tokens are abstract; kv is a ghost that gives, for each slot of each    *)
(* block, the context whose KV the last forward pass left there.           *)
(***************************************************************************)
EXTENDS PrefixCache

CONSTANTS
  BlockSize,       \* tokens per block
  MaxBatch,        \* max_batch_size
  MaxSeqLen,       \* max_seq_len
  MaxGenLen,       \* max_gen_len
  PrefillReserve,  \* kPrefillRowReserve
  HistoryLimit,    \* finished_history_limit, 0 for none
  CacheOn,         \* enable_prefix_cache
  ForwardMayFail,  \* the forward pass may return an error
  Requests,        \* what the driver submits: a prompt's tokens, and its eos
  MaxRequests      \* bound: how many requests the driver submits

ASSUME SchedulerSizes ==
  /\ BlockSize \in Nat \ {0} /\ MaxBatch \in Nat \ {0} /\ MaxSeqLen \in Nat \ {0}
  /\ MaxGenLen \in Nat \ {0} /\ PrefillReserve \in Nat \ {0}
  /\ HistoryLimit \in Nat /\ MaxRequests \in Nat
  /\ CacheOn \in BOOLEAN /\ ForwardMayFail \in BOOLEAN
  \* KVManager: one table row per sequence, wide enough for max_seq_len tokens.
  /\ NumRows = MaxBatch
  /\ MaxBlocksPerSeq = (MaxSeqLen + BlockSize - 1) \div BlockSize

ASSUME RequestsGiven ==
  \A request \in Requests :
    /\ request.prompt \in Seq(Range(request.prompt))
    /\ request.eos \in Nat \ {0}

VARIABLES
  next_seq_id,     \* next_seq_id_
  seqs,            \* the accepted sequences, by id
  waiting,         \* waiting_queue_, ids
  running,         \* running_sequences_, ids
  finished,        \* finished_sequences_, ids: the retained history
  finished_total, finished_evicted,
  retired,         \* ghost: every id retired so far, in the order they were
  phase,           \* the pass of step() under way, or "idle"
  todo,            \* ids the pass has still to handle
  batch,           \* the rows of this step, one run of rows per entry
  victims,         \* planned cuts not made yet: <<id, blocks to keep>>
  kv               \* ghost: the KV of each slot of each block

queue_vars == <<waiting, running>>
history_vars == <<finished, finished_total, finished_evicted, retired>>
step_vars == <<phase, todo, batch, victims>>
vars == <<cache_vars, next_seq_id, seqs, queue_vars, history_vars, step_vars, kv>>

\* kPreemptDeferThreshold; preempt_count is not counted past it.
PreemptDeferThreshold == 2

-----------------------------------------------------------------------------
(* Tokens, blocks and contexts.                                            *)

CeilDiv(n, d) == (n + d - 1) \div d

\* A prompt as the cache sees it: its tokens block by block.
Paged(prompt) ==
  [i \in 1 .. CeilDiv(Len(prompt), BlockSize) |->
     SubSeq(prompt, (i - 1) * BlockSize + 1, Min({i * BlockSize, Len(prompt)}))]

\* What the KV at a position depends on: the tokens up to it.  Generated tokens
\* are the prompt's own continuation.
Context(prompt, position) ==
  IF position < Len(prompt)
    THEN SubSeq(prompt, 1, position + 1)
    ELSE prompt \o [i \in 1 .. position + 1 - Len(prompt) |-> "gen"]

NoKV == <<>>
Slots == 0 .. BlockSize - 1
Blank == [slot \in Slots |-> NoKV]

\* Blocks on the free list, and those a step hands to a row, hold no KV that
\* anyone may rely on.
Clobber(taken) ==
  kv' = [b \in Blocks |-> IF b \in Range(free_blocks') \cup taken THEN Blank ELSE kv[b]]

\* The table entry of a position.
BlockIndex(position) == position \div BlockSize + 1

NumPrompt(s) == Len(s.prompt)

\* The members of keep in a list, in its order.
Filtered(list, keep) ==
  LET Upto[n \in 0 .. Len(list)] ==
        IF n = 0 THEN <<>>
        ELSE IF list[n] \in keep THEN Append(Upto[n - 1], list[n]) ELSE Upto[n - 1]
  IN  Upto[Len(list)]

-----------------------------------------------------------------------------
(* Requests and queues.                                                    *)

Table(id) == block_tables[seqs[id].row]

\* Mutant: an off-by-one that no prompt gets past.
CompleteLate(s) == s.prefilled > NumPrompt(s)

Complete(s) == s.prefilled >= NumPrompt(s)

\* The generation budget add_request gives a prompt.
GenBudget(prompt) == Max({1, Min({MaxGenLen, MaxSeqLen - Len(prompt)})})

NewSequence(prompt, eos) ==
  [prompt |-> prompt, eos |-> eos, max_gen |-> GenBudget(prompt),
   state |-> "WAITING", row |-> -1, blocks |-> 0, prefilled |-> 0,
   generated |-> 0, preempts |-> 0, chain |-> <<>>]

Init ==
  /\ CacheInit
  /\ next_seq_id = 0
  /\ seqs = [id \in {} |-> {}]
  /\ waiting = <<>> /\ running = <<>>
  /\ finished = <<>> /\ finished_total = 0 /\ finished_evicted = 0 /\ retired = <<>>
  /\ phase = "idle" /\ todo = <<>> /\ batch = <<>> /\ victims = <<>>
  /\ kv = [b \in Blocks |-> Blank]

\* add_request, between two steps: an id is used up even by a request that is
\* rejected, for an empty prompt or one that leaves no room to generate.
AddRequest(prompt, eos) ==
  /\ phase = "idle"
  /\ next_seq_id < MaxRequests
  /\ next_seq_id' = next_seq_id + 1
  /\ \/ /\ Len(prompt) = 0 \/ Len(prompt) >= MaxSeqLen
        /\ UNCHANGED <<seqs, waiting>>
     \/ /\ Len(prompt) \in 1 .. MaxSeqLen - 1
        /\ seqs' = [id \in DOMAIN seqs \cup {next_seq_id} |->
                      IF id = next_seq_id THEN NewSequence(prompt, eos) ELSE seqs[id]]
        /\ waiting' = Append(waiting, next_seq_id)
  /\ UNCHANGED <<cache_vars, running, history_vars, step_vars, kv>>

AllFinished == waiting = <<>> /\ running = <<>>

\* The driver calls step() while not everything is finished.
BeginStep ==
  /\ phase = "idle"
  /\ ~AllFinished
  /\ phase' = "admit"
  /\ UNCHANGED <<cache_vars, next_seq_id, seqs, queue_vars, history_vars,
                 todo, batch, victims, kv>>

-----------------------------------------------------------------------------
(* Admission: try_admit_sequences.                                         *)

MayAdmit == waiting # <<>> /\ Len(running) < MaxBatch

\* A preempted sequence at the head kept its row and its first blocks.
Resume ==
  /\ phase = "admit" /\ MayAdmit
  /\ seqs[Head(waiting)].state = "PREEMPTED"
  /\ seqs' = [seqs EXCEPT ![Head(waiting)].state = "RUNNING"]
  /\ waiting' = Tail(waiting)
  /\ running' = Append(running, Head(waiting))
  /\ UNCHANGED <<cache_vars, next_seq_id, history_vars, step_vars, kv>>

\* A fresh request claims a row ...
ClaimRow ==
  /\ phase = "admit" /\ MayAdmit
  /\ seqs[Head(waiting)].state = "WAITING"
  /\ Pool!AllocateBlocks(0, <<>>)
  /\ \E row \in Rows : /\ Pool!IsFirstFreeRow(row)
                       /\ seqs' = [seqs EXCEPT ![Head(waiting)].row = row]
  /\ phase' = "mount"
  /\ UNCHANGED <<entries, lru, next_seq_id, queue_vars, history_vars,
                 todo, batch, victims, kv>>

\* ... and mounts the longest cached prefix before anything can be reclaimed;
\* the shared region is not prefilled again.
MountPrefix ==
  LET id == Head(waiting)
      prompt == seqs[id].prompt
  IN  /\ phase = "mount"
      /\ \E chain \in {IF CacheOn THEN Lookup(Paged(prompt)) ELSE <<>>} :
           /\ MountMatch(seqs[id].row, chain)
           /\ seqs' = [seqs EXCEPT ![id].state = "RUNNING",
                                   ![id].blocks = Len(chain),
                                   ![id].prefilled = Min({Len(chain) * BlockSize, Len(prompt)})]
      /\ waiting' = Tail(waiting)
      /\ running' = Append(running, id)
      /\ phase' = "admit"
      /\ UNCHANGED <<next_seq_id, history_vars, todo, batch, victims, kv>>

\* The head of the queue needs no row, or there is one.
HeadHasRow ==
  \/ seqs[Head(waiting)].state = "PREEMPTED"
  \/ \E row \in Rows : ~row_busy[row]

\* Admission stops at an empty queue, a full running set or without a free row.
EndAdmission ==
  /\ phase = "admit"
  /\ ~(MayAdmit /\ HeadHasRow)
  /\ phase' = "decode"
  /\ todo' = running
  /\ batch' = <<>>
  /\ UNCHANGED <<cache_vars, next_seq_id, seqs, queue_vars, history_vars, victims, kv>>

-----------------------------------------------------------------------------
(* Preemption: try_preempt_for and truncate_sequence.                      *)

InBatch(id) == \E i \in DOMAIN batch : batch[i].id = id

\* Mutant: shared and pinned blocks count as gained.
GainOfEntries(s, keep) == Len(block_tables[s.row]) - keep

\* Blocks the pool gets back when row's entries past keep are dropped.
Gain(s, keep) ==
  Cardinality({i \in keep + 1 .. Len(block_tables[s.row]) :
                 LET b == block_tables[s.row][i] IN ref_counts[b] = 1 /\ ~cached[b]})

\* The first round spares the prefill of a decoding victim; the second leaves
\* it the one block that keeps its row.
Floor(s, round) ==
  IF round = 0 /\ Complete(s)
    THEN Min({CeilDiv(NumPrompt(s), BlockSize), s.blocks})
    ELSE 1

\* Mutant: sequences with rows in the batch may be cut.
MayYieldAlways(id, for) == id # for /\ seqs[id].state = "RUNNING"

MayYield(id, for) ==
  /\ id # for
  /\ seqs[id].state = "RUNNING"
  /\ ~InBatch(id)

\* Sequences that were set back too often to be tried with the others.
Deferred == {id \in DOMAIN seqs : seqs[id].preempts >= PreemptDeferThreshold}

\* Victims are tried newest first, repeat victims last, cheap cuts first.
Candidates(for) ==
  LET newest == Filtered(Reverse(running), {id \in DOMAIN seqs : MayYield(id, for)})
      fresh == Filtered(newest, DOMAIN seqs \ Deferred)
      repeat == Filtered(newest, Deferred)
      rounds(r) == [i \in 1 .. Len(fresh \o repeat) |-> <<r, (fresh \o repeat)[i]>>]
  IN  rounds(0) \o rounds(1)

Plans == [needed : Int, cuts : Seq(Nat \X Nat)]

\* One candidate: cut just what is still needed, or down to its floor when the
\* tail it would lose is all shared or pinned.
Consider(candidate) ==
  LET id == candidate[2]
      s == seqs[id]
      floor == Floor(s, candidate[1])
      take(plan) == Min({s.blocks - floor, Gain(s, floor), plan.needed})
      keep(plan) == IF Gain(s, s.blocks - take(plan)) > 0 THEN s.blocks - take(plan) ELSE floor
  IN  [plan \in Plans |->
         IF take(plan) <= 0 \/ \E cut \in Range(plan.cuts) : cut[1] = id
           THEN plan
           ELSE [needed |-> plan.needed - Gain(s, keep(plan)),
                 cuts |-> Append(plan.cuts, <<id, keep(plan)>>)]]

\* The plan after a list of candidates.
Considered(start) ==
  [candidates \in Seq((0 .. 1) \X Nat) |->
     LET After[n \in 0 .. Len(candidates)] ==
           IF n = 0 THEN start ELSE Consider(candidates[n])[After[n - 1]]
     IN  After[Len(candidates)]]

PreemptionPlan(for, need) ==
  Considered([needed |-> need - Len(free_blocks), cuts |-> <<>>])[Candidates(for)]

\* truncate_sequence: the block count and the recording cursor come back with
\* the blocks.
RolledBack(s, keep) ==
  [s EXCEPT !.state = "PREEMPTED",
            !.blocks = keep,
            !.preempts = Min({@ + 1, PreemptDeferThreshold}),
            !.chain = SubSeq(@, 1, Min({Len(@), keep}))]

\* Mutant: a cut that spares the prompt keeps all generated tokens.
KeptTokensAll(s, cut) == s.generated

\* The generated tokens that survive a cut behind the prompt.
KeptTokens(s, cut) == Min({s.generated, cut - NumPrompt(s)})

\* A cut into the prompt discards everything generated, and prefills again.
Truncated(s, keep) ==
  LET cut == keep * BlockSize
  IN  IF cut < NumPrompt(s)
        THEN [RolledBack(s, keep) EXCEPT !.prefilled = cut, !.generated = 0]
        ELSE [RolledBack(s, keep) EXCEPT !.generated = KeptTokens(s, cut)]

-----------------------------------------------------------------------------
(* Building the batch: build_batch_rows and ensure_blocks_for.             *)

\* Positions a row of the batch writes.
Positions(chunk) == chunk.start .. chunk.start + chunk.len - 1

\* Rows of a batch: its decode rows, its prefill rows, or both.
RowsOf(chunks, decode) ==
  LET Upto[n \in 0 .. Len(chunks)] ==
        IF n = 0 THEN 0
        ELSE Upto[n - 1] + (IF chunks[n].decode \in decode THEN chunks[n].len ELSE 0)
  IN  Upto[Len(chunks)]
BatchRows == RowsOf(batch, BOOLEAN)
PrefillTaken == RowsOf(batch, {FALSE})

\* row_cap_for(max_batch_size)
RowCap == MaxBatch + PrefillReserve

\* The position the next decode row of a sequence writes.
DecodePosition(s) == NumPrompt(s) + s.generated - 1

Remaining(s) == NumPrompt(s) - s.prefilled

\* The prompt tokens the budget and the row cap leave to a sequence.
ChunkLen(s) ==
  Min({Remaining(s), PrefillReserve - PrefillTaken, RowCap - BatchRows})

\* Sequences the pass still has to serve; a preemption may have taken one off.
Serving ==
  Filtered(todo, {id \in DOMAIN seqs : /\ seqs[id].state = "RUNNING"
                                       /\ Complete(seqs[id]) <=> phase = "decode"})

BatchHasRoom ==
  IF phase = "decode"
    THEN BatchRows < MaxBatch
    ELSE PrefillTaken < PrefillReserve /\ BatchRows < RowCap

\* The pass is at a sequence, and no cut it planned is left to make.
Building ==
  /\ phase \in {"decode", "prefill"}
  /\ victims = <<>>
  /\ Serving # <<>>
  /\ BatchHasRoom

\* The blocks ensure_blocks_for still has to append for a sequence.
ShortBlocks(s) ==
  LET last == IF phase = "decode" THEN DecodePosition(s) ELSE s.prefilled + ChunkLen(s) - 1
  IN  BlockIndex(last) - s.blocks

\* One turn of ensure_blocks_for: a block is appended ...
Grow ==
  LET id == Head(Serving)
  IN  /\ Building
      /\ ShortBlocks(seqs[id]) > 0
      /\ CanAppend(seqs[id].row)
      /\ AppendBlock(seqs[id].row)
      /\ Clobber(Range(block_tables'[seqs[id].row]) \ Range(Table(id)))
      /\ seqs' = [seqs EXCEPT ![id].blocks = @ + 1]
      /\ UNCHANGED <<next_seq_id, queue_vars, history_vars, step_vars>>

\* ... or, the pool being exhausted, others must yield theirs.
Exhausted(id) == ShortBlocks(seqs[id]) > 0 /\ ~CanAppend(seqs[id].row)

Plan(id) == PreemptionPlan(id, ShortBlocks(seqs[id]))

PlanPreemption ==
  LET id == Head(Serving)
  IN  /\ Building
      /\ Exhausted(id)
      /\ Plan(id).needed <= 0
      /\ victims' = Plan(id).cuts
      /\ UNCHANGED <<cache_vars, next_seq_id, seqs, queue_vars, history_vars,
                     phase, todo, batch, kv>>

Preempt ==
  /\ victims # <<>>
  /\ LET id == Head(victims)[1]
         keep == Head(victims)[2]
     IN  /\ Pool!FreeBlocksFrom(seqs[id].row, keep)
         /\ seqs' = [seqs EXCEPT ![id] = Truncated(@, keep)]
  /\ Clobber({})
  /\ victims' = Tail(victims)
  /\ UNCHANGED <<entries, lru, next_seq_id, queue_vars, history_vars, phase, todo, batch>>

\* The sequence gets its rows of the batch; prefill progress is booked now,
\* before the forward pass has run.
Place(id, start, len) ==
  /\ batch' = Append(batch, [id |-> id, decode |-> phase = "decode", start |-> start, len |-> len])
  /\ todo' = Tail(Serving)
  /\ seqs' = IF phase = "decode" THEN seqs ELSE [seqs EXCEPT ![id].prefilled = @ + len]
  /\ UNCHANGED <<cache_vars, next_seq_id, queue_vars, history_vars, phase, victims, kv>>

PlaceDecode ==
  LET id == Head(Serving)
  IN  /\ Building /\ phase = "decode"
      /\ ShortBlocks(seqs[id]) <= 0
      /\ Place(id, DecodePosition(seqs[id]), 1)

PlaceChunk ==
  LET id == Head(Serving)
  IN  /\ Building /\ phase = "prefill"
      /\ ShortBlocks(seqs[id]) <= 0
      /\ Place(id, seqs[id].prefilled, ChunkLen(seqs[id]))

\* What the blocks a sequence already has cover beyond its prefilled tokens.
Covered(s) == s.blocks * BlockSize - s.prefilled

\* Nobody can yield enough: a chunk shrinks to the blocks that are there ...
PlaceShrunkChunk ==
  LET id == Head(Serving)
  IN  /\ Building /\ phase = "prefill"
      /\ Exhausted(id) /\ Plan(id).needed > 0
      /\ Covered(seqs[id]) > 0
      /\ Place(id, seqs[id].prefilled, Covered(seqs[id]))

\* ... and a sequence that cannot go on at all is force-finished; the update
\* pass of this step retires it.
ForceFinish ==
  LET id == Head(Serving)
  IN  /\ Building
      /\ Exhausted(id) /\ Plan(id).needed > 0
      /\ phase = "prefill" => Covered(seqs[id]) <= 0
      /\ seqs' = [seqs EXCEPT ![id].state = "FINISHED"]
      /\ todo' = Tail(Serving)
      /\ UNCHANGED <<cache_vars, next_seq_id, queue_vars, history_vars,
                     phase, batch, victims, kv>>

\* The pass is over.
PassEnds(pass) == phase = pass /\ victims = <<>> /\ ~(Serving # <<>> /\ BatchHasRoom)

\* Pending prefills: those one chunk can finish first, each group in order.
PrefillOrder ==
  LET pending == {id \in DOMAIN seqs : seqs[id].state = "RUNNING" /\ ~Complete(seqs[id])}
      short == Filtered(running, {id \in pending : Remaining(seqs[id]) <= PrefillReserve})
      long == Filtered(running, {id \in pending : Remaining(seqs[id]) > PrefillReserve})
  IN  short \o long

EndDecodeRows ==
  /\ PassEnds("decode")
  /\ phase' = "prefill"
  /\ todo' = PrefillOrder
  /\ UNCHANGED <<cache_vars, next_seq_id, seqs, queue_vars, history_vars, batch, victims, kv>>

EndPrefillRows ==
  /\ PassEnds("prefill")
  /\ phase' = IF batch = <<>> THEN "update" ELSE "execute"
  /\ todo' = <<>>
  /\ UNCHANGED <<cache_vars, next_seq_id, seqs, queue_vars, history_vars, batch, victims, kv>>

-----------------------------------------------------------------------------
(* Execution: execute_batch, and what a failed forward pass does.          *)

\* The slots the batch writes, and the context of the KV each one gets.
Writes ==
  UNION {{[block |-> Table(chunk.id)[BlockIndex(p)],
           slot |-> p % BlockSize,
           context |-> Context(seqs[chunk.id].prompt, p)] : p \in Positions(chunk)} :
         chunk \in Range(batch)}

\* The forward pass writes the KV of every row, and each decode row samples a
\* token.
Forward ==
  /\ phase = "execute"
  /\ LET writes == Writes
         to(b, slot) == {w \in writes : w.block = b /\ w.slot = slot}
     IN  kv' = [b \in Blocks |-> [slot \in Slots |->
                  IF to(b, slot) = {} THEN kv[b][slot]
                                      ELSE (CHOOSE w \in to(b, slot) : TRUE).context]]
  /\ seqs' = [id \in DOMAIN seqs |->
                IF \E chunk \in Range(batch) : chunk.id = id /\ chunk.decode
                  THEN [seqs[id] EXCEPT !.generated = @ + 1]
                  ELSE seqs[id]]
  /\ batch' = <<>>
  /\ phase' = "record"
  /\ UNCHANGED <<cache_vars, next_seq_id, queue_vars, history_vars, todo, victims>>

ForwardFails ==
  /\ phase = "execute"
  /\ ForwardMayFail
  /\ batch' = <<>>
  /\ phase' = "abort"
  /\ UNCHANGED <<cache_vars, next_seq_id, seqs, queue_vars, history_vars, todo, victims, kv>>

\* retire_finished: how many records an overflowing history drops, so as not to
\* shift the rest at every retirement.
Dropped(history) ==
  IF HistoryLimit = 0 \/ Len(history) <= HistoryLimit
    THEN 0
    ELSE Len(history) - (HistoryLimit - HistoryLimit \div 4)

\* Mutant: an overflow counts as one record, however many it drops.
EvictedOnce(history) == finished_evicted + Min({Dropped(history), 1})

\* Records dropped so far.
Evicted(history) == finished_evicted + Dropped(history)

\* A sequence leaves: its row and blocks go back, its record is kept.
Retire(id) ==
  LET history == Append(finished, id)
  IN  /\ Pool!FreeBlocksFrom(seqs[id].row, 0)
      /\ Clobber({})
      /\ seqs' = [seqs EXCEPT ![id].state = "FINISHED"]
      /\ running' = Filtered(running, DOMAIN seqs \ {id})
      /\ finished' = SubSeq(history, Dropped(history) + 1, Len(history))
      /\ finished_total' = finished_total + 1
      /\ finished_evicted' = Evicted(history)
      /\ retired' = Append(retired, id)
      /\ UNCHANGED <<entries, lru, next_seq_id, waiting, step_vars>>

\* Mutant: only sequences that had decode rows are force-finished.
UnfinishedDecoding ==
  Filtered(running, {id \in DOMAIN seqs : seqs[id].state # "FINISHED" /\ Complete(seqs[id])})

\* force_finish_all, one sequence; those a build pass already finished are
\* passed over, and dropped with the list.
Unfinished == Filtered(running, {id \in DOMAIN seqs : seqs[id].state # "FINISHED"})

AbortOne == phase = "abort" /\ Unfinished # <<>> /\ Retire(Head(Unfinished))

EndAbort ==
  /\ phase = "abort" /\ Unfinished = <<>>
  /\ running' = <<>>
  /\ phase' = "record"
  /\ UNCHANGED <<cache_vars, next_seq_id, seqs, waiting, history_vars,
                 todo, batch, victims, kv>>

-----------------------------------------------------------------------------
(* After the batch: record_committed_prefill, update_sequences and         *)
(* flush_preempted.                                                        *)

\* Mutant: blocks are recorded as soon as they are allocated.
UnrecordedBlocks ==
  Filtered(running, {id \in DOMAIN seqs :
    LET s == seqs[id]
    IN  /\ CacheOn /\ s.state = "RUNNING"
        /\ Len(s.chain) < Min({s.blocks, Cacheable(Paged(s.prompt))})})

\* Sequences with a prompt block that is committed and not recorded yet.
Unrecorded ==
  Filtered(running, {id \in DOMAIN seqs :
    LET s == seqs[id]
    IN  /\ CacheOn /\ s.state = "RUNNING"
        /\ Len(s.chain) < Min({s.prefilled \div BlockSize, Cacheable(Paged(s.prompt))})})

RecordBlock ==
  LET id == Head(Unrecorded)
      chain == seqs[id].chain
      i == Len(chain) + 1
      tokens == Paged(seqs[id].prompt)[i]
      h == BlockHash(Before(chain, i), tokens)
  IN  /\ phase = "record" /\ Unrecorded # <<>>
      /\ InsertBlock(h, Before(chain, i), tokens, Table(id)[i])
      /\ Clobber({})
      /\ seqs' = [seqs EXCEPT ![id].chain = Append(@, h)]
      /\ UNCHANGED <<next_seq_id, queue_vars, history_vars, step_vars>>

EndRecord ==
  /\ phase = "record" /\ Unrecorded = <<>>
  /\ phase' = "update"
  /\ UNCHANGED <<cache_vars, next_seq_id, seqs, queue_vars, history_vars,
                 todo, batch, victims, kv>>

\* Mutant: the budget is compared before the last token is counted.
DoneLate(s) == s.state = "FINISHED" \/ s.generated > s.max_gen

\* Force-finished, out of budget, or at the end of its sentence.
Done(s) ==
  \/ s.state = "FINISHED"
  \/ s.generated >= s.max_gen
  \/ Complete(s) /\ s.generated > 0 /\ s.generated = s.eos

DoneSequences == Filtered(running, {id \in DOMAIN seqs : Done(seqs[id])})

RetireDone == phase = "update" /\ DoneSequences # <<>> /\ Retire(Head(DoneSequences))

EndUpdate ==
  /\ phase = "update" /\ DoneSequences = <<>>
  /\ phase' = "flush"
  /\ UNCHANGED <<cache_vars, next_seq_id, seqs, queue_vars, history_vars,
                 todo, batch, victims, kv>>

\* Mutant: victims queue up behind fresh arrivals.
RequeuedLast(preempted) == waiting \o preempted

\* Victims go to the head of the queue, oldest first.
Requeued(preempted) == preempted \o waiting

FlushPreempted ==
  /\ phase = "flush"
  /\ LET preempted == {id \in DOMAIN seqs : seqs[id].state = "PREEMPTED"}
     IN  /\ waiting' = Requeued(Filtered(running, preempted))
         /\ running' = Filtered(running, DOMAIN seqs \ preempted)
  /\ phase' = "idle"
  /\ UNCHANGED <<cache_vars, next_seq_id, seqs, history_vars, todo, batch, victims, kv>>

-----------------------------------------------------------------------------
Admission == Resume \/ ClaimRow \/ MountPrefix \/ EndAdmission

BuildBatch ==
  \/ Grow \/ PlanPreemption \/ Preempt
  \/ PlaceDecode \/ PlaceChunk \/ PlaceShrunkChunk \/ ForceFinish
  \/ EndDecodeRows \/ EndPrefillRows

Execution == Forward \/ ForwardFails \/ AbortOne \/ EndAbort

AfterBatch == RecordBlock \/ EndRecord \/ RetireDone \/ EndUpdate \/ FlushPreempted

\* Everything step() does.
Step == BeginStep \/ Admission \/ BuildBatch \/ Execution \/ AfterBatch

Next ==
  \/ \E request \in Requests : AddRequest(request.prompt, request.eos)
  \/ Step

\* A driver calls step() as long as not everything is finished.
Spec == Init /\ [][Next]_vars /\ WF_vars(Step)

-----------------------------------------------------------------------------
(* Properties.                                                             *)

\* Sequences in a list of the scheduler; the others are finished.
Live == Range(waiting) \cup Range(running)

TypeOK ==
  /\ Pool!TypeOK
  /\ \A id \in DOMAIN seqs :
       LET s == seqs[id]
       IN  /\ s.state \in {"WAITING", "RUNNING", "PREEMPTED", "FINISHED"}
           /\ s.row \in Rows \cup {-1}
           /\ s.prefilled \in 0 .. NumPrompt(s)
           /\ s.generated \in 0 .. s.max_gen
           /\ NumPrompt(s) + s.max_gen <= MaxSeqLen
           /\ Len(s.chain) * BlockSize <= s.prefilled
  /\ Live \cup Range(finished) \subseteq DOMAIN seqs

\* Every accepted request is in one place of one list, or finished; and each
\* busy row belongs to one live sequence, which counts its blocks rightly.  A
\* row or a request that falls between the lists is lost for good.
Accounted ==
  /\ Pool!IsInjective(waiting \o running)
  /\ \A id \in DOMAIN seqs : id \in Live \/ seqs[id].state = "FINISHED"
  /\ \A id, other \in Live :
       seqs[id].row # -1 /\ seqs[id].row = seqs[other].row => id = other
  /\ {row \in Rows : row_busy[row]} = {seqs[id].row : id \in Live} \ {-1}
  /\ \A id \in Live : seqs[id].row # -1 => seqs[id].blocks = Len(Table(id))

\* Positions whose KV a sequence takes for written.
Written(s) ==
  IF Complete(s) THEN NumPrompt(s) + Max({s.generated - 1, 0}) ELSE s.prefilled

\* Between two forward passes, the KV a sequence takes for written is there,
\* slot by slot, and is that of its own tokens: over chunked prefills, shared
\* blocks, cuts, re-prefills and re-decodes.
KVIntact ==
  phase \notin {"prefill", "execute", "abort"} =>
    \A id \in Live : seqs[id].row # -1 =>
      \A p \in 0 .. Written(seqs[id]) - 1 :
        /\ BlockIndex(p) <= Len(Table(id))
        /\ kv[Table(id)[BlockIndex(p)]][p % BlockSize] = Context(seqs[id].prompt, p)

\* A batch can be handed to the device: rows stay within the staging buffers,
\* decode rows come first (the sampler reads that prefix), and every row goes
\* to a slot of a block that only its own running sequence reads.
BatchSound ==
  /\ BatchRows <= RowCap
  /\ \A i, j \in DOMAIN batch : i < j /\ batch[j].decode => batch[i].decode
  /\ \A i \in DOMAIN batch :
       LET id == batch[i].id
       IN  /\ seqs[id].state = "RUNNING"
           /\ \A j \in DOMAIN batch : batch[j].id = id => i = j
           /\ \A p \in Positions(batch[i]) :
                /\ BlockIndex(p) <= Len(Table(id))
                /\ LET b == Table(id)[BlockIndex(p)] IN ref_counts[b] = 1 /\ ~cached[b]

\* A request that may be admitted finds a row: sequences that hold a row while
\* they wait are all ahead of it.
AdmissionNeverBlocked == phase = "admit" /\ MayAdmit => HeadHasRow

\* "Returns true only once the free list really holds need_blocks blocks": a
\* round of preemptions never churns its victims for nothing.
PreemptionSuffices ==
  [][victims # <<>> /\ victims' = <<>> =>
       Len(free_blocks') >= ShortBlocks(seqs[Head(Serving)])']_vars

\* With a full table's worth of blocks per row, which is how KVManager sizes
\* the pool, nobody is ever preempted or force-finished for want of a block,
\* however many blocks the cache has pinned.
SizedPoolSuffices ==
  NumBlocks >= NumRows * MaxBlocksPerSeq =>
    /\ victims = <<>>
    /\ \A id \in DOMAIN seqs : seqs[id].preempts = 0
    /\ phase \in {"decode", "prefill"} =>
         \A id \in Range(running) : seqs[id].state = "RUNNING"

\* Every request that has left the queues was retired, once.  The history is the
\* end of the sequence of all retirements, in order, and the count of evicted
\* records says where it begins: what a driver reads there is the latest
\* requests, none missing in between, however many records an overflow drops at
\* once.  It is within the limit, and never shorter than three quarters of it
\* once something has been dropped.
HistoryExact ==
  /\ Range(retired) = DOMAIN seqs \ Live
  /\ finished_total = Cardinality(DOMAIN seqs \ Live)
  /\ finished_total = Len(retired)
  /\ finished = SubSeq(retired, finished_evicted + 1, finished_total)
  /\ HistoryLimit > 0 => Len(finished) <= HistoryLimit
  /\ HistoryLimit > 0 /\ finished_evicted > 0 => 4 * Len(finished) >= 3 * HistoryLimit

\* The scheduler keeps its promise about requests.
Target(s) == Min({s.max_gen, s.eos})
Standing(s) ==
  CASE s.state = "WAITING" -> "queued"
    [] s.state = "RUNNING" -> "running"
    [] s.state = "PREEMPTED" -> "yielded"
    [] s.state = "FINISHED" -> IF s.generated = Target(s) THEN "done" ELSE "aborted"

Promise == INSTANCE RequestLifecycle WITH
  Ids <- 0 .. MaxRequests - 1,
  Answers <- 1 .. MaxGenLen,
  MayAbort <- ForwardMayFail \/ NumBlocks < NumRows * MaxBlocksPerSeq,
  status <- [id \in DOMAIN seqs |-> Standing(seqs[id])],
  tokens <- [id \in DOMAIN seqs |-> seqs[id].generated],
  target <- [id \in DOMAIN seqs |-> Target(seqs[id])]

\* Requests are admitted first come first served, resumed before any new one
\* starts, and complete with exactly their tokens.
Lifecycle == Promise!Spec

\* Every accepted request is finished some day, if step() keeps being called:
\* the driver submits no more than MaxRequests, so that all of them are in the
\* end, and again after each later one.
EveryRequestEnds == []<>AllFinished

=============================================================================
