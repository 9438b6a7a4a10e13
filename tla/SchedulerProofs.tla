--------------------------- MODULE SchedulerProofs ---------------------------
(***************************************************************************)
(* The scheduler, for every pool, budget and set of requests: nothing is   *)
(* lost, batches write only what is theirs, nobody is preempted in a pool  *)
(* as KVManager sizes it, its requests live the life RequestLifecycle      *)
(* promises, and a sequence reads only what was written for its tokens.    *)
(***************************************************************************)
EXTENDS SchedulerBooksProofs

-------------------------------------------------------------------------------
(* The invariant holds.                                                      *)

Inv == Base /\ SP!SharingInv

\* The steps of an admission.
LEMMA AdmissionStep ==
  ASSUME Inv, BeginStep \/ Admission
  PROVE  Inv' /\ PoolMove
<1>1. SP!SharingInv /\ Base /\ CacheInv
  BY RowsCoherent DEF Inv
<1>2. CASE BeginStep \/ EndAdmission
  BY <1>1, <1>2, BeginStepKeeps, EndAdmissionKeeps, PhaseRows DEF Inv
<1>3. CASE Resume
  BY <1>1, <1>3, ResumeKeeps, ResumeRows DEF Inv
<1>4. CASE ClaimRow
  BY <1>1, <1>4, ClaimRowKeeps, ClaimRows DEF Inv
<1>5. CASE MountPrefix
  <2>1. Base'
    BY <1>1, <1>5, MountPrefixKeeps
  <2> QED
    BY <1>1, <1>5, <2>1, MountRows DEF Inv
<1> QED
  BY <1>2, <1>3, <1>4, <1>5 DEF Admission

\* The steps that build a batch.
LEMMA BuildStep ==
  ASSUME Inv, BuildBatch
  PROVE  Inv' /\ PoolMove
<1>1. SP!SharingInv /\ Base /\ CacheInv
  BY RowsCoherent DEF Inv
<1>2. CASE Grow
  BY <1>1, <1>2, GrowKeeps, GrowRows DEF Inv
<1>3. CASE PlanPreemption
  BY <1>1, <1>3, PlanPreemptionKeeps, PhaseRows DEF Inv
<1>4. CASE Preempt
  BY <1>1, <1>4, PreemptKeeps, PreemptRows DEF Inv
<1>5. CASE PlaceDecode \/ PlaceChunk \/ PlaceShrunkChunk
  BY <1>1, <1>5, PlaceDecodeKeeps, PlaceChunkKeeps, PlaceShrunkChunkKeeps, PlacedRows DEF Inv
<1>6. CASE ForceFinish
  BY <1>1, <1>6, ForceFinishKeeps, ForceFinishRows DEF Inv
<1>7. CASE EndDecodeRows \/ EndPrefillRows
  BY <1>1, <1>7, EndDecodeRowsKeeps, EndPrefillRowsKeeps, PhaseRows DEF Inv
<1> QED
  BY <1>2, <1>3, <1>4, <1>5, <1>6, <1>7 DEF BuildBatch

\* Sequences that leave are running.
LEMMA Leaving ==
  ASSUME Base
  PROVE  /\ Unfinished # <<>> => /\ Head(Unfinished) \in Range(running)
                                 /\ seqs[Head(Unfinished)].state # "FINISHED"
         /\ DoneSequences # <<>> => /\ Head(DoneSequences) \in Range(running)
                                    /\ Done(seqs[Head(DoneSequences)])
<1>1. running \in Seq(Nat)
  BY ListFacts
<1>2. ASSUME NEW keep
      PROVE  Filtered(running, keep) # <<>> =>
               Head(Filtered(running, keep)) \in Range(running) \cap keep
  BY <1>1, FilteredFacts
<1> QED
  BY <1>2 DEF Unfinished, DoneSequences

\* The steps of an execution.
LEMMA ExecutionStep ==
  ASSUME AbortsClean, Inv, Execution
  PROVE  Inv' /\ PoolMove
<1>1. SP!SharingInv /\ Base /\ CacheInv
  BY RowsCoherent DEF Inv
<1>2. CASE Forward
  <2>1. Base'
    BY <1>1, <1>2, ForwardKeeps
  <2> QED
    BY <1>1, <1>2, <2>1, ForwardRows DEF Inv
<1>3. CASE ForwardFails
  BY <1>1, <1>3, ForwardFailsKeeps, ForwardRows DEF Inv
<1>4. CASE AbortOne
  <2>1. PICK id : id = Head(Unfinished)
    OBVIOUS
  <2>2. phase = "abort" /\ Retire(id) /\ id \in Range(running)
    BY <1>1, <1>4, <2>1, Leaving DEF AbortOne
  <2>3. Base'
    BY <1>1, <2>2, RetireKeeps
  <2> QED
    BY <1>1, <2>2, <2>3, RetireRows DEF Inv
<1>5. CASE EndAbort
  <2>1. Base' /\ Live' = Live
    BY <1>1, <1>5, EndAbortKeeps DEF EndAbort, Live
  <2> QED
    BY <1>1, <1>5, <2>1, QueueRows DEF Inv
<1> QED
  BY <1>2, <1>3, <1>4, <1>5 DEF Execution

\* The steps after a batch.
LEMMA AfterStep ==
  ASSUME Inv, AfterBatch
  PROVE  Inv' /\ PoolMove
<1>1. SP!SharingInv /\ Base /\ CacheInv
  BY RowsCoherent DEF Inv
<1>2. CASE RecordBlock
  <2>1. Base'
    BY <1>1, <1>2, RecordBlockKeeps
  <2> QED
    BY <1>1, <1>2, <2>1, RecordRows DEF Inv
<1>3. CASE EndRecord \/ EndUpdate
  BY <1>1, <1>3, EndRecordKeeps, EndUpdateKeeps, PhaseRows DEF Inv
<1>4. CASE RetireDone
  <2>1. PICK id : id = Head(DoneSequences)
    OBVIOUS
  <2>2. phase = "update" /\ Retire(id) /\ id \in Range(running)
    BY <1>1, <1>4, <2>1, Leaving DEF RetireDone
  <2>3. Base'
    BY <1>1, <2>2, RetireKeeps
  <2> QED
    BY <1>1, <2>2, <2>3, RetireRows DEF Inv
<1>5. CASE FlushPreempted
  <2>1. Base' /\ Live' = Live
    BY <1>1, <1>5, FlushKeeps
  <2> QED
    BY <1>1, <1>5, <2>1, QueueRows DEF Inv
<1> QED
  BY <1>2, <1>3, <1>4, <1>5 DEF AfterBatch

\* Nothing happens.
LEMMA StutterKeeps ==
  ASSUME Inv, UNCHANGED vars
  PROVE  Inv' /\ PoolMove
<1>1. /\ UNCHANGED cache_vars /\ next_seq_id' = next_seq_id /\ seqs' = seqs
      /\ waiting' = waiting /\ running' = running
      /\ phase' = phase /\ todo' = todo /\ batch' = batch /\ victims' = victims
  BY DEF vars, queue_vars, step_vars
<1>2. Base /\ SP!SharingInv
  BY DEF Inv
<1>3. /\ free_blocks' = free_blocks /\ ref_counts' = ref_counts /\ cached' = cached
      /\ block_tables' = block_tables /\ row_busy' = row_busy /\ entries' = entries /\ lru' = lru
  BY <1>1 DEF cache_vars, pool_vars
<1>4. BatchRows' = BatchRows /\ PrefillTaken' = PrefillTaken /\ Serving' = Serving /\ Live' = Live
      /\ \A id : Served(id)' <=> Served(id)
  BY <1>1 DEF BatchRows, PrefillTaken, Serving, Live, Served, AtSequence, BatchHasRoom, RowCap
<1>5. Typed'
  BY <1>1, <1>2 DEF Base, Typed
<1>6. Queues' /\ Ordered'
  BY <1>1, <1>2, <1>4 DEF Base, Queues, Ordered
<1>7. Holdings'
  BY <1>1, <1>2, <1>3, <1>4 DEF Base, Holdings, Mounting, Table, Rows, Pool!Rows
<1>8. Measured' /\ Batched'
  BY <1>1, <1>2, <1>4 DEF Base, Measured, Batched, DecodePosition, RowCap
<1>9. Provided'
  BY <1>1, <1>2, <1>4 DEF Base, Provided, ChunkLen, RowCap
<1>10. Planned' /\ Unhurried' /\ Aborting' /\ Uncached'
  BY <1>1, <1>2, <1>3, <1>4
     DEF Base, Planned, Unhurried, Aborting, Uncached, AtSequence, BatchHasRoom, RowCap, InBatch
<1>11. Base'
  BY <1>5, <1>6, <1>7, <1>8, <1>9, <1>10 DEF Base
<1>12. Kept(-1) /\ Admitting' = Admitting
  BY <1>1, <1>4, CommittedStays DEF Kept, Admitting
<1>13. SP!SharingInv'
  BY <1>1, <1>2, <1>11, <1>12, NoRowMoves
<1> QED
  BY <1>1, <1>11, <1>13, NoMove DEF Inv

\* Every step of the scheduler keeps the invariant, and is at most one
\* operation of the pool.
LEMMA EveryStep ==
  ASSUME AbortsClean, Inv, [Next]_vars
  PROVE  Inv' /\ PoolMove
<1>1. CASE \E request \in Requests : AddRequest(request.prompt, request.eos)
  <2>1. PICK request \in Requests : AddRequest(request.prompt, request.eos)
    BY <1>1
  <2> QED
    BY <2>1, AddRequestKeeps, AddRequestRows DEF Inv
<1>2. CASE Step
  BY <1>2, AdmissionStep, BuildStep, ExecutionStep, AfterStep DEF Step
<1>3. CASE UNCHANGED vars
  BY <1>3, StutterKeeps
<1> QED
  BY <1>1, <1>2, <1>3 DEF Next

\* The invariant of the scheduler.
THEOREM SchedulerInvariant == ASSUME AbortsClean PROVE Spec => []Inv
<1>1. Init => Inv
  BY InitBase, InitRows DEF Inv
<1>2. Inv /\ [Next]_vars => Inv'
  BY EveryStep
<1> QED
  BY <1>1, <1>2, PTL DEF Spec

-------------------------------------------------------------------------------
(* The history of finished requests.                                         *)

History ==
  /\ retired \in Seq(DOMAIN seqs)
  /\ finished_total \in Nat /\ finished_evicted \in 0 .. finished_total
  /\ IsFiniteSet(DOMAIN seqs)
  /\ HistoryExact

\* What is behind the first k elements of a sequence.
LEMMA Rest ==
  ASSUME NEW S, NEW s \in Seq(S), NEW k \in Nat, k <= Len(s)
  PROVE  LET rest == SubSeq(s, k + 1, Len(s))
         IN  /\ rest \in Seq(S) /\ Len(rest) = Len(s) - k
             /\ \A i \in 1 .. Len(s) - k : rest[i] = s[k + i]
<1>1. PICK n : n = Len(s) /\ n \in Nat
  OBVIOUS
<1>2. PICK rest : rest = SubSeq(s, k + 1, n)
  OBVIOUS
<1>3. rest \in Seq(S) /\ Len(rest) = n - k
  BY <1>1, <1>2
<1>4. ASSUME NEW i \in 1 .. n - k PROVE rest[i] = s[k + i]
  BY <1>1, <1>2
<1> QED
  BY <1>1, <1>2, <1>3, <1>4

\* The end of a sequence grows and loses elements in front: it is the end of the
\* grown sequence still.
LEMMA EndsOf ==
  ASSUME NEW S, NEW t \in Seq(S), NEW x \in S, NEW e \in Nat, NEW d \in Nat,
         e <= Len(t), d <= Len(t) - e + 1
  PROVE  SubSeq(Append(SubSeq(t, e + 1, Len(t)), x), d + 1, Len(t) - e + 1)
           = SubSeq(Append(t, x), e + d + 1, Len(t) + 1)
<1>1. PICK n : n = Len(t) /\ n \in Nat /\ e <= n /\ d <= n - e + 1
  OBVIOUS
<1>2. PICK end : end = SubSeq(t, e + 1, n)
  OBVIOUS
<1>3. PICK grown : grown = Append(end, x)
  OBVIOUS
<1>4. PICK longer : longer = Append(t, x)
  OBVIOUS
<1>5. /\ end \in Seq(S) /\ Len(end) = n - e
      /\ \A i \in 1 .. n - e : end[i] = t[e + i]
  BY <1>1, <1>2
<1>6. /\ grown \in Seq(S) /\ Len(grown) = n - e + 1
      /\ \A i \in 1 .. n - e : grown[i] = end[i]
      /\ grown[n - e + 1] = x
  BY <1>1, <1>5, <1>3
<1>7. /\ longer \in Seq(S) /\ Len(longer) = n + 1
      /\ \A i \in 1 .. n : longer[i] = t[i]
      /\ longer[n + 1] = x
  BY <1>1, <1>4
<1>8. PICK a : a = SubSeq(grown, d + 1, n - e + 1)
  OBVIOUS
<1>9. PICK b : b = SubSeq(longer, e + d + 1, n + 1)
  OBVIOUS
<1>10. PICK m, k : m = (n - e + 1) - d /\ k = e + d
  OBVIOUS
<1>11. PICK g, l : g = n - e + 1 /\ l = n + 1
  OBVIOUS
<1>12. /\ m \in Nat /\ k \in Nat /\ g \in Nat /\ l \in Nat /\ d <= g /\ k <= l
      /\ m = g - d /\ m = l - k /\ k = e + d
  BY <1>1, <1>10, <1>11
<1>13. a \in Seq(S) /\ Len(a) = m /\ \A i \in 1 .. m : a[i] = grown[d + i]
  <2>1. Len(grown) = g /\ a = SubSeq(grown, d + 1, g)
    BY <1>6, <1>8, <1>11
  <2>2. LET rest == SubSeq(grown, d + 1, Len(grown))
        IN  /\ rest \in Seq(S) /\ Len(rest) = Len(grown) - d
            /\ \A i \in 1 .. Len(grown) - d : rest[i] = grown[d + i]
    <3>1. grown \in Seq(S) /\ d \in Nat /\ d <= Len(grown)
      BY <1>6, <1>12, <2>1
    <3> QED
      BY <3>1, Rest
  <2> QED
    BY <1>12, <2>1, <2>2
<1>14. b \in Seq(S) /\ Len(b) = m /\ \A i \in 1 .. m : b[i] = longer[k + i]
  <2>1. Len(longer) = l /\ b = SubSeq(longer, k + 1, l)
    BY <1>7, <1>9, <1>10, <1>11
  <2>2. LET rest == SubSeq(longer, k + 1, Len(longer))
        IN  /\ rest \in Seq(S) /\ Len(rest) = Len(longer) - k
            /\ \A i \in 1 .. Len(longer) - k : rest[i] = longer[k + i]
    BY <1>7, <1>12, <2>1, Rest
  <2> QED
    BY <1>12, <2>1, <2>2
<1>15. ASSUME NEW i \in 1 .. m
      PROVE  grown[d + i] = longer[k + i]
  <2>1. PICK j, p : j = d + i /\ p = k + i
    OBVIOUS
  <2>2. j \in 1 .. g /\ p = e + j
    BY <1>1, <1>12, <2>1
  <2>3. CASE j = g
    <3>1. p = n + 1
      BY <1>1, <1>11, <2>2, <2>3
    <3> QED
      BY <1>6, <1>7, <1>11, <2>1, <2>3, <3>1
  <2>4. CASE j # g
    <3>1. j \in 1 .. n - e /\ p \in 1 .. n
      BY <1>1, <1>11, <1>12, <2>2, <2>4
    <3>2. grown[j] = t[p] /\ longer[p] = t[p]
      BY <1>5, <1>6, <1>7, <2>2, <3>1
    <3> QED
      BY <2>1, <3>2
  <2> QED
    BY <2>3, <2>4
<1>16. \A i \in 1 .. m : a[i] = b[i]
  BY <1>13, <1>14, <1>15
<1>17. a = [i \in 1 .. m |-> a[i]] /\ b = [i \in 1 .. m |-> b[i]]
  BY <1>12, <1>13, <1>14
<1>18. a = b
  BY <1>16, <1>17
<1> QED
  BY <1>1, <1>2, <1>3, <1>4, <1>8, <1>9, <1>18

\* How many records a history drops, and what that leaves.
LEMMA DroppedFacts ==
  ASSUME NEW S, NEW history \in Seq(S), Len(history) > 0,
         HistoryLimit > 0 => Len(history) <= HistoryLimit + 1
  PROVE  LET d == Dropped(history)
         IN  /\ d \in 0 .. Len(history)
             /\ HistoryLimit > 0 => Len(history) - d <= HistoryLimit
             /\ HistoryLimit > 0 /\ d > 0 => 4 * (Len(history) - d) >= 3 * HistoryLimit
<1>1. HistoryLimit \in Nat /\ Len(history) \in Nat
  BY Sizes
<1>2. CASE HistoryLimit = 0 \/ Len(history) <= HistoryLimit
  BY <1>1, <1>2 DEF Dropped
<1>3. CASE ~(HistoryLimit = 0 \/ Len(history) <= HistoryLimit)
  <2>1. PICK q : q = HistoryLimit \div 4
    OBVIOUS
  <2>2. q \in Nat /\ q * 4 <= HistoryLimit
    BY <1>1, <2>1, Quotient
  <2>3. Dropped(history) = Len(history) - (HistoryLimit - q)
    BY <1>3, <2>1 DEF Dropped
  <2>4. Len(history) = HistoryLimit + 1
    BY <1>1, <1>3
  <2> QED
    BY <1>1, <2>2, <2>3, <2>4
<1> QED
  BY <1>2, <1>3

\* The history is the end of what was retired.
LEMMA EndOfRetired ==
  ASSUME History
  PROVE  /\ finished = SubSeq(retired, finished_evicted + 1, Len(retired))
         /\ finished_evicted \in 0 .. Len(retired) /\ finished_total = Len(retired)
         /\ finished \in Seq(DOMAIN seqs) /\ Len(finished) = finished_total - finished_evicted
<1>1. /\ finished_evicted \in 0 .. Len(retired) /\ finished_total = Len(retired)
      /\ finished = SubSeq(retired, finished_evicted + 1, Len(retired))
      /\ retired \in Seq(DOMAIN seqs)
  BY DEF History, HistoryExact
<1> QED
  BY <1>1

\* A step that finishes nobody.
LEMMA HistoryStays ==
  ASSUME History, UNCHANGED history_vars, IsFiniteSet(DOMAIN seqs'),
         DOMAIN seqs \subseteq DOMAIN seqs', DOMAIN seqs' \ Live' = DOMAIN seqs \ Live
  PROVE  History'
<1>1. /\ finished' = finished /\ finished_total' = finished_total
      /\ finished_evicted' = finished_evicted /\ retired' = retired
  BY DEF history_vars
<1>2. retired' \in Seq(DOMAIN seqs')
  <2>1. Seq(DOMAIN seqs) \subseteq Seq(DOMAIN seqs')
    OBVIOUS
  <2> QED
    BY <1>1, <2>1 DEF History
<1>3. HistoryExact'
  BY <1>1 DEF History, HistoryExact
<1> QED
  BY <1>1, <1>2, <1>3 DEF History

\* A sequence that leaves enters the history.
LEMMA HistoryRetires ==
  ASSUME Inv, History, NEW id \in Range(running), phase \in {"abort", "update"}, Retire(id)
  PROVE  History'
<1>1. /\ DOMAIN seqs' = DOMAIN seqs /\ Live' = Live \ {id} /\ id \in DOMAIN seqs
  BY RetireKeeps, RowsCoherent DEF Inv
<1>2. id \in Live
  BY ListFacts DEF Inv
<1>3. PICK history : history = Append(finished, id)
  OBVIOUS
<1>4. PICK d : d = Dropped(history)
  OBVIOUS
<1>5. /\ finished' = SubSeq(history, d + 1, Len(history))
      /\ finished_total' = finished_total + 1 /\ finished_evicted' = finished_evicted + d
      /\ retired' = Append(retired, id)
  BY <1>3, <1>4 DEF Retire, Evicted
<1>6. PICK n, e \in Nat :
        /\ n = finished_total /\ e = finished_evicted /\ e <= n /\ n = Len(retired)
        /\ finished = SubSeq(retired, e + 1, Len(retired)) /\ retired \in Seq(DOMAIN seqs)
        /\ Len(finished) = n - e /\ HistoryLimit \in Nat
        /\ Range(retired) = DOMAIN seqs \ Live /\ n = Cardinality(DOMAIN seqs \ Live)
        /\ HistoryLimit > 0 => Len(finished) <= HistoryLimit
        /\ HistoryLimit > 0 /\ e > 0 => 4 * Len(finished) >= 3 * HistoryLimit
  BY EndOfRetired, Sizes DEF History, HistoryExact
<1>7. history \in Seq(DOMAIN seqs) /\ Len(history) = n - e + 1
  <2>1. finished \in Seq(DOMAIN seqs)
    BY EndOfRetired
  <2>2. history \in Seq(DOMAIN seqs) /\ Len(history) = Len(finished) + 1
    BY <1>1, <1>3, <2>1, Appended
  <2> QED
    BY <1>6, <2>2
<1>8. /\ d \in 0 .. n - e + 1
      /\ HistoryLimit > 0 => n - e + 1 - d <= HistoryLimit
      /\ HistoryLimit > 0 /\ d > 0 => 4 * (n - e + 1 - d) >= 3 * HistoryLimit
  <2>1. Len(history) > 0 /\ (HistoryLimit > 0 => Len(history) <= HistoryLimit + 1)
    <3>1. PICK h, l, m : h = HistoryLimit /\ l = Len(finished) /\ m = Len(history)
      OBVIOUS
    <3>2. /\ h \in Nat /\ n \in Nat /\ e \in Nat /\ e <= n
          /\ l = n - e /\ (h > 0 => l <= h) /\ m = n - e + 1
      BY <1>6, <1>7, <3>1
    <3>3. m > 0 /\ (h > 0 => m <= h + 1)
      BY <3>2
    <3> QED
      BY <3>1, <3>3
  <2> QED
    <3>1. PICK m : m = Len(history) /\ m = n - e + 1
      BY <1>7
    <3>2. /\ d \in 0 .. m
          /\ HistoryLimit > 0 => m - d <= HistoryLimit
          /\ HistoryLimit > 0 /\ d > 0 => 4 * (m - d) >= 3 * HistoryLimit
      BY <1>4, <1>7, <2>1, <3>1, DroppedFacts
    <3> QED
      BY <3>1, <3>2
<1>9. finished' = SubSeq(retired', finished_evicted' + 1, finished_total')
  <2>1. finished' = SubSeq(retired', e + d + 1, n + 1)
    <3>1. finished' = SubSeq(history, d + 1, n - e + 1) /\ retired' = Append(retired, id)
      BY <1>5, <1>7
    <3>2. PICK S, t : S = DOMAIN seqs /\ t = retired
      OBVIOUS
    <3>3. id \in S /\ t \in Seq(S) /\ n = Len(t) /\ e <= Len(t)
      BY <1>1, <1>6, <3>2
    <3>4. d \in Nat /\ d <= Len(t) - e + 1
      BY <1>8, <3>3
    <3>5. SubSeq(Append(SubSeq(t, e + 1, Len(t)), id), d + 1, Len(t) - e + 1)
            = SubSeq(Append(t, id), e + d + 1, Len(t) + 1)
      BY <3>3, <3>4, EndsOf
    <3>6. history = Append(SubSeq(t, e + 1, Len(t)), id)
      BY <1>3, <1>6, <3>2
    <3> QED
      BY <3>1, <3>2, <3>3, <3>5, <3>6
  <2> QED
    BY <1>5, <1>6, <2>1
<1>10. retired' \in Seq(DOMAIN seqs') /\ Len(retired') = n + 1
  <2>1. Append(retired, id) \in Seq(DOMAIN seqs) /\ Len(Append(retired, id)) = Len(retired) + 1
    BY <1>1, <1>6, Appended
  <2> QED
    BY <1>1, <1>5, <1>6, <2>1
<1>11. finished_total' = n + 1 /\ finished_evicted' = e + d /\ e + d \in 0 .. n + 1
  BY <1>5, <1>6, <1>8
<1>12. Len(finished') = n - e + 1 - d
  <2>1. PICK m : m = Len(history) /\ m \in Nat /\ d \in 0 .. m /\ m = n - e + 1
    BY <1>6, <1>7, <1>8
  <2>2. Len(SubSeq(history, d + 1, m)) = m - d
    BY <1>7, <2>1
  <2> QED
    BY <1>5, <2>1, <2>2
<1>13. Cardinality(DOMAIN seqs' \ Live') = n + 1 /\ Range(retired') = DOMAIN seqs' \ Live'
  <2>1. IsFiniteSet(DOMAIN seqs \ Live)
    BY FS_Subset DEF History
  <2>2. DOMAIN seqs' \ Live' = (DOMAIN seqs \ Live) \cup {id} /\ id \notin DOMAIN seqs \ Live
    BY <1>1, <1>2
  <2>3. Range(retired') = Range(retired) \cup {id}
    BY <1>1, <1>5, <1>6, Appended
  <2>4. Cardinality((DOMAIN seqs \ Live) \cup {id}) = Cardinality(DOMAIN seqs \ Live) + 1
    BY <2>1, <2>2, FS_AddElement
  <2> QED
    BY <1>6, <2>2, <2>3, <2>4
<1>14. HistoryExact'
  <2>1. HistoryLimit > 0 => Len(finished') <= HistoryLimit
    BY <1>8, <1>12
  <2>2. HistoryLimit > 0 /\ finished_evicted' > 0 => 4 * Len(finished') >= 3 * HistoryLimit
    <3>1. PICK h, m : h = HistoryLimit /\ m = Len(finished')
      OBVIOUS
    <3>5. h \in Nat /\ m = n - e + 1 - d /\ d \in Nat
      BY <1>6, <1>8, <1>12, <3>1
    <3>6. PICK l : l = Len(finished) /\ l = n - e /\ (h > 0 /\ e > 0 => 4 * l >= 3 * h)
      BY <1>6, <3>1
    <3>2. SUFFICES ASSUME h > 0, e + d > 0 PROVE 4 * m >= 3 * h
      BY <1>11, <3>1
    <3>3. CASE d > 0
      BY <1>8, <3>1, <3>2, <3>3, <3>5
    <3>4. CASE d = 0
      <4>1. e > 0 /\ m = l + 1 /\ l \in Int
        BY <3>2, <3>4, <3>5, <3>6
      <4>2. 4 * l >= 3 * h
        BY <3>2, <3>6, <4>1
      <4> QED
        BY <3>5, <4>1, <4>2
    <3> QED
      BY <3>3, <3>4, <3>5
  <2> QED
    BY <1>9, <1>10, <1>11, <1>13, <2>1, <2>2 DEF HistoryExact
<1> QED
  BY <1>1, <1>10, <1>11, <1>14 DEF History

\* The history, over a step.
LEMMA HistoryStep ==
  ASSUME AbortsClean, Inv, History, [Next]_vars
  PROVE  History'
<1>1. Base /\ CacheInv
  BY RowsCoherent DEF Inv
<1>2. ASSUME UNCHANGED history_vars, DOMAIN seqs' = DOMAIN seqs, Live' = Live
      PROVE  History'
  BY <1>2, HistoryStays DEF History
<1>3. CASE \E request \in Requests : AddRequest(request.prompt, request.eos)
  <2>1. PICK request \in Requests : AddRequest(request.prompt, request.eos)
    BY <1>3
  <2>2. phase = "idle" /\ UNCHANGED history_vars /\ UNCHANGED <<cache_vars, running, step_vars>>
        /\ next_seq_id' = next_seq_id + 1
    BY <2>1 DEF AddRequest
  <2>3. CASE UNCHANGED <<seqs, waiting>>
    BY <1>2, <2>2, <2>3 DEF Live
  <2>4. CASE /\ Len(request.prompt) \in 1 .. MaxSeqLen - 1
             /\ seqs' = [id \in DOMAIN seqs \cup {next_seq_id} |->
                           IF id = next_seq_id THEN NewSequence(request.prompt, request.eos)
                                               ELSE seqs[id]]
             /\ waiting' = Append(waiting, next_seq_id)
    <3>1. Live' = Live \cup {next_seq_id} /\ next_seq_id \notin DOMAIN seqs
      BY <1>1, <2>2, <2>4, AcceptKeeps
    <3>2. DOMAIN seqs' = DOMAIN seqs \cup {next_seq_id}
      BY <2>4
    <3>3. IsFiniteSet(DOMAIN seqs')
      BY <3>2, FS_AddElement DEF History
    <3> QED
      BY <2>2, <3>1, <3>2, <3>3, HistoryStays
  <2> QED
    BY <2>1, <2>3, <2>4 DEF AddRequest
<1>4. CASE AbortOne \/ RetireDone
  BY <1>1, <1>4, Leaving, HistoryRetires DEF AbortOne, RetireDone
<1>5. CASE Resume \/ ClaimRow \/ MountPrefix
  <2>1. Live' = Live
    BY <1>1, <1>5, ResumeKeeps, ClaimRowKeeps, MountPrefixKeeps
  <2>2. UNCHANGED history_vars /\ DOMAIN seqs' = DOMAIN seqs
    BY <1>5 DEF Resume, ClaimRow, MountPrefix
  <2> QED
    BY <1>2, <2>1, <2>2
<1>6. CASE EndAbort \/ FlushPreempted
  <2>1. Live' = Live
    BY <1>1, <1>6, EndAbortKeeps, FlushKeeps DEF EndAbort, Live
  <2>2. UNCHANGED history_vars /\ DOMAIN seqs' = DOMAIN seqs
    BY <1>6 DEF EndAbort, FlushPreempted
  <2> QED
    BY <1>2, <2>1, <2>2
<1>7. CASE BuildBatch \/ Forward \/ ForwardFails \/ RecordBlock
  <2>1. /\ UNCHANGED history_vars /\ DOMAIN seqs' = DOMAIN seqs
        /\ waiting' = waiting /\ running' = running
    BY <1>7
       DEF BuildBatch, Grow, PlanPreemption, Preempt, PlaceDecode, PlaceChunk, PlaceShrunkChunk,
           Place, ForceFinish, EndDecodeRows, EndPrefillRows, Forward, ForwardFails, RecordBlock,
           queue_vars
  <2> QED
    BY <1>2, <2>1 DEF Live
<1>8. CASE BeginStep \/ EndAdmission \/ EndRecord \/ EndUpdate \/ UNCHANGED vars
  <2>1. /\ UNCHANGED history_vars /\ seqs' = seqs /\ waiting' = waiting /\ running' = running
    BY <1>8 DEF BeginStep, EndAdmission, EndRecord, EndUpdate, vars, queue_vars
  <2> QED
    BY <1>2, <2>1 DEF Live
<1> QED
  BY <1>3, <1>4, <1>5, <1>6, <1>7, <1>8 DEF Next, Step, Admission, Execution, AfterBatch

\* The history is the end of all retirements, step by step.
THEOREM HistoryKept == ASSUME AbortsClean PROVE Spec => [](History /\ HistoryExact)
<1>1. Init => History
  <2> SUFFICES ASSUME Init PROVE History
    OBVIOUS
  <2>1. /\ seqs = [id \in {} |-> {}] /\ finished = <<>> /\ retired = <<>>
        /\ finished_total = 0 /\ finished_evicted = 0
    BY DEF Init
  <2>2. DOMAIN seqs = {} /\ IsFiniteSet({}) /\ Cardinality({}) = 0 /\ {} \ Live = {}
    BY <2>1, FS_EmptySet
  <2>3. /\ retired \in Seq(DOMAIN seqs) /\ Len(retired) = 0 /\ Len(finished) = 0
        /\ Range(retired) = {} /\ finished = SubSeq(retired, 1, 0)
    BY <2>1 DEF Range
  <2>4. HistoryExact
    BY <2>1, <2>2, <2>3, Sizes DEF HistoryExact
  <2> QED
    BY <2>1, <2>2, <2>3, <2>4 DEF History
<1>2. Inv /\ History /\ [Next]_vars => History'
  BY HistoryStep
<1>3. History => HistoryExact
  BY DEF History
<1> QED
  BY <1>1, <1>2, <1>3, SchedulerInvariant, PTL DEF Spec

-------------------------------------------------------------------------------
(* What the invariant says of the scheduler.                                 *)

\* Sequence state is typed, counts no token twice, and outlives its lists.
LEMMA TypesOf == Inv /\ History => TypeOK
<1> SUFFICES ASSUME Inv, History PROVE TypeOK
  OBVIOUS
<1>1. Base /\ CacheInv
  BY RowsCoherent DEF Inv
<1>2. Pool!TypeOK
  BY <1>1 DEF CacheInv, PoolInv
<1>3. ASSUME NEW id \in DOMAIN seqs
      PROVE  LET s == seqs[id]
             IN  /\ s.state \in {"WAITING", "RUNNING", "PREEMPTED", "FINISHED"}
                 /\ s.row \in Rows \cup {-1}
                 /\ s.prefilled \in 0 .. NumPrompt(s)
                 /\ s.generated \in 0 .. s.max_gen
                 /\ NumPrompt(s) + s.max_gen <= MaxSeqLen
                 /\ Len(s.chain) * BlockSize <= s.prefilled
  <2>1. PICK s : s = seqs[id]
    OBVIOUS
  <2>2. Sound(s) /\ NumPrompt(s) + s.max_gen <= MaxSeqLen
    BY <1>1, <2>1, TypedFacts DEF Base
  <2>3. /\ s.prefilled <= NumPrompt(s) /\ s.generated <= Target(s)
        /\ Len(s.chain) * BlockSize <= s.prefilled
    BY <1>1, <2>1 DEF Base, Measured
  <2>4. s.generated \in 0 .. s.max_gen /\ s.prefilled \in 0 .. NumPrompt(s)
    BY <2>2, <2>3 DEF Sound
  <2> QED
    BY <2>1, <2>2, <2>3, <2>4 DEF Sound, States
<1>4. Live \cup Range(finished) \subseteq DOMAIN seqs
  <2>1. Range(finished) \subseteq DOMAIN seqs
    BY EndOfRetired, OwnElements
  <2> QED
    BY <1>1, <2>1, ListFacts
<1> QED
  BY <1>2, <1>3, <1>4 DEF TypeOK

\* Requests and rows are all accounted for.
LEMMA AllAccounted == Inv => Accounted
<1> SUFFICES ASSUME Inv PROVE Accounted
  OBVIOUS
<1>1. Base /\ CacheInv
  BY RowsCoherent DEF Inv
<1>2. Pool!IsInjective(waiting \o running)
  <2>1. IsInjective(waiting \o running)
    BY <1>1, ListFacts, ConcatInjective
  <2> QED
    BY <2>1, SameRange
<1>3. \A id \in DOMAIN seqs : id \in Live \/ seqs[id].state = "FINISHED"
  BY <1>1 DEF Base, Queues
<1>4. /\ \A id, other \in Live :
           seqs[id].row # -1 /\ seqs[id].row = seqs[other].row => id = other
      /\ \A id \in Live : seqs[id].row # -1 => seqs[id].blocks = Len(Table(id))
      /\ \A r \in Rows : row_busy[r] <=> \E id \in Live : seqs[id].row = r
  BY <1>1 DEF Base, Holdings
<1>5. \A id \in Live : seqs[id].row \in Rows \cup {-1}
  BY <1>1, ProvidedFacts DEF Sound
<1>6. -1 \notin Rows
  BY CacheSizes DEF Rows, Pool!Rows
<1>7. {row \in Rows : row_busy[row]} = {seqs[id].row : id \in Live} \ {-1}
  BY <1>4, <1>5, <1>6
<1> QED
  BY <1>2, <1>3, <1>4, <1>7 DEF Accounted

\* A roomy pool never makes anyone yield.
LEMMA RoomSuffices == Inv => SizedPoolSuffices
<1> SUFFICES ASSUME Inv, Roomy
             PROVE  /\ victims = <<>>
                    /\ \A id \in DOMAIN seqs : seqs[id].preempts = 0
                    /\ phase \in {"decode", "prefill"} =>
                         \A id \in Range(running) : seqs[id].state = "RUNNING"
  BY DEF SizedPoolSuffices, Roomy
<1>1. Base
  BY DEF Inv
<1>2. \A id \in Range(running) : id \in Live /\ seqs[id].state # "WAITING"
  BY <1>1, ListFacts DEF Base, Queues
<1> QED
  BY <1>1, <1>2 DEF Base, Unhurried

\* The request at the head of the queue finds a row.
LEMMA RowForHead == Inv => AdmissionNeverBlocked
<1> SUFFICES ASSUME Inv, phase = "admit", MayAdmit,
                    seqs[Head(waiting)].state # "PREEMPTED",
                    \A row \in Rows : row_busy[row]
             PROVE  FALSE
  BY DEF AdmissionNeverBlocked, HeadHasRow
<1>1. Base
  BY DEF Inv
<1>2. waiting # <<>> /\ Len(running) < NumRows /\ waiting \in Seq(Nat) /\ running \in Seq(Nat)
  BY <1>1, ListFacts, Sizes DEF MayAdmit
<1>3. Head(waiting) = waiting[1] /\ Head(waiting) \in Range(waiting)
      /\ Len(waiting) \in Nat /\ Len(waiting) > 0 /\ DOMAIN waiting = 1 .. Len(waiting)
  BY <1>2, Headed
<1>4. \A id \in Range(waiting) : seqs[id].state \in {"WAITING", "PREEMPTED"}
  BY <1>1 DEF Base, Queues
<1>5. \A j \in 1 .. Len(waiting) : seqs[waiting[j]].state = "WAITING"
  <2> SUFFICES ASSUME NEW j \in 1 .. Len(waiting), seqs[waiting[j]].state # "WAITING"
               PROVE  FALSE
    OBVIOUS
  <2>1. waiting[j] \in Range(waiting)
    BY <1>3 DEF Range
  <2>2. seqs[waiting[j]].state = "PREEMPTED"
    BY <1>4, <2>1
  <2>3. j # 1
    BY <1>3, <2>2
  <2>4. 1 \in 1 .. Len(waiting) /\ 1 < j
    BY <1>3, <2>3
  <2>5. seqs[waiting[1]].state = "PREEMPTED"
    BY <1>1, <2>2, <2>4 DEF Base, Ordered
  <2> QED
    BY <1>3, <2>5
<1>6. ASSUME NEW row \in Rows PROVE \E id \in Range(running) : seqs[id].row = row
  <2>1. PICK id \in Live : seqs[id].row = row
    BY <1>1 DEF Base, Holdings
  <2>2. row # -1
    BY CacheSizes DEF Rows, Pool!Rows
  <2>3. seqs[id].state # "WAITING"
    BY <1>1, <2>1, <2>2 DEF Base, Holdings, Mounting
  <2>4. id \notin Range(waiting)
    BY <1>3, <1>5, <2>3 DEF Range
  <2> QED
    BY <2>1, <2>4 DEF Live
<1>7. PICK f : f = [row \in Rows |-> CHOOSE id \in Range(running) : seqs[id].row = row]
  OBVIOUS
<1>8. \A row \in Rows : f[row] \in Range(running) /\ seqs[f[row]].row = row
  BY <1>6, <1>7
<1>9. f \in Injection(Rows, Range(running))
  <2>1. f \in [Rows -> Range(running)]
    BY <1>7, <1>8
  <2>2. \A r, q \in Rows : f[r] = f[q] => r = q
    BY <1>8
  <2> QED
    BY <2>1, <2>2 DEF Injection, IsInjective
<1>10. IsFiniteSet(Range(running)) /\ Cardinality(Range(running)) \in Nat
       /\ Cardinality(Range(running)) <= Len(running)
  BY <1>2, RangeCount
<1>11. Cardinality(Rows) <= Cardinality(Range(running))
  BY <1>9, <1>10, FS_Injection
<1>12. Cardinality(Rows) = NumRows
  <2>1. NumRows \in Nat /\ NumRows > 0
    BY Sizes
  <2>2. Rows = 0 .. NumRows - 1
    BY DEF Rows, Pool!Rows
  <2> QED
    BY <2>1, <2>2, FS_Interval
<1>13. NumRows \in Nat /\ Len(running) \in Nat
  BY <1>2, Sizes
<1> QED
  BY <1>2, <1>10, <1>11, <1>12, <1>13

\* A row of the batch writes to a block that may be written.
LEMMA MayWrite ==
  ASSUME Inv, NEW i \in DOMAIN batch, NEW p \in Positions(batch[i])
  PROVE  LET id == batch[i].id
             row == seqs[id].row
             k == BlockIndex(p)
         IN  /\ id \in Live /\ row \in Rows /\ row # -1 /\ Table(id) = block_tables[row]
             /\ p \in Nat /\ k \in 1 .. Len(block_tables[row])
             /\ k > RowWritten[row] \/ k >= Len(RowPrompt[row])
<1>1. Base /\ SP!SharingInv
  BY DEF Inv
<1>2. PICK chunk, id, s, row : chunk = batch[i] /\ id = chunk.id /\ s = seqs[id] /\ row = s.row
  OBVIOUS
<1>3. i \in 1 .. Len(batch) /\ chunk \in Runs
  BY <1>1, <1>2, ListFacts
<1>4. chunk.start \in Nat /\ chunk.len \in Nat \ {0}
  BY <1>3 DEF Runs
<1>5. p \in chunk.start .. chunk.start + chunk.len - 1 /\ p \in Nat
  BY <1>2, <1>4 DEF Positions
<1>6. /\ id \in Range(running) /\ s.state = "RUNNING"
      /\ chunk.decode =>
           /\ Complete(s)
           /\ chunk.start = DecodePosition(s) /\ chunk.len = 1
           /\ chunk.start < s.blocks * BlockSize
      /\ ~chunk.decode => chunk.start + chunk.len = s.prefilled
  BY <1>1, <1>2, <1>3 DEF Base, Batched
<1>7. id \in Live /\ id \in DOMAIN seqs
  BY <1>1, <1>6, ListFacts
<1>8. row # -1 /\ row \in Rows /\ Table(id) = block_tables[row]
  BY <1>1, <1>2, <1>6, <1>7, RowOf DEF Table
<1>9. /\ RowPrompt[row] = Paged(s.prompt) /\ RowWritten[row] = BlocksWritten(id)
      /\ s.blocks = Len(block_tables[row])
  BY <1>1, <1>2, <1>7, <1>8, RowOfSequence
<1>10. Sound(s) /\ s.prefilled <= s.blocks * BlockSize
  BY <1>1, <1>2, <1>7, ProvidedFacts
<1>11. s.prefilled <= NumPrompt(s)
  BY <1>1, <1>2, <1>7 DEF Base, Measured
<1>12. /\ s.blocks \in Nat /\ s.prefilled \in Nat /\ s.generated \in Nat /\ NumPrompt(s) \in Nat
       /\ s.blocks * BlockSize \in Nat /\ NumPrompt(s) = Len(s.prompt)
  BY <1>10 DEF Sound, NumPrompt
<1>13. PICK k : k = BlockIndex(p)
  OBVIOUS
<1>14. /\ k \in Nat /\ k >= 1 /\ p < k * BlockSize /\ k * BlockSize \in Nat
       /\ \A n \in Int : p < n * BlockSize => k <= n
  <2>1. BlockSize \in Nat \ {0}
    BY Sizes
  <2>2. PICK q : q = p \div BlockSize /\ q \in Nat
    BY <1>5, <2>1, Quotient
  <2>3. k = q + 1 /\ k \in Int
    BY <1>13, <2>2 DEF BlockIndex
  <2>4. ASSUME NEW n \in Int PROVE k <= n <=> p < n * BlockSize
    <3>1. p \div BlockSize + 1 <= n <=> p < n * BlockSize
      BY ONLY <1>5, <2>1, <2>4, InBlocks
    <3> QED
      BY <2>2, <2>3, <3>1
  <2>5. p < k * BlockSize /\ k * BlockSize \in Nat
    BY <2>1, <2>2, <2>3, <2>4
  <2> QED
    BY <2>2, <2>3, <2>4, <2>5
<1>15. p < s.blocks * BlockSize
  <2>1. CASE chunk.decode
    BY <1>4, <1>5, <1>6, <2>1
  <2>2. CASE ~chunk.decode
    BY <1>4, <1>5, <1>6, <1>10, <1>12, <2>2
  <2> QED
    BY <2>1, <2>2
<1>16. k <= Len(block_tables[row]) /\ k \in 1 .. Len(block_tables[row])
  BY <1>9, <1>12, <1>14, <1>15
<1>17. s.prompt \in {q.prompt : q \in Accepted} /\ BlocksWritten(id) \in Nat
       /\ BlocksWritten(id) = BlocksOfTokens(s.prompt, Committed(id))
  BY <1>1, <1>2, <1>7, WrittenFacts
<1>18. k > RowWritten[row] \/ k >= Len(RowPrompt[row])
  <2>1. CASE chunk.decode
    <3>1. NumPrompt(s) <= s.prefilled
      BY <1>6, <2>1 DEF Complete
    <3>2. p >= NumPrompt(s) - 1
      BY <1>5, <1>6, <1>4, <1>12, <2>1 DEF DecodePosition
    <3>3. Len(s.prompt) <= k * BlockSize
      BY <1>5, <1>12, <1>14, <3>2
    <3>4. \A m \in Int : Len(Paged(s.prompt)) <= m <=> Len(s.prompt) <= m * BlockSize
      BY <1>17, PagedFacts, Zenon
    <3>5. k \in Int
      BY <1>14
    <3>6. Len(Paged(s.prompt)) <= k
      BY <3>3, <3>4, <3>5
    <3> QED
      BY <1>9, <1>14, <3>6
  <2>2. CASE ~chunk.decode
    <3>1. Committed(id) = chunk.start
      BY <1>1, <1>2, <1>3, <1>7, <2>2, CommittedIsShown DEF CommittedShown
    <3>2. chunk.start < Len(s.prompt)
      BY <1>4, <1>6, <1>11, <1>12, <2>2
    <3>3. BlocksWritten(id) = chunk.start \div BlockSize
      BY <1>4, <1>12, <1>17, <3>1, <3>2 DEF BlocksOfTokens
    <3>4. PICK w, n : w = chunk.start \div BlockSize /\ n = chunk.start
      OBVIOUS
    <3>5. n \in Nat /\ n <= p /\ BlockSize \in Nat \ {0} /\ w = n \div BlockSize
      BY <1>4, <1>5, <3>4, Sizes
    <3>6. k <= w <=> k * BlockSize <= n
      <4>1. k \in Int /\ n \in Nat /\ BlockSize \in Nat \ {0}
        BY <1>14, <3>5
      <4>2. k * BlockSize <= n <=> k <= n \div BlockSize
        BY ONLY <4>1, FullBlocks
      <4> QED
        BY <3>5, <4>2
    <3>7. ~(k * BlockSize <= n)
      BY <1>5, <1>14, <3>5
    <3>8. w \in Nat
      BY <1>17, <3>3, <3>4
    <3> QED
      BY <1>9, <1>14, <3>3, <3>4, <3>6, <3>7, <3>8
  <2> QED
    BY <2>1, <2>2
<1> QED
  BY <1>2, <1>5, <1>7, <1>8, <1>13, <1>16, <1>18

\* A row of the batch writes to a block that only its sequence reads.
LEMMA OwnSlots ==
  ASSUME Inv, NEW i \in DOMAIN batch, NEW p \in Positions(batch[i])
  PROVE  LET id == batch[i].id
             b == Table(id)[BlockIndex(p)]
         IN  BlockIndex(p) <= Len(Table(id)) /\ ref_counts[b] = 1 /\ ~cached[b]
<1>1. SP!SharingInv /\ CacheInv
  BY RowsCoherent DEF Inv
<1>2. PICK id, row, k : id = batch[i].id /\ row = seqs[id].row /\ k = BlockIndex(p)
  OBVIOUS
<1>3. /\ row \in Rows /\ Table(id) = block_tables[row]
      /\ k \in 1 .. Len(block_tables[row]) /\ k <= Len(block_tables[row])
      /\ k > RowWritten[row] \/ k >= Len(RowPrompt[row])
  BY <1>2, MayWrite
<1>4. PICK b : b = block_tables[row][k]
  OBVIOUS
<1>5. Cardinality(Pool!Holders(b)) = 1 /\ ~cached[b]
  <2>1. row \in SP!Rows
    BY <1>3, SharedSets
  <2>2. SP!Cardinality(SP!Pool!Holders(block_tables[row][k])) = 1 /\ ~cached[block_tables[row][k]]
    BY <1>1, <1>3, <2>1, RowsFit, SP!OneHolder
  <2> QED
    BY <1>4, <2>2, SharedSets
<1>6. ref_counts[b] = 1
  <2>1. b \in Blocks
    BY <1>1, <1>3, <1>4, PoolFacts DEF CacheInv, PoolView
  <2>2. Pool!RefCountExact
    BY <1>1 DEF CacheInv, PoolInv, Pool!InvariantHolds
  <2> QED
    BY <1>5, <2>1, <2>2, SameSets, SameCount DEF Pool!RefCountExact
<1> QED
  BY <1>2, <1>3, <1>4, <1>5, <1>6

\* No other table entry, and no entry of the cache, is that block.
LEMMA OwnBlock ==
  ASSUME Inv, NEW i \in DOMAIN batch, NEW p \in Positions(batch[i])
  PROVE  LET row == seqs[batch[i].id].row
             b == Table(batch[i].id)[BlockIndex(p)]
         IN  /\ \A r \in Rows : \A j \in 1 .. Len(block_tables[r]) :
                  block_tables[r][j] = b => r = row /\ j = BlockIndex(p)
             /\ \A h \in DOMAIN entries : entries[h].block # b
<1>1. SP!SharingInv
  BY DEF Inv
<1>2. PICK id, row, k : id = batch[i].id /\ row = seqs[id].row /\ k = BlockIndex(p)
  OBVIOUS
<1>3. /\ row \in Rows /\ Table(id) = block_tables[row]
      /\ k \in 1 .. Len(block_tables[row])
      /\ k > RowWritten[row] \/ k >= Len(RowPrompt[row])
  BY <1>2, MayWrite
<1>4. row \in SP!Rows /\ SP!Rows = Rows
  BY <1>3, SharedSets
<1>5. /\ \A r \in Rows : \A j \in 1 .. Len(block_tables[r]) :
           block_tables[r][j] = block_tables[row][k] => r = row /\ j = k
      /\ \A h \in DOMAIN entries : entries[h].block # block_tables[row][k]
  BY <1>1, <1>3, <1>4, RowsFit, SP!WritableFacts
<1> QED
  BY <1>2, <1>3, <1>5

\* A batch can be handed to the device.
LEMMA SoundBatches == Inv => BatchSound
<1> SUFFICES ASSUME Inv PROVE BatchSound
  OBVIOUS
<1>1. Base /\ DOMAIN batch = 1 .. Len(batch)
  BY ListFacts DEF Inv
<1>2. /\ BatchRows <= RowCap
      /\ \A i, j \in DOMAIN batch : i < j /\ batch[j].decode => batch[i].decode
      /\ \A i \in DOMAIN batch :
           /\ seqs[batch[i].id].state = "RUNNING"
           /\ \A j \in DOMAIN batch : batch[j].id = batch[i].id => i = j
  BY <1>1 DEF Base, Batched
<1>3. ASSUME NEW i \in DOMAIN batch
      PROVE  \A p \in Positions(batch[i]) :
               /\ BlockIndex(p) <= Len(Table(batch[i].id))
               /\ LET b == Table(batch[i].id)[BlockIndex(p)] IN ref_counts[b] = 1 /\ ~cached[b]
  BY OwnSlots
<1> QED
  BY <1>2, <1>3 DEF BatchSound

-------------------------------------------------------------------------------
(* The theorems.                                                             *)

\* The scheduler's state is typed, whatever it is asked and however it preempts.
THEOREM SchedulerTyped == ASSUME AbortsClean PROVE Spec => []TypeOK
<1>1. Inv /\ (History /\ HistoryExact) => TypeOK
  BY TypesOf
<1> QED
  BY <1>1, SchedulerInvariant, HistoryKept, PTL

\* Every request that left was retired once, and the history holds the latest of
\* them without a gap, within its limit, whatever an overflow drops.
THEOREM HistoryCounts == ASSUME AbortsClean PROVE Spec => []HistoryExact
BY HistoryKept, PTL

\* No request and no row of the pool is lost between the lists.
THEOREM NothingLost == ASSUME AbortsClean PROVE Spec => []Accounted
BY SchedulerInvariant, AllAccounted, PTL

\* Every batch fits the staging buffers, and writes only where one sequence reads.
THEOREM BatchesSound == ASSUME AbortsClean PROVE Spec => []BatchSound
BY SchedulerInvariant, SoundBatches, PTL

\* A request that may be admitted finds a row.
THEOREM AdmissionsFindRows == ASSUME AbortsClean PROVE Spec => []AdmissionNeverBlocked
BY SchedulerInvariant, RowForHead, PTL

\* A pool of full tables never preempts, and finishes nobody early.
THEOREM FullTablesSuffice == ASSUME AbortsClean PROVE Spec => []SizedPoolSuffices
BY SchedulerInvariant, RoomSuffices, PTL

\* The pins of the pool stay the entries of the cache under the scheduler.
THEOREM SchedulerPinsAreEntries == ASSUME AbortsClean PROVE Spec => []CacheCoherent
<1>1. Inv => CacheCoherent
  BY RowsCoherent DEF Inv, CacheInv
<1> QED
  BY <1>1, SchedulerInvariant, PTL

\* The scheduler makes only the pool's own moves.
THEOREM SchedulerImplementsPool == ASSUME AbortsClean PROVE Spec => PoolSpec
<1>1. Init => Pool!Init
  BY DEF Init, CacheInit
<1>2. Inv /\ [Next]_vars => [Pool!Next]_(Pool!vars)
  BY EveryStep DEF PoolMove, pool_vars, Pool!vars
<1> QED
  BY <1>1, <1>2, SchedulerInvariant, PTL DEF Spec, PoolSpec, Pool!Spec

-------------------------------------------------------------------------------
(* The promise about requests: the steps of the scheduler are steps of       *)
(* RequestLifecycle, or are not seen by the driver.                          *)

\* Where the requests stand.
Stands == [id \in DOMAIN seqs |-> Standing(seqs[id])]
Tokens == [id \in DOMAIN seqs |-> seqs[id].generated]
Targets == [id \in DOMAIN seqs |-> Target(seqs[id])]
Standings == {"queued", "running", "yielded", "done", "aborted"}

\* What the standing of a sequence says of its state.
LEMMA StandingFacts ==
  ASSUME NEW s, s.state \in States
  PROVE  /\ Standing(s) \in Standings
         /\ Standing(s) = "queued" <=> s.state = "WAITING"
         /\ Standing(s) = "running" <=> s.state = "RUNNING"
         /\ Standing(s) = "yielded" <=> s.state = "PREEMPTED"
         /\ s.state = "FINISHED" =>
              Standing(s) = IF s.generated = Target(s) THEN "done" ELSE "aborted"
<1>1. CASE s.state = "WAITING"
  BY <1>1 DEF Standing, Standings
<1>2. CASE s.state = "RUNNING"
  BY <1>2 DEF Standing, Standings
<1>3. CASE s.state = "PREEMPTED"
  BY <1>3 DEF Standing, Standings
<1>4. CASE s.state = "FINISHED"
  BY <1>4 DEF Standing, Standings
<1> QED
  BY <1>1, <1>2, <1>3, <1>4 DEF States

\* The requests that stand somewhere.
LEMMA WhoStands ==
  ASSUME Base
  PROVE  /\ Promise!Accepted = DOMAIN seqs
         /\ Promise!Are("queued") = {id \in DOMAIN seqs : seqs[id].state = "WAITING"}
         /\ Promise!Are("running") = {id \in DOMAIN seqs : seqs[id].state = "RUNNING"}
         /\ Promise!Are("yielded") = {id \in DOMAIN seqs : seqs[id].state = "PREEMPTED"}
<1>1. Promise!Accepted = DOMAIN seqs
  BY DEF Promise!Accepted
<1>2. \A standing : Promise!Are(standing) = {id \in DOMAIN seqs : Standing(seqs[id]) = standing}
  BY <1>1 DEF Promise!Are
<1>3. \A id \in DOMAIN seqs : seqs[id].state \in States
  BY TypedFacts DEF Base, Sound
<1>4. ASSUME NEW id \in DOMAIN seqs
      PROVE  /\ Standing(seqs[id]) = "queued" <=> seqs[id].state = "WAITING"
             /\ Standing(seqs[id]) = "running" <=> seqs[id].state = "RUNNING"
             /\ Standing(seqs[id]) = "yielded" <=> seqs[id].state = "PREEMPTED"
  BY <1>3, StandingFacts
<1> QED
  BY <1>1, <1>2, <1>4

\* A step of which the driver sees nothing.
LEMMA Unseen ==
  ASSUME DOMAIN seqs' = DOMAIN seqs,
         \A id \in DOMAIN seqs : /\ Standing(seqs'[id]) = Standing(seqs[id])
                                 /\ seqs'[id].generated = seqs[id].generated
                                 /\ Target(seqs'[id]) = Target(seqs[id])
  PROVE  UNCHANGED Promise!vars
<1>1. Stands' = Stands /\ Tokens' = Tokens /\ Targets' = Targets
  BY DEF Stands, Tokens, Targets
<1> QED
  BY <1>1 DEF Promise!vars, Stands, Tokens, Targets

\* A step of one sequence that does not change how it stands.
LEMMA OneUnseen ==
  ASSUME Base, NEW id \in DOMAIN seqs, NEW S, NEW t \in Records(S),
         seqs' = [seqs EXCEPT ![id] = t],
         t.state = seqs[id].state, t.generated = seqs[id].generated,
         t.eos = seqs[id].eos, t.max_gen = seqs[id].max_gen
  PROVE  UNCHANGED Promise!vars
<1>1. DOMAIN seqs' = DOMAIN seqs /\ seqs'[id] = t
      /\ \A other \in DOMAIN seqs \ {id} : seqs'[other] = seqs[other]
  <2>1. seqs = [other \in DOMAIN seqs |-> seqs[other]]
    BY DEF Base, Typed
  <2> QED
    BY <2>1
<1>2. Target(t) = Target(seqs[id])
  BY DEF Target
<1>3. Standing(t) = Standing(seqs[id])
  BY <1>2 DEF Standing
<1> QED
  BY <1>1, <1>2, <1>3, Unseen

\* A step that changes where one sequence stands.
LEMMA OneStands ==
  ASSUME Base, NEW id \in DOMAIN seqs, DOMAIN seqs' = DOMAIN seqs,
         \A other \in DOMAIN seqs \ {id} : seqs'[other] = seqs[other],
         NEW standing, Standing(seqs'[id]) = standing,
         seqs'[id].eos = seqs[id].eos, seqs'[id].max_gen = seqs[id].max_gen
  PROVE  /\ Promise!Moves(id, standing)
         /\ Tokens' = [Tokens EXCEPT ![id] = seqs'[id].generated]
<1>1. Target(seqs'[id]) = Target(seqs[id])
  BY DEF Target
<1>2. Stands' = [Stands EXCEPT ![id] = standing]
  BY DEF Stands
<1>3. Targets' = Targets
  BY <1>1 DEF Targets
<1>4. Tokens' = [Tokens EXCEPT ![id] = seqs'[id].generated]
  BY DEF Tokens
<1> QED
  BY <1>2, <1>3, <1>4 DEF Promise!Moves, Stands, Targets

\* Cardinality is the same operator in RequestLifecycle.
LEMMA PromiseCounts == \A S : Promise!Cardinality(S) = Cardinality(S)
BY DEF Promise!Cardinality, Cardinality

\* What the running set leaves room for.
LEMMA RoomToRun ==
  ASSUME Base, Len(running) < MaxBatch, phase \in {"admit", "mount"}
  PROVE  Promise!Cardinality(Promise!Are("running")) < MaxBatch
<1>1. Promise!Are("running") = {id \in DOMAIN seqs : seqs[id].state = "RUNNING"}
  BY WhoStands
<1>2. Promise!Are("running") \subseteq Range(running)
  <2> SUFFICES ASSUME NEW id \in DOMAIN seqs, seqs[id].state = "RUNNING"
               PROVE  id \in Range(running)
    BY <1>1
  <2>1. id \in Live
    BY DEF Base, Queues
  <2>2. id \notin Range(waiting)
    BY DEF Base, Queues
  <2> QED
    BY <2>1, <2>2 DEF Live
<1>3. /\ IsFiniteSet(Range(running)) /\ Cardinality(Range(running)) \in Nat
      /\ Cardinality(Range(running)) <= Len(running) /\ Len(running) \in Nat
  BY ListFacts, RangeCount
<1>4. /\ Cardinality(Promise!Are("running")) <= Cardinality(Range(running))
      /\ Cardinality(Promise!Are("running")) \in Nat
  BY <1>2, <1>3, FS_Subset, FS_CardinalityType
<1> QED
  BY <1>3, <1>4, PromiseCounts, Sizes

\* Nobody else waits in front of a fresh request at the head of the queue.
LEMMA FirstComes ==
  ASSUME Base, phase = "mount", NEW id, id = Head(waiting)
  PROVE  /\ id \in DOMAIN seqs /\ seqs[id].state = "WAITING"
         /\ \A other \in DOMAIN seqs : seqs[other].state = "WAITING" => id <= other
         /\ \A other \in DOMAIN seqs : seqs[other].state # "PREEMPTED"
<1>1. /\ waiting # <<>> /\ seqs[id].state = "WAITING" /\ waiting \in Seq(Nat)
      /\ Range(waiting) \subseteq DOMAIN seqs
  BY ListFacts DEF Base, Queues
<1>2. id = waiting[1] /\ id \in Range(waiting) /\ Len(waiting) \in Nat /\ Len(waiting) > 0
  BY <1>1, Headed
<1>3. 1 \in 1 .. Len(waiting) /\ id \in Nat
  BY <1>1, <1>2
<1>4. ASSUME NEW other \in DOMAIN seqs, seqs[other].state \in {"WAITING", "PREEMPTED"}
      PROVE  \E j \in 1 .. Len(waiting) : waiting[j] = other
  <2>1. other \in Live
    BY <1>4 DEF Base, Queues
  <2>2. other \notin Range(running)
    BY <1>4 DEF Base, Queues
  <2>3. other \in Range(waiting)
    BY <2>1, <2>2 DEF Live
  <2> QED
    BY <1>1, <2>3 DEF Range
<1>5. ASSUME NEW other \in DOMAIN seqs, seqs[other].state = "WAITING" PROVE id <= other
  <2>1. PICK j \in 1 .. Len(waiting) : waiting[j] = other
    BY <1>4, <1>5
  <2>2. CASE j = 1
    BY <1>2, <1>3, <2>1, <2>2
  <2>3. CASE j # 1
    <3>1. waiting[1] < waiting[j]
      BY <1>1, <1>2, <1>3, <2>3 DEF Base, Ordered
    <3>2. other \in Nat
      BY <1>1, <2>1
    <3> QED
      BY <1>2, <1>3, <2>1, <3>1, <3>2
  <2> QED
    BY <2>2, <2>3
<1>6. ASSUME NEW other \in DOMAIN seqs PROVE seqs[other].state # "PREEMPTED"
  <2> SUFFICES ASSUME seqs[other].state = "PREEMPTED" PROVE FALSE
    OBVIOUS
  <2>1. PICK j \in 1 .. Len(waiting) : waiting[j] = other
    BY <1>4
  <2>2. j # 1
    BY <1>1, <1>2, <2>1
  <2>3. seqs[waiting[1]].state = "PREEMPTED"
    BY <1>3, <2>1, <2>2 DEF Base, Ordered
  <2> QED
    BY <1>1, <1>2, <2>3
<1> QED
  BY <1>1, <1>2, <1>5, <1>6

\* A new request is submitted, or turned away.
LEMMA SubmitStep ==
  ASSUME Base, NEW request \in Requests, AddRequest(request.prompt, request.eos)
  PROVE  Promise!Next \/ UNCHANGED Promise!vars
<1>1. CASE seqs' = seqs
  BY <1>1, Unseen
<1>2. CASE /\ Len(request.prompt) \in 1 .. MaxSeqLen - 1
           /\ seqs' = [id \in DOMAIN seqs \cup {next_seq_id} |->
                         IF id = next_seq_id THEN NewSequence(request.prompt, request.eos)
                                             ELSE seqs[id]]
  <2>1. PICK t : t = NewSequence(request.prompt, request.eos)
    OBVIOUS
  <2>2. /\ t \in Records({}) /\ t.state = "WAITING" /\ t.generated = 0
    BY <1>2, <2>1, NewFacts
  <2>3. PICK new : new = next_seq_id
    OBVIOUS
  <2>4. /\ new \in Nat /\ new < MaxRequests /\ new \notin DOMAIN seqs
        /\ \A id \in DOMAIN seqs : id < new
    BY <2>3 DEF Base, Typed, AddRequest
  <2>5. /\ DOMAIN seqs' = DOMAIN seqs \cup {new} /\ seqs'[new] = t
        /\ \A id \in DOMAIN seqs : seqs'[id] = seqs[id]
    BY <1>2, <2>1, <2>3, <2>4
  <2>6. Standing(t) = "queued" /\ Target(t) \in 1 .. MaxGenLen
    BY <2>2, StandingFacts, RecordFacts DEF States
  <2>7. /\ Stands' = Promise!With(Stands, new, "queued")
        /\ Tokens' = Promise!With(Tokens, new, 0)
        /\ Targets' = Promise!With(Targets, new, Target(t))
    BY <2>2, <2>4, <2>5, <2>6 DEF Promise!With, Stands, Tokens, Targets
  <2>8. Promise!Submit(new, Target(t))
    BY <2>4, <2>7 DEF Promise!Submit, Promise!Accepted, Stands, Tokens, Targets
  <2>9. new \in 0 .. MaxRequests - 1
    BY <2>4, SchedulerSizes
  <2> QED
    BY <2>6, <2>8, <2>9 DEF Promise!Next
<1> QED
  BY <1>1, <1>2 DEF AddRequest

\* A sequence that had yielded resumes.
LEMMA ResumeStep ==
  ASSUME Base, Resume
  PROVE  Promise!Next
<1>1. PICK id : id = Head(waiting)
  OBVIOUS
<1>2. /\ phase = "admit" /\ waiting # <<>> /\ Len(running) < MaxBatch
      /\ seqs[id].state = "PREEMPTED" /\ seqs' = [seqs EXCEPT ![id].state = "RUNNING"]
  BY <1>1 DEF Resume, MayAdmit
<1>3. id \in DOMAIN seqs
  BY <1>1, <1>2, ListFacts, Headed
<1>4. PICK S : seqs \in [DOMAIN seqs -> Records(S)]
  BY DEF Base, Typed
<1>5. PICK s \in Records(S) : s = seqs[id]
  BY <1>3, <1>4
<1>6. PICK t : t = [s EXCEPT !.state = "RUNNING"]
  OBVIOUS
<1>7. /\ t \in Records(S) /\ t.state = "RUNNING" /\ t.eos = s.eos /\ t.max_gen = s.max_gen
      /\ t.generated = s.generated
  BY <1>6 DEF Records, States
<1>8. seqs' = [seqs EXCEPT ![id] = t]
  BY <1>2, <1>5, <1>6
<1>9. /\ DOMAIN seqs' = DOMAIN seqs /\ seqs'[id] = t
      /\ \A other \in DOMAIN seqs \ {id} : seqs'[other] = seqs[other]
  BY <1>3, <1>4, <1>7, <1>8, SeqsUpdated
<1>10. Standing(t) = "running"
  BY <1>7, StandingFacts DEF States
<1>11. Promise!Moves(id, "running") /\ Tokens' = [Tokens EXCEPT ![id] = s.generated]
  BY <1>3, <1>5, <1>7, <1>9, <1>10, OneStands
<1>12. Tokens' = Tokens
  BY <1>3, <1>5, <1>11 DEF Tokens
<1>13. Promise!Resume(id)
  BY <1>2, <1>3, <1>11, <1>12, WhoStands, RoomToRun DEF Promise!Resume, Tokens
<1> QED
  BY <1>3, <1>13, WhoStands DEF Promise!Next

\* A request is admitted.
LEMMA AdmitStep ==
  ASSUME Base, MountPrefix
  PROVE  Promise!Next
<1>1. PICK id : id = Head(waiting)
  OBVIOUS
<1>2. PICK chain : seqs' = [seqs EXCEPT ![id].state = "RUNNING",
                               ![id].blocks = Len(chain),
                               ![id].prefilled = Min({Len(chain) * BlockSize, Len(seqs[id].prompt)})]
  BY <1>1 DEF MountPrefix
<1>3. phase = "mount" /\ Len(running) < MaxBatch
  BY DEF MountPrefix, Base, Queues
<1>4. /\ id \in DOMAIN seqs /\ seqs[id].state = "WAITING"
      /\ \A other \in DOMAIN seqs : seqs[other].state = "WAITING" => id <= other
      /\ \A other \in DOMAIN seqs : seqs[other].state # "PREEMPTED"
  BY <1>1, <1>3, FirstComes
<1>5. PICK S : seqs \in [DOMAIN seqs -> Records(S)]
  BY DEF Base, Typed
<1>6. PICK s \in Records(S) : s = seqs[id]
  BY <1>4, <1>5
<1>7. PICK n, p : n = Len(chain) /\ p = Min({Len(chain) * BlockSize, Len(seqs[id].prompt)})
  OBVIOUS
<1>8. PICK t : t = [s EXCEPT !.state = "RUNNING", !.blocks = n, !.prefilled = p]
  OBVIOUS
<1>9. /\ t.state = "RUNNING" /\ t.eos = s.eos /\ t.max_gen = s.max_gen /\ t.generated = s.generated
  BY <1>8 DEF Records
<1>10. seqs' = [seqs EXCEPT ![id] = t]
  BY <1>2, <1>4, <1>6, <1>7, <1>8
<1>11. /\ DOMAIN seqs' = DOMAIN seqs /\ seqs'[id] = t
       /\ \A other \in DOMAIN seqs \ {id} : seqs'[other] = seqs[other]
  BY <1>4, <1>10
<1>12. Standing(t) = "running"
  BY <1>9, StandingFacts DEF States
<1>13. Promise!Moves(id, "running") /\ Tokens' = [Tokens EXCEPT ![id] = s.generated]
  BY <1>4, <1>6, <1>9, <1>11, <1>12, OneStands
<1>14. Tokens' = Tokens
  BY <1>4, <1>6, <1>13 DEF Tokens
<1>15. Promise!Admit(id)
  BY <1>3, <1>4, <1>13, <1>14, WhoStands, RoomToRun DEF Promise!Admit, Tokens
<1> QED
  BY <1>4, <1>15, WhoStands DEF Promise!Next

\* Each decode row of a batch gives its request one token.
LEMMA GenerateStep ==
  ASSUME Base, Forward
  PROVE  Promise!Next \/ UNCHANGED Promise!vars
<1>1. \A id \in DOMAIN seqs :
        /\ seqs'[id].state = seqs[id].state /\ seqs'[id].max_gen = seqs[id].max_gen
        /\ seqs'[id].eos = seqs[id].eos
        /\ \/ seqs'[id] = seqs[id]
           \/ /\ id \in Range(running) /\ seqs[id].state = "RUNNING"
              /\ seqs[id].generated < Target(seqs[id])
              /\ seqs'[id].generated = seqs[id].generated + 1
  BY ForwardKeeps
<1>2. DOMAIN seqs' = DOMAIN seqs
  BY DEF Forward
<1>3. PICK ids : ids = {id \in DOMAIN seqs : seqs'[id] # seqs[id]}
  OBVIOUS
<1>4. \A id \in DOMAIN seqs : seqs[id].generated \in Nat
  BY TypedFacts DEF Base, Sound
<1>5. \A id \in ids : /\ id \in DOMAIN seqs /\ seqs[id].state = "RUNNING"
                      /\ seqs[id].generated < Target(seqs[id])
                      /\ seqs'[id].generated = seqs[id].generated + 1
  BY <1>1, <1>3
<1>6. \A id \in DOMAIN seqs : Target(seqs'[id]) = Target(seqs[id])
  BY <1>1 DEF Target
<1>7. ASSUME NEW id \in DOMAIN seqs PROVE Standing(seqs'[id]) = Standing(seqs[id])
  <2>1. CASE id \in ids
    <3>1. seqs'[id].state = "RUNNING" /\ seqs[id].state = "RUNNING"
      BY <1>1, <1>5, <2>1
    <3> QED
      BY <3>1, StandingFacts DEF States
  <2>2. CASE id \notin ids
    BY <1>3, <2>2
  <2> QED
    BY <2>1, <2>2
<1>8. Stands' = Stands /\ Targets' = Targets
  BY <1>2, <1>6, <1>7 DEF Stands, Targets
<1>9. Tokens' = [id \in DOMAIN seqs |-> Tokens[id] + (IF id \in ids THEN 1 ELSE 0)]
  <2>1. ASSUME NEW id \in DOMAIN seqs
        PROVE  seqs'[id].generated = seqs[id].generated + (IF id \in ids THEN 1 ELSE 0)
    BY <1>3, <1>4, <1>5
  <2> QED
    BY <1>2, <2>1 DEF Tokens
<1>10. CASE ids = {}
  BY <1>2, <1>3, <1>10, Unseen
<1>11. CASE ids # {}
  <2>1. \A id \in ids : Tokens[id] < Targets[id]
    BY <1>5 DEF Tokens, Targets
  <2>2. Promise!Generate(ids)
    BY <1>8, <1>9, <1>11, <2>1 DEF Promise!Generate, Promise!Accepted, Stands, Tokens, Targets
  <2>3. ids \in SUBSET Promise!Are("running")
    BY <1>5, WhoStands
  <2> QED
    BY <2>2, <2>3 DEF Promise!Next
<1> QED
  BY <1>10, <1>11

\* A victim yields, and keeps no more tokens than it had.
LEMMA YieldStep ==
  ASSUME Base, Preempt
  PROVE  Promise!Next
<1>1. PICK id, keep : id = Head(victims)[1] /\ keep = Head(victims)[2]
  OBVIOUS
<1>2. victims # <<>> /\ seqs' = [seqs EXCEPT ![id] = Truncated(@, keep)]
  BY <1>1 DEF Preempt
<1>3. AtSequence /\ phase \in Passes
  BY <1>2 DEF Base, Planned, AtSequence
<1>4. /\ id \in Range(running) /\ seqs[id].state = "RUNNING" /\ id # Head(Serving)
      /\ keep \in 1 .. seqs[id].blocks - 1
  <2>1. PICK list : list = victims
    OBVIOUS
  <2>2. list \in Seq(Nat \X Nat) /\ list # <<>>
    BY <1>2, <2>1, ListFacts
  <2>3. 1 \in 1 .. Len(list) /\ Head(list) = list[1]
    BY <2>2
  <2>4. 1 \in 1 .. Len(victims) /\ id = victims[1][1] /\ keep = victims[1][2]
    BY <1>1, <2>1, <2>3
  <2> QED
    BY <2>4 DEF Base, Planned
<1>5. id \in DOMAIN seqs /\ id \in Live
  BY <1>4, ListFacts
<1>6. PICK S : seqs \in [DOMAIN seqs -> Records(S)]
  BY DEF Base, Typed
<1>7. PICK s \in Records(S) : s = seqs[id]
  BY <1>5, <1>6
<1>8. /\ s.prefilled <= NumPrompt(s) /\ (s.generated > 0 => Complete(s)) /\ s.generated < Target(s)
      /\ Len(s.chain) * BlockSize <= s.prefilled
  BY <1>3, <1>4, <1>5, <1>7 DEF Base, Measured, Passes
<1>9. ~Complete(s) => s.blocks * BlockSize <= s.prefilled + BlockSize
  <2>1. ~Served(id)
    BY <1>4 DEF Served
  <2> QED
    BY <1>4, <1>5, <1>7, <2>1, ProvidedFacts
<1>10. PICK t : t = Truncated(s, keep)
  OBVIOUS
<1>11. /\ t \in Records(S) /\ t.eos = s.eos /\ t.max_gen = s.max_gen /\ t.state = "PREEMPTED"
       /\ t.generated \in Nat /\ t.generated <= s.generated
  <2>1. keep \in 1 .. s.blocks - 1
    BY <1>4, <1>7
  <2> QED
    BY <1>7, <1>8, <1>9, <1>10, <2>1, TruncatedFacts
<1>12. seqs' = [seqs EXCEPT ![id] = t]
  BY <1>2, <1>7, <1>10
<1>13. /\ DOMAIN seqs' = DOMAIN seqs /\ seqs'[id] = t
       /\ \A other \in DOMAIN seqs \ {id} : seqs'[other] = seqs[other]
  BY <1>5, <1>6, <1>11, <1>12, SeqsUpdated
<1>14. Standing(t) = "yielded"
  BY <1>11, StandingFacts DEF States
<1>15. Promise!Moves(id, "yielded") /\ Tokens' = [Tokens EXCEPT ![id] = t.generated]
  BY <1>5, <1>7, <1>11, <1>13, <1>14, OneStands
<1>16. t.generated <= Tokens[id]
  BY <1>5, <1>7, <1>11 DEF Tokens
<1>17. id \in Promise!Are("running")
  BY <1>4, <1>5, WhoStands
<1>18. Promise!Yield(id, t.generated)
  BY <1>15, <1>16, <1>17 DEF Promise!Yield, Tokens
<1>19. t.generated \in {0} \cup 1 .. MaxGenLen
  <2>1. Target(s) \in 1 .. MaxGenLen /\ s.generated \in Nat
    BY RecordFacts
  <2>2. MaxGenLen \in Nat
    BY Sizes
  <2> QED
    BY <1>8, <1>11, <2>1, <2>2
<1> QED
  BY <1>5, <1>18, <1>19, WhoStands DEF Promise!Next

\* A request that ends is done or was aborted; one that a build pass had given
\* up already ended then.
LEMMA EndStep ==
  ASSUME Base, NEW id \in DOMAIN seqs, seqs' = [seqs EXCEPT ![id].state = "FINISHED"],
         seqs[id].state \in {"RUNNING", "PREEMPTED", "FINISHED"},
         seqs[id].state # "FINISHED" =>
           \/ seqs[id].generated = Target(seqs[id]) /\ seqs[id].state = "RUNNING"
           \/ seqs[id].generated < Target(seqs[id]) /\ (ForwardMayFail \/ ~Roomy)
  PROVE  Promise!Next \/ UNCHANGED Promise!vars
<1>1. PICK S : seqs \in [DOMAIN seqs -> Records(S)]
  BY DEF Base, Typed
<1>2. PICK s \in Records(S) : s = seqs[id]
  BY <1>1
<1>3. PICK t : t = [s EXCEPT !.state = "FINISHED"]
  OBVIOUS
<1>4. /\ t \in Records(S) /\ t.state = "FINISHED" /\ t.eos = s.eos /\ t.max_gen = s.max_gen
      /\ t.generated = s.generated
  BY <1>3 DEF Records, States
<1>5. seqs' = [seqs EXCEPT ![id] = t]
  BY <1>2, <1>3
<1>6. CASE s.state = "FINISHED"
  BY <1>2, <1>4, <1>5, <1>6, OneUnseen
<1>7. CASE s.state # "FINISHED"
  <2>1. /\ DOMAIN seqs' = DOMAIN seqs /\ seqs'[id] = t
        /\ \A other \in DOMAIN seqs \ {id} : seqs'[other] = seqs[other]
    BY <1>1, <1>4, <1>5, SeqsUpdated
  <2>2. Target(t) = Target(s) /\ Target(s) \in Int /\ s.generated \in Int
    BY <1>4, RecordFacts DEF Target
  <2>3. Standing(t) = IF s.generated = Target(s) THEN "done" ELSE "aborted"
    BY <1>4, <2>2, StandingFacts DEF States
  <2>4. /\ Promise!Moves(id, Standing(t)) /\ Tokens' = [Tokens EXCEPT ![id] = s.generated]
    BY <1>2, <1>4, <2>1, OneStands
  <2>5. Tokens' = Tokens
    BY <1>2, <2>4 DEF Tokens
  <2>6. CASE s.generated = Target(s) /\ s.state = "RUNNING"
    <3>1. Promise!Complete(id)
      BY <1>2, <2>3, <2>4, <2>5, <2>6, WhoStands DEF Promise!Complete, Tokens, Targets
    <3> QED
      BY <3>1, WhoStands DEF Promise!Next
  <2>7. CASE s.generated < Target(s) /\ (ForwardMayFail \/ ~Roomy)
    <3>1. NumBlocks \in Int /\ NumRows * MaxBlocksPerSeq \in Int
      BY Sizes
    <3>2. ForwardMayFail \/ NumBlocks < NumRows * MaxBlocksPerSeq
      BY <2>7, <3>1 DEF Roomy
    <3>3. Standing(t) = "aborted"
      BY <2>2, <2>3, <2>7
    <3>4. id \in Promise!Are("running") \cup Promise!Are("yielded")
      BY <1>2, <1>7, WhoStands
    <3>5. Promise!Abort(id)
      BY <1>2, <2>4, <2>5, <2>7, <3>2, <3>3, <3>4 DEF Promise!Abort, Tokens, Targets
    <3> QED
      BY <3>5, WhoStands DEF Promise!Next
  <2> QED
    BY <1>2, <1>7, <2>6, <2>7
<1> QED
  BY <1>6, <1>7

\* A sequence is force-finished, leaves after a failed pass, or leaves as done.
LEMMA EndSteps ==
  ASSUME Base, CacheInv, ForceFinish \/ AbortOne \/ RetireDone
  PROVE  Promise!Next \/ UNCHANGED Promise!vars
<1>1. \A id \in Range(running) : id \in DOMAIN seqs /\ seqs[id].state # "WAITING"
                                 /\ Sound(seqs[id])
  BY ListFacts, TypedFacts DEF Base, Queues
<1>2. CASE ForceFinish
  <2>1. PICK id : id = Head(Serving)
    OBVIOUS
  <2>2. AtSequence /\ phase \in Passes /\ seqs' = [seqs EXCEPT ![id].state = "FINISHED"]
    BY <1>2, <2>1 DEF ForceFinish, Building, AtSequence, Passes
  <2>3. id \in DOMAIN seqs /\ seqs[id].state = "RUNNING"
    BY <2>1, <2>2, ServedFacts DEF Base
  <2>4. seqs[id].generated < Target(seqs[id])
    BY <2>2, <2>3 DEF Base, Measured, Passes
  <2>5. ~Roomy
    BY <1>2, ForceFinishKeeps
  <2> QED
    BY <2>2, <2>3, <2>4, <2>5, EndStep
<1>3. CASE AbortOne
  <2>1. PICK id : id = Head(Unfinished)
    OBVIOUS
  <2>2. /\ phase = "abort" /\ seqs' = [seqs EXCEPT ![id].state = "FINISHED"]
        /\ id \in Range(running) /\ seqs[id].state # "FINISHED"
    BY <1>3, <2>1, Leaving DEF AbortOne, Retire
  <2>3. ForwardMayFail
    BY <2>2 DEF Base, Aborting
  <2>4. id \in DOMAIN seqs /\ seqs[id].state \in {"RUNNING", "PREEMPTED"}
    BY <1>1, <2>2 DEF Sound, States
  <2>5. seqs[id].generated < Target(seqs[id])
    BY <2>2, <2>4 DEF Base, Measured
  <2> QED
    BY <2>2, <2>3, <2>4, <2>5, EndStep
<1>4. CASE RetireDone
  <2>1. PICK id : id = Head(DoneSequences)
    OBVIOUS
  <2>2. /\ phase = "update" /\ seqs' = [seqs EXCEPT ![id].state = "FINISHED"]
        /\ id \in Range(running) /\ Done(seqs[id])
    BY <1>4, <2>1, Leaving DEF RetireDone, Retire
  <2>3. PICK s : s = seqs[id]
    OBVIOUS
  <2>4. id \in DOMAIN seqs /\ s.state \in {"RUNNING", "PREEMPTED", "FINISHED"}
    BY <1>1, <2>2, <2>3 DEF Sound, States
  <2>5. /\ s.generated \in Nat /\ s.max_gen \in Nat /\ s.eos \in Nat /\ Target(s) \in Nat
        /\ Target(s) <= s.max_gen /\ Target(s) <= s.eos /\ s.generated <= Target(s)
        /\ s.state = "PREEMPTED" => s.generated < Target(s)
    BY <1>1, <2>2, <2>3, <2>4 DEF Base, Measured, Sound
  <2>6. s.state # "FINISHED" => s.generated = Target(s)
    BY <2>2, <2>3, <2>5 DEF Done
  <2>7. s.state # "FINISHED" => s.generated = Target(s) /\ s.state = "RUNNING"
    BY <2>4, <2>5, <2>6
  <2> QED
    BY <2>2, <2>3, <2>4, <2>7, EndStep
<1> QED
  BY <1>2, <1>3, <1>4

\* Steps that only move blocks.
LEMMA BlocksOnly ==
  ASSUME Base, ClaimRow \/ Grow \/ PlaceDecode \/ PlaceChunk \/ PlaceShrunkChunk \/ RecordBlock
  PROVE  UNCHANGED Promise!vars
<1>1. PICK S : seqs \in [DOMAIN seqs -> Records(S)]
  BY DEF Base, Typed
<1>2. ASSUME NEW id \in DOMAIN seqs,
             \/ \E row : seqs' = [seqs EXCEPT ![id].row = row]
             \/ seqs' = [seqs EXCEPT ![id].blocks = @ + 1]
             \/ \E len : seqs' = [seqs EXCEPT ![id].prefilled = @ + len]
             \/ \E h : seqs' = [seqs EXCEPT ![id].chain = Append(@, h)]
      PROVE  UNCHANGED Promise!vars
  <2>1. PICK s \in Records(S) : s = seqs[id]
    BY <1>1
  <2>2. \E t : /\ seqs' = [seqs EXCEPT ![id] = t] /\ t.state = s.state
               /\ t.generated = s.generated /\ t.eos = s.eos /\ t.max_gen = s.max_gen
    <3>1. ASSUME NEW row PROVE LET t == [s EXCEPT !.row = row]
                               IN  /\ t.state = s.state /\ t.generated = s.generated
                                   /\ t.eos = s.eos /\ t.max_gen = s.max_gen
      BY DEF Records
    <3>2. ASSUME NEW n PROVE LET t == [s EXCEPT !.blocks = n]
                             IN  /\ t.state = s.state /\ t.generated = s.generated
                                 /\ t.eos = s.eos /\ t.max_gen = s.max_gen
      BY DEF Records
    <3>3. ASSUME NEW n PROVE LET t == [s EXCEPT !.prefilled = n]
                             IN  /\ t.state = s.state /\ t.generated = s.generated
                                 /\ t.eos = s.eos /\ t.max_gen = s.max_gen
      BY DEF Records
    <3>4. ASSUME NEW c PROVE LET t == [s EXCEPT !.chain = c]
                             IN  /\ t.state = s.state /\ t.generated = s.generated
                                 /\ t.eos = s.eos /\ t.max_gen = s.max_gen
      BY DEF Records
    <3>5. CASE \E row : seqs' = [seqs EXCEPT ![id].row = row]
      <4>1. PICK row : seqs' = [seqs EXCEPT ![id] = [s EXCEPT !.row = row]]
        BY <2>1, <3>5
      <4> QED
        BY <3>1, <4>1
    <3>6. CASE seqs' = [seqs EXCEPT ![id].blocks = @ + 1]
      <4>1. seqs' = [seqs EXCEPT ![id] = [s EXCEPT !.blocks = s.blocks + 1]]
        BY <2>1, <3>6
      <4> QED
        BY <3>2, <4>1
    <3>7. CASE \E len : seqs' = [seqs EXCEPT ![id].prefilled = @ + len]
      <4>1. PICK len : seqs' = [seqs EXCEPT ![id] = [s EXCEPT !.prefilled = s.prefilled + len]]
        BY <2>1, <3>7
      <4> QED
        BY <3>3, <4>1
    <3>8. CASE \E h : seqs' = [seqs EXCEPT ![id].chain = Append(@, h)]
      <4>1. PICK h : seqs' = [seqs EXCEPT ![id] = [s EXCEPT !.chain = Append(s.chain, h)]]
        BY <2>1, <3>8
      <4> QED
        BY <3>4, <4>1
    <3> QED
      BY <1>2, <3>5, <3>6, <3>7, <3>8
  <2>3. PICK t : /\ seqs' = [seqs EXCEPT ![id] = t] /\ t.state = s.state
                 /\ t.generated = s.generated /\ t.eos = s.eos /\ t.max_gen = s.max_gen
    BY <2>2
  <2>4. Target(t) = Target(s)
    BY <2>3 DEF Target
  <2>5. Standing(t) = Standing(s)
    BY <2>3, <2>4 DEF Standing
  <2>6. DOMAIN seqs' = DOMAIN seqs /\ seqs'[id] = t
        /\ \A other \in DOMAIN seqs \ {id} : seqs'[other] = seqs[other]
    BY <1>1, <2>3
  <2> QED
    BY <2>1, <2>3, <2>4, <2>5, <2>6, Unseen
<1>3. CASE ClaimRow
  <2>1. Head(waiting) \in DOMAIN seqs
    BY <1>3, ListFacts, Headed DEF ClaimRow, MayAdmit
  <2> QED
    BY <1>2, <1>3, <2>1 DEF ClaimRow
<1>4. CASE Grow \/ PlaceDecode \/ PlaceChunk \/ PlaceShrunkChunk
  <2>1. AtSequence
    BY <1>4 DEF Grow, PlaceDecode, PlaceChunk, PlaceShrunkChunk, Building, AtSequence, Passes
  <2>2. Head(Serving) \in DOMAIN seqs
    BY <2>1, ServedFacts DEF Base
  <2>3. CASE Grow
    BY <1>2, <2>2, <2>3 DEF Grow
  <2>4. CASE PlaceDecode \/ PlaceChunk \/ PlaceShrunkChunk
    <3>1. seqs' = seqs \/ \E len : seqs' = [seqs EXCEPT ![Head(Serving)].prefilled = @ + len]
      BY <2>4 DEF PlaceDecode, PlaceChunk, PlaceShrunkChunk, Place
    <3>2. seqs' = seqs => UNCHANGED Promise!vars
      BY Unseen
    <3> QED
      BY <1>2, <2>2, <3>1, <3>2
  <2> QED
    BY <1>4, <2>3, <2>4
<1>5. CASE RecordBlock
  <2>1. Unrecorded # <<>> => Head(Unrecorded) \in Range(running)
    <3>1. ASSUME NEW keep
          PROVE  Filtered(running, keep) # <<>> =>
                   Head(Filtered(running, keep)) \in Range(running) \cap keep
      BY ListFacts, FilteredFacts
    <3> QED
      BY <3>1 DEF Unrecorded
  <2>2. Head(Unrecorded) \in DOMAIN seqs
    BY <1>5, <2>1, ListFacts DEF RecordBlock
  <2> QED
    BY <1>2, <1>5, <2>2 DEF RecordBlock
<1> QED
  BY <1>3, <1>4, <1>5

\* Every step of the scheduler is one of the promise, or is not seen.
LEMMA PromisedStep ==
  ASSUME Inv, [Next]_vars
  PROVE  Promise!Next \/ UNCHANGED Promise!vars
<1>1. Base /\ CacheInv
  BY RowsCoherent DEF Inv
<1>2. CASE \E request \in Requests : AddRequest(request.prompt, request.eos)
  BY <1>1, <1>2, SubmitStep
<1>3. CASE Resume \/ MountPrefix
  BY <1>1, <1>3, ResumeStep, AdmitStep
<1>4. CASE ClaimRow \/ Grow \/ PlaceDecode \/ PlaceChunk \/ PlaceShrunkChunk \/ RecordBlock
  BY <1>1, <1>4, BlocksOnly
<1>5. CASE Preempt
  BY <1>1, <1>5, YieldStep
<1>6. CASE ForceFinish \/ AbortOne \/ RetireDone
  BY <1>1, <1>6, EndSteps
<1>7. CASE Forward
  BY <1>1, <1>7, GenerateStep
<1>8. CASE \/ BeginStep \/ EndAdmission \/ PlanPreemption \/ EndDecodeRows \/ EndPrefillRows
           \/ ForwardFails \/ EndAbort \/ EndRecord \/ EndUpdate \/ FlushPreempted
           \/ UNCHANGED vars
  <2>1. seqs' = seqs
    BY <1>8 DEF BeginStep, EndAdmission, PlanPreemption, EndDecodeRows, EndPrefillRows,
                ForwardFails, EndAbort, EndRecord, EndUpdate, FlushPreempted, vars
  <2> QED
    BY <2>1, Unseen
<1> QED
  BY <1>2, <1>3, <1>4, <1>5, <1>6, <1>7, <1>8
     DEF Next, Step, Admission, BuildBatch, Execution, AfterBatch

\* The scheduler keeps its promise: requests start first come first served,
\* those set back before any new one, and complete with exactly their tokens.
THEOREM LifecycleKept == ASSUME AbortsClean PROVE Spec => Lifecycle
<1>1. Init => Promise!Init
  <2> SUFFICES ASSUME Init PROVE Promise!Init
    OBVIOUS
  <2>1. DOMAIN seqs = {}
    BY DEF Init
  <2> QED
    BY <2>1 DEF Promise!Init
<1>2. Inv /\ [Next]_vars => [Promise!Next]_(Promise!vars)
  BY PromisedStep
<1> QED
  BY <1>1, <1>2, SchedulerInvariant, PTL DEF Spec, Lifecycle, Promise!Spec

-------------------------------------------------------------------------------
(* What a sequence reads.                                                    *)

\* Positions of a sequence that forward passes have been over.
Held(id) ==
  IF Committed(id) >= NumPrompt(seqs[id])
    THEN NumPrompt(seqs[id]) + (IF seqs[id].generated = 0 THEN 0 ELSE seqs[id].generated - 1)
    ELSE Committed(id)

\* A sequence has blocks for them, and tokens behind its prompt only once all of
\* the prompt is written.
Reaches(id) ==
  /\ Held(id) <= seqs[id].blocks * BlockSize
  /\ Committed(id) < NumPrompt(seqs[id]) => seqs[id].generated = 0

\* And finds its own KV there.
OwnKV(id) ==
  \A p \in Nat : p < Held(id) =>
    kv[block_tables[seqs[id].row][BlockIndex(p)]][p % BlockSize] = Context(seqs[id].prompt, p)

\* What every sequence with a row reads, unless its chunk was lost with a
\* failed pass: then it is about to be dropped.
KVHeld == phase # "abort" => \A id \in Live : seqs[id].row # -1 => Reaches(id) /\ OwnKV(id)

\* Slots hold block i of a prompt.
Holds(slots, prompt, i) ==
  \A p \in Nat : (i - 1) * BlockSize <= p /\ p < i * BlockSize =>
    slots[p % BlockSize] = Context(prompt, p)

\* An entry's block holds what any prompt that looks it up would find there.
EntriesHold ==
  \A h \in DOMAIN entries : \A prompt \in {q.prompt : q \in Accepted} :
    \A i \in 1 .. Cacheable(Paged(prompt)) :
      SP!IsHashOf(h, Paged(prompt), i) => Holds(kv[entries[h].block], prompt, i)

KVInv == KVHeld /\ EntriesHold

\* The same number of tokens, however Held writes it.
LEMMA HeldCounts ==
  ASSUME Base, NEW id \in Live
  PROVE  /\ Sound(seqs[id]) /\ Committed(id) \in Nat /\ Held(id) \in Nat
         /\ Committed(id) <= seqs[id].prefilled /\ seqs[id].prefilled <= NumPrompt(seqs[id])
         /\ Committed(id) <= Held(id)
         /\ id \in DOMAIN seqs
<1>1. Sound(seqs[id]) /\ id \in DOMAIN seqs
  BY ProvidedFacts
<1>2. Committed(id) \in Nat /\ Committed(id) <= seqs[id].prefilled
  BY CommittedFacts
<1>3. seqs[id].prefilled <= NumPrompt(seqs[id])
  BY <1>1 DEF Base, Measured
<1>4. /\ seqs[id].prefilled \in Nat /\ NumPrompt(seqs[id]) \in Nat /\ seqs[id].generated \in Nat
  BY <1>1 DEF Sound
<1> QED
  BY <1>1, <1>2, <1>3, <1>4 DEF Held

\* The same after a step.
LEMMA HeldCountsNext ==
  Base' => \A id \in Live' :
             /\ Sound(seqs'[id]) /\ Committed(id)' \in Nat /\ Held(id)' \in Nat
             /\ Committed(id)' <= seqs'[id].prefilled /\ seqs'[id].prefilled <= NumPrompt(seqs'[id])
             /\ Committed(id)' <= Held(id)'
             /\ id \in DOMAIN seqs'
<1> DEFINE P == \A id \in Live :
                  /\ Sound(seqs[id]) /\ Committed(id) \in Nat /\ Held(id) \in Nat
                  /\ Committed(id) <= seqs[id].prefilled /\ seqs[id].prefilled <= NumPrompt(seqs[id])
                  /\ Committed(id) <= Held(id)
                  /\ id \in DOMAIN seqs
<1>1. Base => P
  BY HeldCounts
<1>2. (Base => P)'
  BY <1>1, PTL
<1> QED
  BY <1>2

\* A position within the first m blocks.
LEMMA InTable ==
  ASSUME NEW p \in Nat, NEW m \in Nat
  PROVE  /\ BlockIndex(p) \in Nat /\ BlockIndex(p) >= 1
         /\ p < m * BlockSize => BlockIndex(p) \in 1 .. m
         /\ (BlockIndex(p) - 1) * BlockSize <= p /\ p < BlockIndex(p) * BlockSize
         /\ p % BlockSize \in Slots /\ p = (BlockIndex(p) - 1) * BlockSize + (p % BlockSize)
<1>1. BlockSize \in Nat \ {0}
  BY Sizes
<1>2. PICK q, r, d : q = p \div d /\ r = p % d /\ d = BlockSize
  OBVIOUS
<1>3. q \in Nat /\ r \in 0 .. d - 1 /\ p = q * d + r
  BY <1>1, <1>2
<1>4. BlockIndex(p) = q + 1
  BY <1>2 DEF BlockIndex
<1>5. p < m * BlockSize => q + 1 <= m
  BY <1>1, <1>2, InBlocks
<1>6. BlockIndex(p) - 1 = q /\ (q + 1) * d = q * d + d /\ q * d \in Nat
  BY <1>1, <1>2, <1>3, <1>4
<1>7. (BlockIndex(p) - 1) * BlockSize = q * d /\ BlockIndex(p) * BlockSize = q * d + d
  BY <1>2, <1>4, <1>6
<1>8. r \in Slots /\ d \in Nat
  BY <1>1, <1>2, <1>3 DEF Slots
<1>9. p = (BlockIndex(p) - 1) * BlockSize + (p % BlockSize) /\ p % BlockSize \in Slots
  <2>1. PICK t, n : t = p % BlockSize /\ n = (BlockIndex(p) - 1) * BlockSize
    OBVIOUS
  <2>2. t = r /\ n = q * d
    BY <1>2, <1>7, <2>1
  <2>3. p = n + t /\ t \in Slots
    BY <1>3, <1>8, <2>2
  <2> QED
    BY <2>1, <2>3
<1>10. (BlockIndex(p) - 1) * BlockSize <= p /\ p < BlockIndex(p) * BlockSize
  <2>1. PICK n : n = q * d
    OBVIOUS
  <2>2. n \in Nat /\ p = n + r /\ r < d
    BY <1>3, <1>6, <1>8, <2>1
  <2>3. n <= p /\ p < n + d
    BY <1>3, <1>8, <2>2
  <2> QED
    BY <1>7, <2>1, <2>3
<1>11. BlockIndex(p) \in Nat /\ BlockIndex(p) >= 1 /\ (p < m * BlockSize => BlockIndex(p) \in 1 .. m)
  BY <1>3, <1>4, <1>5
<1> QED
  BY <1>9, <1>10, <1>11

\* The blocks of tables and entries, none of which is free.
InUse ==
  /\ \A id \in Live : seqs[id].row # -1 =>
       /\ seqs[id].row \in Rows /\ seqs[id].blocks = Len(block_tables[seqs[id].row])
       /\ Table(id) = block_tables[seqs[id].row]
       /\ seqs[id].blocks \in Nat
       /\ \A i \in 1 .. seqs[id].blocks :
            /\ block_tables[seqs[id].row][i] \in Blocks
            /\ block_tables[seqs[id].row][i] \notin Range(free_blocks)
  /\ \A h \in DOMAIN entries :
       /\ entries[h].block \in Blocks /\ cached[entries[h].block]
       /\ entries[h].block \notin Range(free_blocks)

\* The invariant sees to that.
LEMMA BlocksInUse == Inv => InUse
<1> SUFFICES ASSUME Inv PROVE InUse
  OBVIOUS
<1>1. Base /\ CacheInv /\ PoolView
  BY RowsCoherent, PoolFacts DEF Inv, CacheInv
<1>2. ASSUME NEW id \in Live, seqs[id].row # -1
      PROVE  /\ seqs[id].row \in Rows /\ seqs[id].blocks = Len(block_tables[seqs[id].row])
             /\ Table(id) = block_tables[seqs[id].row]
             /\ seqs[id].blocks \in Nat
             /\ \A i \in 1 .. seqs[id].blocks :
                  /\ block_tables[seqs[id].row][i] \in Blocks
                  /\ block_tables[seqs[id].row][i] \notin Range(free_blocks)
  <2>1. seqs[id].row \in Rows /\ seqs[id].blocks \in Nat
    BY <1>1, <1>2, ProvidedFacts DEF Sound
  <2>2. seqs[id].blocks = Len(block_tables[seqs[id].row])
    BY <1>1, <1>2 DEF Base, Holdings, Table
  <2> QED
    BY <1>1, <2>1, <2>2 DEF Table, PoolView
<1>3. \A h \in DOMAIN entries : entries[h].block \in Blocks /\ cached[entries[h].block]
  BY <1>1, CacheFacts
<1>4. \A b \in Blocks : cached[b] => b \notin Range(free_blocks)
  BY <1>1 DEF PoolView
<1> QED
  BY <1>2, <1>3, <1>4 DEF InUse

\* The same after a step.
LEMMA BlocksInUseNext == Inv' => InUse'
BY BlocksInUse, PTL

-------------------------------------------------------------------------------
(* Prompts that one hash stands for.                                         *)

\* A token of a full block.
LEMMA TokenOfBlock ==
  ASSUME NEW p \in {q.prompt : q \in Accepted}, NEW i \in Nat, i <= Cacheable(Paged(p)),
         NEW pos \in Nat, pos < i * BlockSize
  PROVE  /\ i * BlockSize < Len(p) /\ i * BlockSize \in Nat /\ pos + 1 \in 1 .. Len(p)
         /\ SubSeq(Paged(p), 1, i)[BlockIndex(pos)][(pos % BlockSize) + 1] = p[pos + 1]
<1>1. /\ BlockSize \in Nat \ {0} /\ i * BlockSize \in Nat
  BY Sizes
<1>2. p \in Seq(Range(p)) /\ Len(p) \in Nat
  BY RequestsGiven, OwnElements DEF Accepted
<1>3. /\ Len(Paged(p)) \in Nat /\ Cacheable(Paged(p)) = Len(Paged(p)) - 1
      /\ Paged(p) \in Seq(Range(Paged(p)))
      /\ \A m \in Int : Len(Paged(p)) <= m <=> Len(p) <= m * BlockSize
  BY PagedFacts
<1>4. i * BlockSize < Len(p)
  <2>1. ~(Len(Paged(p)) <= i)
    BY <1>3
  <2>2. ~(Len(p) <= i * BlockSize)
    BY <1>3, <2>1
  <2> QED
    BY <1>1, <1>2, <2>2
<1>5. PICK j, x, first : j = BlockIndex(pos) /\ x = pos % BlockSize /\ first = (j - 1) * BlockSize
  OBVIOUS
<1>6. /\ j \in 1 .. i /\ x \in 0 .. BlockSize - 1 /\ pos = first + x
  BY <1>5, InTable DEF Slots
<1>7. first \in Nat /\ j * BlockSize = first + BlockSize /\ j * BlockSize <= i * BlockSize
  <2>1. j \in Nat /\ j >= 1 /\ j <= i
    BY <1>6
  <2>2. j * BlockSize <= i * BlockSize
    BY <1>1, <2>1, Multiples
  <2>3. first \in Nat /\ j * BlockSize = first + BlockSize
    BY <1>1, <1>5, <2>1
  <2> QED
    BY <2>2, <2>3
<1>8. Paged(p)[j] = SubSeq(p, first + 1, first + BlockSize)
  <2>1. PICK n : n = CeilDiv(Len(p), BlockSize)
    OBVIOUS
  <2>2. n \in Nat /\ Paged(p) = [k \in 1 .. n |->
           SubSeq(p, (k - 1) * BlockSize + 1, Min({k * BlockSize, Len(p)}))]
    <3>1. 0 \in Int
      OBVIOUS
    <3>2. n \in Nat
      BY <1>1, <1>2, <2>1, <3>1, FitInBlocks
    <3> QED
      BY <2>1, <3>2 DEF Paged
  <2>3. Len(Paged(p)) = n
    BY <2>2
  <2>4. j \in 1 .. n
    BY <1>3, <1>6, <2>2, <2>3
  <2>5. Paged(p)[j] = SubSeq(p, (j - 1) * BlockSize + 1, Min({j * BlockSize, Len(p)}))
    BY <2>2, <2>4
  <2>6. Min({first + BlockSize, Len(p)}) = first + BlockSize
    <3>1. PICK a, b : a = first + BlockSize /\ b = Len(p)
      OBVIOUS
    <3>2. a \in Int /\ b \in Int /\ a <= b
      BY <1>1, <1>2, <1>4, <1>7, <3>1
    <3>3. Min({a, b}) = a
      BY <3>2, MinOfTwo
    <3> QED
      BY <3>1, <3>3
  <2> QED
    BY <1>5, <1>7, <2>5, <2>6
<1>9. SubSeq(p, first + 1, first + BlockSize)[x + 1] = p[pos + 1]
  <2>1. PICK m, n : m = first + 1 /\ n = first + BlockSize
    OBVIOUS
  <2>2. m \in 1 .. Len(p) + 1 /\ n \in m - 1 .. Len(p)
    BY <1>1, <1>2, <1>4, <1>7, <2>1
  <2>3. Len(SubSeq(p, m, n)) = n - m + 1
        /\ \A k \in 1 .. n - m + 1 : SubSeq(p, m, n)[k] = p[m + k - 1]
    BY <1>2, <2>2, SubSeqProperties
  <2>4. x + 1 \in 1 .. n - m + 1 /\ m + (x + 1) - 1 = pos + 1
    BY <1>1, <1>6, <1>7, <2>1
  <2> QED
    BY <2>1, <2>3, <2>4
<1>10. SubSeq(Paged(p), 1, i)[j] = Paged(p)[j]
  <2>1. PICK c : c = Paged(p)
    OBVIOUS
  <2>2. c \in Seq(Range(c)) /\ Len(c) \in Nat /\ i <= Len(c)
    BY <1>3, <2>1
  <2>3. 1 \in 1 .. Len(c) + 1 /\ i \in 1 - 1 .. Len(c)
    BY <2>2
  <2>4. \A k \in 1 .. i - 1 + 1 : SubSeq(c, 1, i)[k] = c[1 + k - 1]
    BY <2>2, <2>3, SubSeqProperties
  <2>5. j \in 1 .. i - 1 + 1 /\ 1 + j - 1 = j
    BY <1>6
  <2> QED
    BY <2>1, <2>4, <2>5
<1>11. pos + 1 \in 1 .. Len(p)
  BY <1>1, <1>2, <1>4
<1> QED
  BY <1>1, <1>4, <1>5, <1>8, <1>9, <1>10, <1>11

\* What one prompt finds behind a hash is what any other would.
LEMMA SameHash ==
  ASSUME SP!NoCollisions, NEW p \in {q.prompt : q \in Accepted},
         NEW o \in {q.prompt : q \in Accepted},
         NEW m \in 1 .. Cacheable(Paged(p)), NEW n \in 1 .. Cacheable(Paged(o)),
         NEW h, SP!IsHashOf(h, Paged(p), m), SP!IsHashOf(h, Paged(o), n),
         NEW slots, Holds(slots, p, m)
  PROVE  Holds(slots, o, n)
<1>1. /\ Len(Paged(p)) \in Nat /\ Cacheable(Paged(p)) = Len(Paged(p)) - 1
      /\ Paged(p) \in Seq(Range(Paged(p))) /\ Paged(p) \in PagedPrompts
  BY PagedFacts DEF PagedPrompts
<1>2. /\ Len(Paged(o)) \in Nat /\ Cacheable(Paged(o)) = Len(Paged(o)) - 1
      /\ Paged(o) \in Seq(Range(Paged(o))) /\ Paged(o) \in PagedPrompts
  BY PagedFacts DEF PagedPrompts
<1>3. m \in 1 .. Len(Paged(p)) /\ n \in 1 .. Len(Paged(o)) /\ m \in Nat /\ n \in Nat
  BY <1>1, <1>2
<1>4. SubSeq(Paged(p), 1, m) = SubSeq(Paged(o), 1, n)
  BY <1>1, <1>2, <1>3 DEF SP!NoCollisions
<1>5. m = n
  <2>1. PICK c, d : c = Paged(p) /\ d = Paged(o)
    OBVIOUS
  <2>2. /\ c \in Seq(Range(c)) /\ d \in Seq(Range(d)) /\ Len(c) \in Nat /\ Len(d) \in Nat
        /\ 1 \in 1 .. Len(c) + 1 /\ m \in 1 - 1 .. Len(c)
        /\ 1 \in 1 .. Len(d) + 1 /\ n \in 1 - 1 .. Len(d)
    BY <1>1, <1>2, <1>3, <2>1
  <2>3. Len(SubSeq(c, 1, m)) = m - 1 + 1 /\ Len(SubSeq(d, 1, n)) = n - 1 + 1
    BY <2>2, SubSeqProperties
  <2> QED
    BY <1>3, <1>4, <2>1, <2>3
<1>6. m <= Cacheable(Paged(p)) /\ n <= Cacheable(Paged(o))
  BY <1>1, <1>2, <1>3
<1>7. ASSUME NEW pos \in Nat, pos < m * BlockSize
      PROVE  p[pos + 1] = o[pos + 1]
  <2>1. SubSeq(Paged(p), 1, m)[BlockIndex(pos)][(pos % BlockSize) + 1] = p[pos + 1]
    BY <1>3, <1>6, <1>7, TokenOfBlock
  <2>2. SubSeq(Paged(o), 1, n)[BlockIndex(pos)][(pos % BlockSize) + 1] = o[pos + 1]
    BY <1>3, <1>5, <1>6, <1>7, TokenOfBlock
  <2> QED
    BY <1>4, <2>1, <2>2
<1>8. ASSUME NEW pos \in Nat, pos < m * BlockSize
      PROVE  Context(p, pos) = Context(o, pos)
  <2>1. /\ m * BlockSize \in Nat /\ m * BlockSize < Len(p) /\ m * BlockSize < Len(o)
        /\ pos + 1 \in 1 .. Len(p) /\ pos + 1 \in 1 .. Len(o)
    BY <1>3, <1>5, <1>6, <1>8, TokenOfBlock
  <2>2. p \in Seq(Range(p)) /\ Len(p) \in Nat /\ o \in Seq(Range(o)) /\ Len(o) \in Nat
    BY RequestsGiven, OwnElements DEF Accepted
  <2>3. Context(p, pos) = SubSeq(p, 1, pos + 1) /\ Context(o, pos) = SubSeq(o, 1, pos + 1)
    BY <1>8, <2>1, <2>2 DEF Context
  <2>4. \A k \in 1 .. pos + 1 : p[k] = o[k]
    <3> SUFFICES ASSUME NEW k \in 1 .. pos + 1 PROVE p[k] = o[k]
      OBVIOUS
    <3>1. k - 1 \in Nat /\ k - 1 < m * BlockSize /\ (k - 1) + 1 = k
      BY <1>8, <2>1
    <3> QED
      BY <1>7, <3>1
  <2>5. SubSeq(p, 1, pos + 1) = SubSeq(o, 1, pos + 1)
    BY <2>2, <2>1, <2>4
  <2> QED
    BY <2>3, <2>5
<1> QED
  BY <1>5, <1>8 DEF Holds

-------------------------------------------------------------------------------
(* Steps that leave what is read alone.                                      *)

\* What a sequence reads is what it read before.
StillOwn(id) ==
  /\ phase # "abort" /\ id \in Live /\ seqs[id].row # -1
  /\ seqs'[id].row = seqs[id].row /\ seqs'[id].prompt = seqs[id].prompt
  /\ Held(id)' <= Held(id)
  /\ \A p \in Nat : p < Held(id)' =>
       LET was == block_tables[seqs[id].row][BlockIndex(p)]
       IN  block_tables'[seqs[id].row][BlockIndex(p)] = was /\ kv'[was] = kv[was]

\* Entries are those that were there, with the KV that was there.
EntriesStay ==
  \A h \in DOMAIN entries' : /\ h \in DOMAIN entries /\ entries'[h].block = entries[h].block
                             /\ kv'[entries[h].block] = kv[entries[h].block]

\* That, or finding the right KV anew, is what it takes.
LEMMA KVStays ==
  ASSUME Base, Base', KVInv, EntriesStay \/ EntriesHold',
         phase' # "abort" =>
           \A id \in Live' : seqs'[id].row # -1 => (StillOwn(id) \/ OwnKV(id)') /\ Reaches(id)'
  PROVE  KVInv'
<1>1. KVHeld'
  <2> SUFFICES ASSUME phase' # "abort", NEW id \in Live', seqs'[id].row # -1
               PROVE  Reaches(id)' /\ OwnKV(id)'
    BY DEF KVHeld
  <2>1. (StillOwn(id) \/ OwnKV(id)') /\ Reaches(id)'
    OBVIOUS
  <2>2. CASE StillOwn(id)
    <3>1. OwnKV(id) /\ Held(id) \in Nat /\ Held(id)' \in Nat
      BY <2>2, HeldCounts, HeldCountsNext DEF StillOwn, KVInv, KVHeld
    <3>2. OwnKV(id)'
      <4> SUFFICES ASSUME NEW p \in Nat, p < Held(id)'
                   PROVE  kv'[block_tables'[seqs'[id].row][BlockIndex(p)]][p % BlockSize]
                            = Context(seqs'[id].prompt, p)
        BY DEF OwnKV, BlockIndex, Context
      <4>1. p < Held(id)
        BY <2>2, <3>1 DEF StillOwn
      <4>2. kv[block_tables[seqs[id].row][BlockIndex(p)]][p % BlockSize]
              = Context(seqs[id].prompt, p)
        BY <3>1, <4>1 DEF OwnKV
      <4> QED
        BY <2>2, <4>2 DEF StillOwn
    <3> QED
      BY <2>1, <3>2
  <2> QED
    BY <2>1, <2>2
<1>2. ASSUME EntriesStay PROVE EntriesHold'
  <2> SUFFICES ASSUME NEW h \in DOMAIN entries', NEW prompt \in {q.prompt : q \in Accepted},
                      NEW i \in 1 .. Cacheable(Paged(prompt)),
                      SP!IsHashOf(h, Paged(prompt), i)
               PROVE  Holds(kv'[entries'[h].block], prompt, i)
    BY DEF EntriesHold, Accepted, Paged, Cacheable, Holds, Context, CeilDiv, SP!IsHashOf, SP!IsChain,
           SP!Before
  <2> QED
    BY <1>2 DEF EntriesStay, KVInv, EntriesHold
<1> QED
  BY <1>1, <1>2 DEF KVInv

\* Blocks, tables and entries stay, and so does what is written of whom.
LEMMA QuietKV ==
  ASSUME Base, Base', KVInv, kv' = kv, entries' = entries, block_tables' = block_tables,
         phase' # "abort" =>
           /\ phase # "abort"
           /\ \A id \in Live' : seqs'[id].row # -1 =>
                /\ id \in Live
                /\ seqs'[id].row = seqs[id].row /\ seqs'[id].prompt = seqs[id].prompt
                /\ seqs'[id].blocks = seqs[id].blocks
                /\ seqs'[id].generated = seqs[id].generated
                /\ Committed(id)' = Committed(id)
  PROVE  KVInv'
<1>1. ASSUME phase' # "abort", NEW id \in Live', seqs'[id].row # -1
      PROVE  StillOwn(id) /\ Reaches(id)'
  <2>1. /\ phase # "abort" /\ id \in Live
        /\ seqs'[id].row = seqs[id].row /\ seqs'[id].prompt = seqs[id].prompt
        /\ seqs'[id].blocks = seqs[id].blocks
        /\ seqs'[id].generated = seqs[id].generated
        /\ Committed(id)' = Committed(id)
    BY <1>1
  <2>2. Held(id)' = Held(id) /\ Held(id) \in Nat
    BY <2>1, HeldCounts DEF Held, NumPrompt
  <2>3. Reaches(id)
    BY <1>1, <2>1 DEF KVInv, KVHeld
  <2> QED
    BY <1>1, <2>1, <2>2, <2>3 DEF StillOwn, Reaches, NumPrompt
<1>2. EntriesStay
  BY DEF EntriesStay
<1> QED
  BY <1>1, <1>2, KVStays

\* Nobody's record changes.
LEMMA StillKV ==
  ASSUME Base, Base', KVInv, kv' = kv, entries' = entries, block_tables' = block_tables,
         phase # "abort", Live' \subseteq Live, seqs' = seqs, batch' = batch
  PROVE  KVInv'
<1>1. \A id \in Live : Committed(id)' = Committed(id)
  BY CommittedStays
<1> QED
  BY <1>1, QuietKV

\* The passes, and what comes between them.
LEMMA PhaseKV ==
  ASSUME Base, Base', KVInv,
         BeginStep \/ EndAdmission \/ EndDecodeRows \/ EndPrefillRows \/ PlanPreemption
           \/ EndRecord \/ EndUpdate
  PROVE  KVInv'
<1>1. UNCHANGED cache_vars /\ seqs' = seqs /\ waiting' = waiting /\ running' = running /\ kv' = kv
  BY DEF BeginStep, EndAdmission, EndDecodeRows, EndPrefillRows, PlanPreemption, EndRecord,
         EndUpdate, queue_vars
<1>2. phase # "abort"
  BY DEF BeginStep, EndAdmission, EndDecodeRows, EndPrefillRows, PlanPreemption, EndRecord,
         EndUpdate, PassEnds, Building
<1>3. batch' = batch
  <2>1. phase = "admit" => batch = <<>>
    BY ListFacts DEF Passes
  <2> QED
    BY <2>1 DEF BeginStep, EndAdmission, EndDecodeRows, EndPrefillRows, PlanPreemption,
                EndRecord, EndUpdate
<1>4. Live' = Live
  BY <1>1 DEF Live
<1> QED
  BY <1>1, <1>2, <1>3, <1>4, StillKV DEF cache_vars, pool_vars

\* Those that yielded go to the head of the queue.
LEMMA FlushKV ==
  ASSUME Base, Base', KVInv, Live' = Live, FlushPreempted
  PROVE  KVInv'
<1>1. UNCHANGED cache_vars /\ seqs' = seqs /\ batch' = batch /\ kv' = kv /\ phase # "abort"
  BY DEF FlushPreempted
<1> QED
  BY <1>1, StillKV DEF cache_vars, pool_vars

\* After an aborted step nobody is left with a row.
LEMMA EndAbortKV ==
  ASSUME AbortsClean, Base, Base', KVInv, EndAbort
  PROVE  KVInv'
<1>1. /\ UNCHANGED cache_vars /\ seqs' = seqs /\ batch' = batch /\ kv' = kv /\ phase = "abort"
      /\ waiting' = waiting /\ running' = <<>>
  BY DEF EndAbort
<1>2. Live' = Range(waiting)
  <2>1. Range(<<>>) = {}
    BY DEF Range
  <2> QED
    BY <1>1, <2>1 DEF Live
<1>3. ASSUME NEW id \in Range(waiting) PROVE seqs[id].row = -1
  <2>1. id \in Live
    BY DEF Live
  <2>2. seqs[id].state \in {"WAITING", "RUNNING"}
    BY <1>1, <2>1 DEF AbortsClean, Base, Aborting, Unhurried, Roomy
  <2>3. seqs[id].state \in {"WAITING", "PREEMPTED"}
    BY DEF Base, Queues
  <2> QED
    BY <1>1, <2>1, <2>2, <2>3 DEF Base, Holdings, Mounting
<1>4. EntriesStay
  BY <1>1 DEF EntriesStay, cache_vars
<1> QED
  BY <1>1, <1>2, <1>3, <1>4, KVStays

\* A step that rewrites one sequence's state.
LEMMA StateKV ==
  ASSUME Base, Base', KVInv, UNCHANGED cache_vars, kv' = kv, phase # "abort",
         Live' = Live, batch' = batch, NEW id \in DOMAIN seqs, NEW state,
         seqs' = [seqs EXCEPT ![id].state = state]
  PROVE  KVInv'
<1>1. ASSUME NEW other \in Live
      PROVE  /\ seqs'[other].row = seqs[other].row /\ seqs'[other].prompt = seqs[other].prompt
             /\ seqs'[other].blocks = seqs[other].blocks
             /\ seqs'[other].generated = seqs[other].generated
             /\ seqs'[other].prefilled = seqs[other].prefilled
  <2>1. PICK S : seqs \in [DOMAIN seqs -> Records(S)]
    BY DEF Base, Typed
  <2>2. seqs[other] \in Records(S) /\ other \in DOMAIN seqs
    BY <2>1, ListFacts
  <2> QED
    BY <2>2 DEF Records
<1>2. \A other \in Live : Committed(other)' = Committed(other)
  BY <1>1, CommittedStays
<1> QED
  BY <1>1, <1>2, QuietKV DEF cache_vars, pool_vars

\* A sequence that was preempted comes back.
LEMMA ResumeKV ==
  ASSUME Base, KVInv, Resume
  PROVE  KVInv'
<1>1. Base' /\ Live' = Live
  BY ResumeKeeps
<1>2. PICK id : id = Head(waiting)
  OBVIOUS
<1>3. /\ phase = "admit" /\ batch' = batch /\ UNCHANGED cache_vars /\ kv' = kv /\ waiting # <<>>
      /\ seqs' = [seqs EXCEPT ![id].state = "RUNNING"]
  BY <1>2 DEF Resume, step_vars, MayAdmit
<1>4. id \in DOMAIN seqs
  <2>1. waiting \in Seq(Nat) /\ Range(waiting) \subseteq DOMAIN seqs
    BY ListFacts
  <2>2. 1 \in DOMAIN waiting /\ id = waiting[1]
    BY <1>2, <1>3, <2>1
  <2> QED
    BY <2>1, <2>2 DEF Range
<1> QED
  BY <1>1, <1>3, <1>4, StateKV

\* A sequence is force-finished.
LEMMA ForceFinishKV ==
  ASSUME Base, Base', KVInv, ForceFinish
  PROVE  KVInv'
<1>1. PICK id : id = Head(Serving)
  OBVIOUS
<1>2. /\ AtSequence /\ phase # "abort" /\ batch' = batch /\ UNCHANGED cache_vars /\ kv' = kv
      /\ waiting' = waiting /\ running' = running
      /\ seqs' = [seqs EXCEPT ![id].state = "FINISHED"]
  BY <1>1 DEF ForceFinish, Building, AtSequence, Passes, queue_vars
<1>3. Live' = Live
  BY <1>2 DEF Live
<1>4. id \in DOMAIN seqs
  BY <1>1, <1>2, ServedFacts DEF Base
<1> QED
  BY <1>2, <1>3, <1>4, StateKV

\* A new request has read nothing.
LEMMA AddRequestKV ==
  ASSUME Base, KVInv, NEW request \in Requests, AddRequest(request.prompt, request.eos)
  PROVE  KVInv'
<1>1. Base'
  BY AddRequestKeeps
<1>2. /\ phase = "idle" /\ phase' = phase /\ batch' = batch /\ running' = running
      /\ UNCHANGED cache_vars /\ next_seq_id' = next_seq_id + 1 /\ UNCHANGED step_vars
      /\ UNCHANGED <<cache_vars, running, step_vars>> /\ kv' = kv
  BY DEF AddRequest, step_vars
<1>3. CASE UNCHANGED <<seqs, waiting>>
  <2>1. Live' = Live
    BY <1>2, <1>3 DEF Live
  <2> QED
    BY <1>1, <1>2, <1>3, <2>1, StillKV DEF cache_vars, pool_vars
<1>4. CASE /\ Len(request.prompt) \in 1 .. MaxSeqLen - 1
           /\ seqs' = [id \in DOMAIN seqs \cup {next_seq_id} |->
                         IF id = next_seq_id THEN NewSequence(request.prompt, request.eos)
                                             ELSE seqs[id]]
           /\ waiting' = Append(waiting, next_seq_id)
  <2>1. Live' = Live \cup {next_seq_id} /\ next_seq_id \notin DOMAIN seqs
    BY <1>2, <1>4, AcceptKeeps
  <2>2. Live \subseteq DOMAIN seqs
    BY ListFacts
  <2>3. seqs'[next_seq_id].row = -1
    BY <1>4 DEF NewSequence
  <2>4. \A id \in Live : seqs'[id] = seqs[id] /\ id # next_seq_id
    BY <1>4, <2>1, <2>2
  <2>5. \A id \in Live : Committed(id)' = Committed(id)
    BY <1>2, <2>4, CommittedStays
  <2> QED
    BY <1>1, <1>2, <2>1, <2>3, <2>4, <2>5, QuietKV DEF cache_vars, pool_vars
<1> QED
  BY <1>3, <1>4 DEF AddRequest

\* A failed pass wrote nothing; what was booked of its chunks is not there.
LEMMA ForwardFailsKV ==
  ASSUME Base, Base', KVInv, ForwardFails
  PROVE  KVInv'
<1>1. UNCHANGED cache_vars /\ kv' = kv /\ phase' = "abort"
  BY DEF ForwardFails
<1> QED
  BY <1>1, QuietKV DEF cache_vars, pool_vars

\* A row of the batch, or a chunk of them.
LEMMA PlaceKV ==
  ASSUME Base, Base', KVInv, PlaceDecode \/ PlaceChunk \/ PlaceShrunkChunk
  PROVE  KVInv'
<1>1. AtSequence
  BY DEF PlaceDecode, PlaceChunk, PlaceShrunkChunk, Building, AtSequence, Passes
<1>2. PICK id : id = Head(Serving)
  OBVIOUS
<1>3. \E start, len : /\ Place(id, start, len)
                      /\ phase = "prefill" => start = seqs[id].prefilled
  BY <1>2 DEF PlaceDecode, PlaceChunk, PlaceShrunkChunk
<1>4. PICK start, len : /\ Place(id, start, len)
                        /\ phase = "prefill" => start = seqs[id].prefilled
  BY <1>3
<1>5. /\ phase \in Passes /\ UNCHANGED cache_vars /\ kv' = kv /\ Live' = Live
      /\ \A other \in Live : /\ seqs'[other].row = seqs[other].row
                             /\ seqs'[other].prompt = seqs[other].prompt
                             /\ seqs'[other].blocks = seqs[other].blocks
                             /\ seqs'[other].generated = seqs[other].generated
                             /\ Committed(other)' = Committed(other)
  BY <1>1, <1>2, <1>4, PlaceCommits
<1>6. phase # "abort"
  BY <1>5 DEF Passes
<1> QED
  BY <1>5, <1>6, QuietKV DEF cache_vars, pool_vars

-------------------------------------------------------------------------------
(* Steps that move one sequence's blocks.                                    *)

\* The KV of the blocks in use stays but for those in taken, which no table has.
Spared(taken) ==
  /\ \A b \in Blocks : b \notin Range(free_blocks') /\ b \notin taken => kv'[b] = kv[b]
  /\ \A r \in Rows : \A j \in 1 .. Len(block_tables[r]) : block_tables[r][j] \notin taken

\* A sequence whose blocks are those it had, or the first of them, or more.
LEMMA OneStays ==
  ASSUME Base, Base', KVInv, InUse, InUse', phase # "abort", NEW taken, Spared(taken),
         NEW id \in Live, id \in Live', seqs[id].row # -1,
         seqs'[id].row = seqs[id].row, seqs'[id].prompt = seqs[id].prompt,
         Held(id)' <= Held(id), Reaches(id)',
         \A i \in 1 .. seqs[id].blocks :
           i <= seqs'[id].blocks => block_tables'[seqs[id].row][i] = block_tables[seqs[id].row][i]
  PROVE  StillOwn(id)
<1>1. PICK row, n, m : row = seqs[id].row /\ n = seqs[id].blocks /\ m = seqs'[id].blocks
  OBVIOUS
<1>2. /\ row \in Rows /\ n = Len(block_tables[row]) /\ n \in Nat
      /\ \A i \in 1 .. n : block_tables[row][i] \in Blocks
  BY <1>1 DEF InUse
<1>3. /\ m \in Nat
      /\ \A i \in 1 .. m : block_tables'[row][i] \notin Range(free_blocks')
  BY <1>1 DEF InUse
<1>4. Held(id) \in Nat /\ Held(id)' \in Nat
  BY HeldCounts, HeldCountsNext
<1>5. Held(id) <= n * BlockSize /\ Held(id)' <= m * BlockSize
  BY <1>1 DEF Reaches, KVInv, KVHeld
<1>6. n * BlockSize \in Nat /\ m * BlockSize \in Nat
  BY <1>2, <1>3, Sizes
<1>7. ASSUME NEW p \in Nat, p < Held(id)'
      PROVE  LET was == block_tables[row][BlockIndex(p)]
             IN  block_tables'[row][BlockIndex(p)] = was /\ kv'[was] = kv[was]
  <2>1. p < n * BlockSize /\ p < m * BlockSize
    BY <1>4, <1>5, <1>6, <1>7
  <2>2. BlockIndex(p) \in 1 .. n /\ BlockIndex(p) \in 1 .. m
    BY <1>2, <1>3, <2>1, InTable
  <2>3. block_tables'[row][BlockIndex(p)] = block_tables[row][BlockIndex(p)]
    BY <1>1, <1>3, <2>2
  <2> QED
    BY <1>2, <1>3, <2>2, <2>3 DEF Spared
<1> QED
  BY <1>1, <1>7 DEF StillOwn

\* Sequences on other rows.
LEMMA OthersStay ==
  ASSUME Base, Base', KVInv, InUse, InUse', phase # "abort", NEW taken, Spared(taken),
         batch' = batch, NEW id, NEW row, Live' \subseteq Live,
         \A other \in DOMAIN seqs \ {id} : seqs'[other] = seqs[other],
         \A other \in Live \ {id} : seqs[other].row # row,
         \A r \in Rows \ {row} : block_tables'[r] = block_tables[r],
         NEW other \in Live', other # id, seqs'[other].row # -1
  PROVE  StillOwn(other) /\ Reaches(other)'
<1>1. other \in Live /\ other \in DOMAIN seqs /\ seqs'[other] = seqs[other]
  BY ListFacts
<1>2. Committed(other)' = Committed(other)
  BY <1>1, CommittedStays
<1>3. Held(other)' = Held(other) /\ Held(other) \in Nat
  BY <1>1, <1>2, HeldCounts DEF Held, NumPrompt
<1>4. Reaches(other)
  BY <1>1 DEF KVInv, KVHeld
<1>5. Reaches(other)'
  BY <1>1, <1>2, <1>3, <1>4 DEF Reaches, NumPrompt
<1>6. seqs[other].row \in Rows \ {row}
  BY <1>1 DEF InUse
<1>7. \A i \in 1 .. seqs[other].blocks :
        block_tables'[seqs[other].row][i] = block_tables[seqs[other].row][i]
  BY <1>6
<1>8. StillOwn(other)
  BY <1>1, <1>3, <1>5, <1>7, OneStays
<1> QED
  BY <1>5, <1>8

\* Entries whose blocks are not taken.
LEMMA EntriesSpared ==
  ASSUME InUse, InUse', NEW taken, Spared(taken), \A b \in taken : ~cached'[b],
         \A h \in DOMAIN entries' : h \in DOMAIN entries /\ entries'[h].block = entries[h].block
  PROVE  EntriesStay
<1> SUFFICES ASSUME NEW h \in DOMAIN entries'
             PROVE  kv'[entries[h].block] = kv[entries[h].block]
  BY DEF EntriesStay
<1>1. /\ entries[h].block \in Blocks /\ cached'[entries[h].block]
      /\ entries[h].block \notin Range(free_blocks')
  BY DEF InUse
<1> QED
  BY <1>1 DEF Spared

\* What a clobber spares.
LEMMA ClobberSpares ==
  ASSUME NEW taken, Clobber(taken),
         \A r \in Rows : \A j \in 1 .. Len(block_tables[r]) : block_tables[r][j] \notin taken
  PROVE  Spared(taken)
BY DEF Clobber, Spared

\* Nobody else has the row of the sequence that is served, or admitted.
LEMMA OwnRow ==
  ASSUME Base, NEW id \in Live, NEW row \in Rows, seqs[id].row = row \/ ~row_busy[row]
  PROVE  \A other \in Live \ {id} : seqs[other].row # row
<1>1. row # -1
  BY CacheSizes DEF Rows, Pool!Rows
<1> QED
  BY <1>1 DEF Base, Holdings

\* A claimed row is empty.
LEMMA ClaimKV ==
  ASSUME Inv, Inv', KVInv, ClaimRow
  PROVE  KVInv'
<1>1. Base /\ Base' /\ CacheInv /\ InUse /\ InUse'
  BY RowsCoherent, BlocksInUse, BlocksInUseNext DEF Inv
<1>2. PICK id : id = Head(waiting)
  OBVIOUS
<1>3. /\ phase = "admit" /\ waiting # <<>> /\ seqs[id].state = "WAITING"
      /\ batch' = batch /\ entries' = entries /\ kv' = kv /\ Pool!AllocateBlocks(0, <<>>)
  BY <1>2 DEF ClaimRow, MayAdmit
<1>4. Live' = Live /\ block_tables' = block_tables
  BY <1>1, <1>3, ClaimRowKeeps, ClaimFacts
<1>5. PICK row \in Rows : ~row_busy[row] /\ seqs'[id] = [seqs[id] EXCEPT !.row = row]
                          /\ seqs' = [seqs EXCEPT ![id].row = row]
  BY <1>1, <1>2, ClaimRowKeeps
<1>6. /\ id \in Live /\ id \in DOMAIN seqs /\ seqs[id].blocks = 0
      /\ seqs[id].prefilled = 0 /\ seqs[id].generated = 0 /\ Sound(seqs[id])
  BY <1>1, <1>2, <1>3, FreshHead
<1>7. /\ seqs'[id].prompt = seqs[id].prompt /\ seqs'[id].blocks = 0
      /\ seqs'[id].prefilled = 0 /\ seqs'[id].generated = 0
      /\ \A other \in DOMAIN seqs \ {id} : seqs'[other] = seqs[other]
  <2>1. PICK S : seqs \in [DOMAIN seqs -> Records(S)]
    BY <1>1 DEF Base, Typed
  <2>2. seqs[id] \in Records(S)
    BY <1>6, <2>1
  <2> QED
    BY <1>5, <1>6, <2>2 DEF Records
<1>8. Held(id)' = 0 /\ Committed(id)' = 0
  <2>1. batch = <<>>
    BY <1>1, <1>3, ListFacts DEF Passes
  <2>2. Committed(id)' = 0
    BY <1>1, <1>3, <1>6, <1>7, <2>1, CommittedAll, CommittedStays
  <2>3. NumPrompt(seqs'[id]) = NumPrompt(seqs[id]) /\ NumPrompt(seqs[id]) \in 1 .. MaxSeqLen - 1
    BY <1>6, <1>7 DEF NumPrompt, Sound
  <2>4. ~(Committed(id)' >= NumPrompt(seqs'[id]))
    BY <2>2, <2>3
  <2> QED
    BY <2>2, <2>4 DEF Held
<1>9. OwnKV(id)' /\ Reaches(id)'
  <2>1. OwnKV(id)'
    BY <1>8 DEF OwnKV
  <2>2. seqs'[id].blocks * BlockSize \in Nat /\ seqs'[id].blocks * BlockSize = 0
    BY <1>7, Sizes
  <2> QED
    BY <1>7, <1>8, <2>1, <2>2 DEF Reaches
<1>10. Spared({}) /\ EntriesStay
  BY <1>3 DEF Spared, EntriesStay
<1>11. ASSUME NEW other \in Live', other # id, seqs'[other].row # -1
       PROVE  StillOwn(other) /\ Reaches(other)'
  <2>1. \A any \in Live \ {id} : seqs[any].row # row
    BY <1>1, <1>5, <1>6, OwnRow
  <2> QED
    BY <1>1, <1>3, <1>4, <1>7, <1>10, <1>11, <2>1, OthersStay
<1> QED
  BY <1>1, <1>9, <1>10, <1>11, KVStays

\* The matched blocks hold what the prompt would find there.
LEMMA MountKV ==
  ASSUME Inv, Inv', KVInv, MountPrefix
  PROVE  KVInv'
<1>1. Base /\ Base' /\ CacheInv /\ InUse /\ InUse' /\ SP!SharingInv
  BY RowsCoherent, BlocksInUse, BlocksInUseNext DEF Inv
<1>2. PICK id : id = Head(waiting)
  OBVIOUS
<1>3. PICK row, prompt, chain :
        row = seqs[id].row /\ prompt = seqs[id].prompt /\ chain = Lookup(Paged(prompt))
  OBVIOUS
<1>4. /\ phase = "mount" /\ batch' = batch /\ kv' = kv
  BY DEF MountPrefix
<1>5. /\ Live' = Live /\ MountMatch(row, chain) /\ id \in Live /\ id \in DOMAIN seqs
      /\ chain \in Seq(DOMAIN entries) /\ Len(chain) \in Nat
      /\ Len(chain) < Len(Paged(prompt))
      /\ seqs' = [seqs EXCEPT ![id] = seqs'[id]]
      /\ seqs'[id].prompt = prompt /\ seqs'[id].row = row
      /\ seqs'[id].prefilled = Len(chain) * BlockSize
      /\ seqs'[id].prefilled < NumPrompt(seqs'[id])
  BY <1>1, <1>2, <1>3, MountPrefixKeeps
<1>6. /\ seqs[id].state = "WAITING" /\ waiting # <<>>
  BY <1>1, <1>2, <1>4 DEF Base, Queues
<1>7. /\ row \in Rows /\ row # -1 /\ seqs[id].generated = 0 /\ seqs[id].blocks = 0
      /\ prompt \in {q.prompt : q \in Accepted}
  BY <1>1, <1>2, <1>3, <1>4, <1>6, FreshHead
<1>8. DOMAIN seqs' = DOMAIN seqs /\ \A other \in DOMAIN seqs \ {id} : seqs'[other] = seqs[other]
  <2>1. PICK t : t = seqs'[id]
    OBVIOUS
  <2>2. seqs' = [seqs EXCEPT ![id] = t]
    BY <1>5, <2>1
  <2> QED
    BY <2>2
<1>9. block_tables[row] = <<>>
  <2>1. Len(block_tables[row]) = 0
    BY <1>1, <1>3, <1>5, <1>7 DEF InUse
  <2>2. block_tables[row] \in Seq(Blocks)
    BY <1>1, <1>7, PoolFacts DEF CacheInv, PoolView
  <2> QED
    BY <2>1, <2>2
<1>10. /\ entries' = entries
       /\ \A r \in Rows \ {row} : block_tables'[r] = block_tables[r]
       /\ Len(block_tables'[row]) = Len(chain)
       /\ \A i \in 1 .. Len(chain) : block_tables'[row][i] = entries[chain[i]].block
  BY <1>1, <1>5, <1>7, <1>9, MountMatchFacts
<1>11. /\ Len(Paged(prompt)) \in Nat /\ Cacheable(Paged(prompt)) = Len(Paged(prompt)) - 1
       /\ Len(chain) <= Cacheable(Paged(prompt))
  BY <1>5, <1>7, PagedFacts
<1>12. \A i \in 1 .. Len(chain) : Holds(kv[entries[chain[i]].block], prompt, i)
  <2> SUFFICES ASSUME NEW i \in 1 .. Len(chain)
               PROVE  Holds(kv[entries[chain[i]].block], prompt, i)
    OBVIOUS
  <2>1. i \in 1 .. Cacheable(Paged(prompt)) /\ chain[i] \in DOMAIN entries
    BY <1>5, <1>11, OwnElements
  <2>2. SP!IsHashOf(chain[i], Paged(prompt), i)
    <3>1. Paged(prompt) \in PagedPrompts /\ SP!Lookup(Paged(prompt)) = chain
      BY <1>3, <1>7, SharedEffects DEF PagedPrompts
    <3> QED
      BY <1>1, <3>1, RowsFit, SP!MatchFacts
  <2> QED
    BY <1>7, <2>1, <2>2 DEF KVInv, EntriesHold
<1>13. seqs'[id].generated = 0 /\ seqs'[id].blocks = Len(chain)
  <2>1. PICK S : seqs \in [DOMAIN seqs -> Records(S)]
    BY <1>1 DEF Base, Typed
  <2>2. seqs[id] \in Records(S)
    BY <1>5, <2>1
  <2>3. seqs'[id].generated = seqs[id].generated
    BY <1>2, <1>5, <2>2 DEF Records, MountPrefix
  <2>4. seqs'[id].blocks = Len(block_tables'[row])
    BY <1>1, <1>5, <1>7 DEF InUse
  <2> QED
    BY <1>7, <1>10, <2>3, <2>4
<1>14. Committed(id)' = Len(chain) * BlockSize /\ Held(id)' = Len(chain) * BlockSize
       /\ Len(chain) * BlockSize \in Nat
  <2>1. batch' = <<>>
    BY <1>1, <1>4, ListFacts DEF Passes
  <2>2. Committed(id)' = Len(chain) * BlockSize
    <3>1. 1 .. Len(batch') = {}
      BY <2>1
    <3> QED
      BY <1>1, <1>5, <3>1, CommittedIsShownNext DEF CommittedShown
  <2>3. NumPrompt(seqs'[id]) \in Nat
    BY <1>1, <1>5, HeldCountsNext DEF Sound
  <2>4. Len(chain) * BlockSize \in Nat
    BY <1>5, Sizes
  <2>5. ~(Committed(id)' >= NumPrompt(seqs'[id]))
    BY <1>5, <2>2, <2>3, <2>4
  <2> QED
    BY <2>2, <2>4, <2>5 DEF Held
<1>15. OwnKV(id)' /\ Reaches(id)'
  <2>1. Reaches(id)'
    BY <1>13, <1>14 DEF Reaches
  <2>2. OwnKV(id)'
    <3> SUFFICES ASSUME NEW p \in Nat, p < Len(chain) * BlockSize
                 PROVE  kv[block_tables'[row][BlockIndex(p)]][p % BlockSize] = Context(prompt, p)
      BY <1>4, <1>5, <1>14 DEF OwnKV, BlockIndex, Context
    <3>1. /\ BlockIndex(p) \in 1 .. Len(chain)
          /\ (BlockIndex(p) - 1) * BlockSize <= p /\ p < BlockIndex(p) * BlockSize
      BY <1>5, InTable
    <3>2. Holds(kv[block_tables'[row][BlockIndex(p)]], prompt, BlockIndex(p))
      BY <1>10, <1>12, <3>1
    <3> QED
      BY <3>1, <3>2 DEF Holds
  <2> QED
    BY <2>1, <2>2
<1>16. Spared({}) /\ EntriesStay
  BY <1>4, <1>10 DEF Spared, EntriesStay
<1>17. ASSUME NEW other \in Live', other # id, seqs'[other].row # -1
       PROVE  StillOwn(other) /\ Reaches(other)'
  <2>1. \A any \in Live \ {id} : seqs[any].row # row
    BY <1>1, <1>3, <1>5, <1>7, OwnRow
  <2>2. phase # "abort" /\ batch' = batch /\ Live' \subseteq Live
    BY <1>4, <1>5
  <2>3. /\ \A any \in DOMAIN seqs \ {id} : seqs'[any] = seqs[any]
        /\ \A r \in Rows \ {row} : block_tables'[r] = block_tables[r]
    BY <1>8, <1>10
  <2> QED
    BY <1>1, <1>16, <1>17, <2>1, <2>2, <2>3, OthersStay
<1> QED
  BY <1>1, <1>15, <1>16, <1>17, KVStays

\* One sequence keeps its row and moves; nobody else does.
LEMMA OneKV ==
  ASSUME Base, Base', InUse, InUse', KVInv, phase # "abort", batch' = batch, Live' \subseteq Live,
         NEW id \in Live, NEW row \in Rows, seqs[id].row = row, DOMAIN seqs' = DOMAIN seqs,
         \A other \in DOMAIN seqs \ {id} : seqs'[other] = seqs[other],
         \A r \in Rows \ {row} : block_tables'[r] = block_tables[r],
         NEW taken, Spared(taken), EntriesStay \/ EntriesHold',
         id \in Live' => /\ seqs'[id].row = row /\ seqs'[id].prompt = seqs[id].prompt
                         /\ Held(id)' <= Held(id) /\ Reaches(id)'
                         /\ \A i \in 1 .. seqs[id].blocks :
                              i <= seqs'[id].blocks => block_tables'[row][i] = block_tables[row][i]
  PROVE  KVInv'
<1>1. row # -1
  BY CacheSizes DEF Rows, Pool!Rows
<1>2. ASSUME NEW other \in Live', other # id, seqs'[other].row # -1
      PROVE  StillOwn(other) /\ Reaches(other)'
  <2>1. \A any \in Live \ {id} : seqs[any].row # row
    BY OwnRow
  <2> QED
    BY <1>2, <2>1, OthersStay
<1>3. id \in Live' => StillOwn(id) /\ Reaches(id)'
  BY <1>1, OneStays
<1> QED
  BY <1>2, <1>3, KVStays

\* All that the invariant says of tables, pool and cache.
LEMMA Views == Inv => Base /\ CacheInv /\ InUse /\ PoolView
BY RowsCoherent, BlocksInUse, PoolFacts DEF Inv, CacheInv

\* The same after a step.
LEMMA ViewsNext == Inv' => Base' /\ CacheInv' /\ InUse' /\ PoolView'
BY Views, PTL

\* A block is appended.
LEMMA GrowKV ==
  ASSUME Inv, Inv', KVInv, Grow
  PROVE  KVInv'
<1>1. Base /\ Base' /\ CacheInv /\ InUse /\ InUse' /\ PoolView /\ PoolView'
  BY Views, ViewsNext
<1>2. PICK id : id = Head(Serving)
  OBVIOUS
<1>3. PICK row, was, is, taken :
        /\ row = seqs[id].row /\ was = block_tables[row] /\ is = block_tables'[row]
        /\ taken = Range(is) \ Range(was)
  OBVIOUS
<1>4. /\ AtSequence /\ phase \in Passes /\ AppendBlock(row) /\ Clobber(taken)
      /\ seqs' = [seqs EXCEPT ![id].blocks = @ + 1]
      /\ waiting' = waiting /\ running' = running /\ phase' = phase /\ batch' = batch
  BY <1>2, <1>3 DEF Grow, Building, AtSequence, Passes, queue_vars, step_vars, Table
<1>5. Live' = Live
  BY <1>4 DEF Live
<1>6. id \in Live /\ id \in DOMAIN seqs /\ seqs[id].state = "RUNNING"
  BY <1>1, <1>2, <1>4, ServedFacts DEF Base
<1>7. row \in Rows
  BY <1>1, <1>3, <1>6, RowOf
<1>8. /\ seqs'[id].row = row /\ seqs'[id].prompt = seqs[id].prompt
      /\ seqs'[id].prefilled = seqs[id].prefilled /\ seqs'[id].generated = seqs[id].generated
      /\ seqs'[id].blocks = seqs[id].blocks + 1
      /\ DOMAIN seqs' = DOMAIN seqs /\ \A other \in DOMAIN seqs \ {id} : seqs'[other] = seqs[other]
  <2>1. PICK S : seqs \in [DOMAIN seqs -> Records(S)]
    BY <1>1 DEF Base, Typed
  <2>2. seqs[id] \in Records(S)
    BY <1>6, <2>1
  <2> QED
    BY <1>3, <1>4, <1>6, <2>2 DEF Records
<1>9. /\ \A r \in Rows \ {row} : block_tables'[r] = block_tables[r]
      /\ Len(was) <= Len(is) /\ \A i \in 1 .. Len(was) : is[i] = was[i]
      /\ \A i \in Len(was) + 1 .. Len(is) :
           /\ ~cached'[is[i]]
           /\ \A r \in Rows : \A j \in 1 .. Len(block_tables[r]) : block_tables[r][j] # is[i]
      /\ \A h \in DOMAIN entries' : h \in DOMAIN entries /\ entries'[h] = entries[h]
  BY <1>1, <1>3, <1>4, <1>7, AppendBlockFacts
<1>10. /\ Len(was) \in Nat /\ Len(is) \in Nat
       /\ DOMAIN was = 1 .. Len(was) /\ DOMAIN is = 1 .. Len(is)
  BY <1>1, <1>3, <1>7 DEF PoolView, Rows, Pool!Rows
<1>11. \A b \in taken : \E i \in Len(was) + 1 .. Len(is) : b = is[i]
  <2> SUFFICES ASSUME NEW b \in taken PROVE \E i \in Len(was) + 1 .. Len(is) : b = is[i]
    OBVIOUS
  <2>1. PICK i \in 1 .. Len(is) : b = is[i]
    BY <1>3, <1>10 DEF Range
  <2>2. i \notin 1 .. Len(was)
    BY <1>3, <1>9, <1>10, <2>1 DEF Range
  <2> QED
    BY <1>10, <2>1, <2>2
<1>12. Spared(taken)
  BY <1>4, <1>9, <1>11, ClobberSpares
<1>13. EntriesStay
  BY <1>1, <1>9, <1>11, <1>12, EntriesSpared
<1>14. Committed(id)' = Committed(id)
  BY <1>4, <1>6, <1>8, CommittedStays
<1>15. Held(id)' = Held(id) /\ Held(id) \in Nat
  BY <1>1, <1>6, <1>8, <1>14, HeldCounts DEF Held, NumPrompt
<1>16. Reaches(id)'
  <2>1. row # -1 /\ phase # "abort"
    BY <1>4, <1>7, CacheSizes DEF Rows, Pool!Rows, Passes
  <2>2. Reaches(id)
    BY <1>3, <1>6, <2>1 DEF KVInv, KVHeld
  <2>3. PICK n : n = seqs[id].blocks /\ n \in Nat
    BY <1>1, <1>3, <1>6, <2>1 DEF InUse
  <2>4. n * BlockSize \in Nat /\ (n + 1) * BlockSize = n * BlockSize + BlockSize /\ BlockSize \in Nat
    BY <2>3, Sizes
  <2>5. Held(id) <= (n + 1) * BlockSize
    BY <1>15, <2>2, <2>3, <2>4 DEF Reaches
  <2> QED
    BY <1>8, <1>14, <1>15, <2>2, <2>3, <2>5 DEF Reaches, NumPrompt
<1>17. seqs[id].blocks = Len(was)
  BY <1>1, <1>3, <1>6, <1>7, RowOf
<1>18. phase # "abort"
  BY <1>4 DEF Passes
<1> QED
  BY <1>1, <1>3, <1>4, <1>5, <1>6, <1>7, <1>8, <1>9, <1>12, <1>13, <1>15, <1>16, <1>17, <1>18, OneKV

\* A release frees blocks and leaves the entries, and what they hold, alone.
LEMMA ReleaseSpares ==
  ASSUME InUse, InUse', Clobber({}), entries' = entries
  PROVE  Spared({}) /\ EntriesStay
<1>1. Spared({})
  BY ClobberSpares
<1> QED
  BY <1>1, EntriesSpared

\* A planned cut leaves the first blocks, and what is behind them counts no more.
LEMMA PreemptKV ==
  ASSUME Inv, Inv', KVInv, Preempt
  PROVE  KVInv'
<1>1. Base /\ Base' /\ CacheInv /\ InUse /\ InUse'
  BY Views, ViewsNext
<1>2. PICK id, keep : id = Head(victims)[1] /\ keep = Head(victims)[2]
  OBVIOUS
<1>3. PICK row, s, t : row = seqs[id].row /\ s = seqs[id] /\ t = Truncated(s, keep)
  OBVIOUS
<1>4. /\ victims # <<>> /\ Pool!FreeBlocksFrom(row, keep) /\ Clobber({})
      /\ entries' = entries /\ seqs' = [seqs EXCEPT ![id] = t]
      /\ running' = running /\ waiting' = waiting /\ batch' = batch
  BY <1>2, <1>3 DEF Preempt, queue_vars
<1>5. AtSequence /\ phase \in Passes
  BY <1>1, <1>4 DEF Base, Planned, Unhurried, AtSequence
<1>6. /\ id \in Range(running) /\ s.state = "RUNNING" /\ ~InBatch(id) /\ id # Head(Serving)
      /\ keep \in 1 .. s.blocks - 1
  <2>1. PICK list : list = victims
    OBVIOUS
  <2>2. list \in Seq(Nat \X Nat) /\ list # <<>>
    BY <1>1, <1>4, <2>1, ListFacts
  <2>3. 1 \in 1 .. Len(list) /\ Head(list) = list[1]
    BY <2>2
  <2>4. 1 \in 1 .. Len(victims) /\ id = victims[1][1] /\ keep = victims[1][2]
    BY <1>2, <2>1, <2>3
  <2> QED
    BY <1>1, <1>3, <2>4 DEF Base, Planned
<1>7. id \in DOMAIN seqs /\ id \in Live /\ Live' = Live
  BY <1>1, <1>4, <1>6, ListFacts DEF Live
<1>8. row \in Rows /\ row # -1
  BY <1>1, <1>3, <1>6, <1>7, RowOf
<1>9. PICK S : seqs \in [DOMAIN seqs -> Records(S)] /\ s \in Records(S)
  BY <1>1, <1>3, <1>7 DEF Base, Typed
<1>10. /\ s.prefilled <= NumPrompt(s) /\ (s.generated > 0 => Complete(s)) /\ s.generated < Target(s)
       /\ Len(s.chain) * BlockSize <= s.prefilled
  BY <1>1, <1>3, <1>5, <1>6, <1>7 DEF Base, Measured, Passes
<1>11. ~Complete(s) => s.blocks * BlockSize <= s.prefilled + BlockSize
  <2>1. ~Served(id)
    BY <1>6 DEF Served
  <2> QED
    BY <1>1, <1>3, <1>6, <1>7, <2>1, ProvidedFacts
<1>12. PICK cut : cut = keep * BlockSize
  OBVIOUS
<1>13. /\ t \in Records(S) /\ t.prompt = s.prompt /\ t.row = s.row /\ t.blocks = keep
       /\ t.prefilled <= s.prefilled /\ t.prefilled <= t.blocks * BlockSize
       /\ t.generated \in Nat /\ t.generated <= s.generated
       /\ t.generated > 0 => Complete(t)
       /\ cut < NumPrompt(s) => t.generated = 0
       /\ cut >= NumPrompt(s) => t.generated <= cut - NumPrompt(s)
  BY <1>3, <1>6, <1>9, <1>10, <1>11, <1>12, TruncatedFacts
<1>14. /\ DOMAIN seqs' = DOMAIN seqs /\ seqs'[id] = t
       /\ \A other \in DOMAIN seqs \ {id} : seqs'[other] = seqs[other]
  BY <1>4, <1>7, <1>9, <1>13, SeqsUpdated
<1>15. Committed(id) = s.prefilled
  BY <1>1, <1>3, <1>6, <1>7, CommittedAll
<1>16. Committed(id)' = t.prefilled
  <2>1. \A i \in 1 .. Len(batch') : batch'[i].id = id => batch'[i].decode
    <3>1. DOMAIN batch = 1 .. Len(batch)
      BY <1>1, ListFacts
    <3> QED
      BY <1>4, <1>6, <3>1 DEF InBatch
  <2> QED
    BY <1>1, <1>7, <1>14, <2>1, CommittedIsShownNext DEF CommittedShown
<1>17. PICK n, c, d, g, e : /\ n = NumPrompt(s) /\ c = s.prefilled /\ d = t.prefilled
                            /\ g = s.generated /\ e = t.generated
  OBVIOUS
<1>18. /\ n \in Nat /\ c \in Nat /\ d \in Nat /\ g \in Nat /\ e \in Nat /\ cut \in Nat
       /\ NumPrompt(t) = n
  <2>1. /\ s.prefilled \in Nat /\ s.generated \in Nat /\ NumPrompt(s) \in Nat
        /\ t.prefilled \in Nat
    BY <1>9, <1>13, RecordFacts
  <2>2. cut \in Nat
    BY <1>6, <1>12, Sizes
  <2>3. NumPrompt(t) = NumPrompt(s)
    BY <1>13 DEF NumPrompt
  <2> QED
    BY <1>13, <1>17, <2>1, <2>2, <2>3
<1>19. /\ Held(id) = IF c >= n THEN n + (IF g = 0 THEN 0 ELSE g - 1) ELSE c
       /\ Held(id)' = IF d >= n THEN n + (IF e = 0 THEN 0 ELSE e - 1) ELSE d
  BY <1>3, <1>14, <1>15, <1>16, <1>17, <1>18 DEF Held
<1>20. /\ d <= c /\ d <= cut /\ e <= g
       /\ cut < n => e = 0
       /\ cut >= n => e <= cut - n
       /\ d < n => e = 0
  BY <1>12, <1>13, <1>17, <1>18 DEF Complete
<1>21. Held(id)' <= Held(id) /\ Held(id)' <= cut
  BY <1>18, <1>19, <1>20
<1>22. Reaches(id)'
  BY <1>12, <1>13, <1>14, <1>16, <1>17, <1>18, <1>20, <1>21 DEF Reaches
<1>23. /\ \A r \in Rows \ {row} : block_tables'[r] = block_tables[r]
       /\ \A i \in 1 .. keep : block_tables'[row][i] = block_tables[row][i]
  BY <1>1, <1>4, <1>8, ReleaseFacts
<1>24. Spared({}) /\ EntriesStay
  BY <1>1, <1>4, ReleaseSpares
<1>25. \A i \in 1 .. s.blocks : i <= t.blocks => block_tables'[row][i] = block_tables[row][i]
  BY <1>6, <1>13, <1>23
<1>26. phase # "abort" /\ seqs'[id].row = row /\ seqs'[id].prompt = seqs[id].prompt
  BY <1>3, <1>5, <1>13, <1>14 DEF Passes
<1> QED
  BY <1>1, <1>3, <1>4, <1>7, <1>8, <1>14, <1>21, <1>22, <1>23, <1>24, <1>25, <1>26, OneKV

\* A sequence ends.
LEMMA RetireKV ==
  ASSUME Inv, Inv', KVInv, NEW id \in Range(running), phase \in {"abort", "update"}, Retire(id)
  PROVE  KVInv'
<1>1. Base /\ Base' /\ CacheInv /\ InUse /\ InUse'
  BY Views, ViewsNext
<1>2. PICK row : row = seqs[id].row
  OBVIOUS
<1>3. /\ Live' = Live \ {id} /\ row \in Rows /\ Pool!FreeBlocksFrom(row, 0)
      /\ DOMAIN seqs' = DOMAIN seqs
      /\ \A other \in DOMAIN seqs \ {id} : seqs'[other] = seqs[other]
  BY <1>1, <1>2, RetireKeeps
<1>4. /\ phase' = phase /\ batch' = batch /\ entries' = entries /\ Clobber({})
  BY DEF Retire, step_vars
<1>5. id \in Live
  BY <1>1, ListFacts
<1>6. \A r \in Rows \ {row} : block_tables'[r] = block_tables[r]
  BY <1>1, <1>3, ReleaseFacts
<1>7. Spared({}) /\ EntriesStay
  BY <1>1, <1>4, ReleaseSpares
<1>8. CASE phase = "abort"
  BY <1>1, <1>4, <1>7, <1>8, KVStays
<1>9. CASE phase # "abort"
  BY <1>1, <1>2, <1>3, <1>4, <1>5, <1>6, <1>7, <1>9, OneKV
<1> QED
  BY <1>8, <1>9

\* A block is recorded: what its sequence reads there is what the hash stands for.
LEMMA RecordKV ==
  ASSUME SP!NoCollisions, Inv, Inv', KVInv, RecordBlock
  PROVE  KVInv'
<1>1. Base /\ Base' /\ CacheInv /\ InUse /\ InUse' /\ PoolView /\ SP!SharingInv
  BY Views, ViewsNext DEF Inv
<1>2. PICK id : id = Head(Unrecorded)
  OBVIOUS
<1>3. PICK row, prompt, chain, i, tokens, h, block :
        /\ row = seqs[id].row /\ chain = seqs[id].chain /\ i = Len(chain) + 1
        /\ prompt = seqs[id].prompt
        /\ tokens = Paged(prompt)[i] /\ h = BlockHash(Before(chain, i), tokens)
        /\ block = Table(id)[i]
  OBVIOUS
<1>4. /\ Live' = Live /\ id \in Live /\ id \in DOMAIN seqs
      /\ seqs[id].state = "RUNNING" /\ phase = "record"
      /\ InsertBlock(h, Before(chain, i), tokens, block)
      /\ i \in Nat /\ i >= 1 /\ i <= seqs[id].prefilled \div BlockSize
      /\ i <= Cacheable(Paged(prompt))
      /\ DOMAIN seqs' = DOMAIN seqs
      /\ seqs'[id] = [seqs[id] EXCEPT !.chain = Append(chain, h)]
      /\ \A other \in DOMAIN seqs \ {id} : seqs'[other] = seqs[other]
  BY <1>1, <1>2, <1>3, RecordBlockKeeps
<1>5. batch' = batch /\ batch = <<>> /\ Clobber({})
  BY <1>1, <1>4, ListFacts DEF RecordBlock, step_vars, Passes
<1>6. row # -1 /\ row \in Rows
  BY <1>1, <1>3, <1>4, RowOf
<1>7. /\ seqs'[id].row = row /\ seqs'[id].prompt = prompt
      /\ seqs'[id].prefilled = seqs[id].prefilled /\ seqs'[id].generated = seqs[id].generated
      /\ seqs'[id].blocks = seqs[id].blocks
      /\ chain \in Seq(Range(chain)) /\ prompt \in {q.prompt : q \in Accepted}
  <2>1. PICK S : seqs \in [DOMAIN seqs -> Records(S)]
    BY <1>1 DEF Base, Typed
  <2>2. seqs[id] \in Records(S)
    BY <1>4, <2>1
  <2>3. chain \in Seq(S)
    BY <1>3, <2>2 DEF Records
  <2>4. chain \in Seq(Range(chain))
    BY <2>3, OwnElements
  <2> QED
    BY <1>3, <1>4, <2>2, <2>4 DEF Records
<1>8. Committed(id)' = Committed(id) /\ Committed(id) = seqs[id].prefilled
  BY <1>1, <1>4, <1>5, <1>7, CommittedStays, CommittedAll
<1>9. Held(id)' = Held(id) /\ Held(id) \in Nat /\ seqs[id].prefilled <= Held(id)
  BY <1>1, <1>3, <1>4, <1>7, <1>8, HeldCounts DEF Held, NumPrompt
<1>10. Reaches(id) /\ OwnKV(id)
  BY <1>3, <1>4, <1>6 DEF KVInv, KVHeld
<1>11. Reaches(id)'
  BY <1>3, <1>7, <1>8, <1>9, <1>10 DEF Reaches, NumPrompt
<1>12. i * BlockSize \in Nat /\ i * BlockSize <= seqs[id].prefilled
  <2>1. PICK n : n = seqs[id].prefilled /\ n \in Nat
    BY <1>1, <1>4, HeldCounts DEF Sound
  <2>2. BlockSize \in Nat \ {0} /\ i * BlockSize \in Nat
    BY <1>4, Sizes
  <2>3. i * BlockSize <= n
    BY <1>4, <2>1, <2>2, FullBlocks
  <2> QED
    BY <2>1, <2>2, <2>3
<1>13. i \in 1 .. seqs[id].blocks /\ block = block_tables[row][i]
  <2>1. PICK n : n = seqs[id].blocks /\ n \in Nat
    BY <1>1, <1>3, <1>4, <1>6 DEF InUse
  <2>2. i * BlockSize <= n * BlockSize
    <3>1. n * BlockSize \in Nat /\ Held(id) <= n * BlockSize
      BY <1>10, <2>1, Sizes DEF Reaches
    <3>2. seqs[id].prefilled \in Nat
      BY <1>1, <1>4, HeldCounts DEF Sound
    <3> QED
      BY <1>9, <1>12, <3>1, <3>2
  <2>3. i <= n
    <3>1. i \in Int /\ n \in Int /\ BlockSize \in Nat \ {0}
      BY <1>4, <2>1, Sizes
    <3> QED
      BY <2>2, <3>1, Multiples
  <2> QED
    BY <1>3, <1>4, <2>1, <2>3 DEF Table
<1>14. Holds(kv[block], prompt, i)
  <2> SUFFICES ASSUME NEW p \in Nat, (i - 1) * BlockSize <= p, p < i * BlockSize
               PROVE  kv[block][p % BlockSize] = Context(prompt, p)
    BY DEF Holds
  <2>1. p < Held(id)
    <3>1. seqs[id].prefilled \in Nat
      BY <1>1, <1>4, HeldCounts DEF Sound
    <3> QED
      BY <1>9, <1>12, <3>1
  <2>2. BlockIndex(p) = i
    <3>1. BlockIndex(p) \in Nat /\ BlockIndex(p) <= i
      BY <1>4, InTable
    <3>2. ~(BlockIndex(p) <= i - 1)
      <4>1. PICK j : j = BlockIndex(p) /\ j \in Nat /\ p < j * BlockSize
        BY <3>1, InTable
      <4>2. PICK m : m = i - 1 /\ m \in Nat
        BY <1>4
      <4>3. BlockSize \in Nat \ {0} /\ m * BlockSize \in Nat /\ j * BlockSize \in Nat
        BY <4>1, <4>2, Sizes
      <4>4. ~(j * BlockSize <= m * BlockSize)
        BY <4>1, <4>2, <4>3
      <4>5. ~(j <= m)
        BY <4>1, <4>2, <4>3, <4>4, Multiples
      <4> QED
        BY <4>1, <4>2, <4>5
    <3> QED
      BY <1>4, <3>1, <3>2
  <2> QED
    BY <1>3, <1>10, <1>13, <2>1, <2>2 DEF OwnKV
<1>15. SP!IsHashOf(h, Paged(prompt), i)
  <2>1. /\ RowPrompt[row] = Paged(prompt) /\ RowChain[row] = chain /\ SP!Rows = Rows
    BY <1>1, <1>3, <1>4, <1>6, RowOfSequence
  <2>2. SP!IsChain(chain, Paged(prompt), Len(chain))
    BY <1>1, <1>6, <2>1 DEF SP!SharingInv, SP!ChainsOwn
  <2>3. h = BlockHash(SP!Before(chain, Len(chain) + 1), Paged(prompt)[Len(chain) + 1])
    BY <1>3, SharedEffects
  <2>4. SP!IsHashOf(h, Paged(prompt), Len(chain) + 1)
    <3>1. PICK S, p : S = Range(chain) /\ p = Paged(prompt)
      OBVIOUS
    <3>2. chain \in Seq(S) /\ SP!IsChain(chain, p, Len(chain))
          /\ h = BlockHash(SP!Before(chain, Len(chain) + 1), p[Len(chain) + 1])
      BY <1>7, <2>2, <2>3, <3>1
    <3>3. SP!IsHashOf(h, p, Len(chain) + 1)
      BY <3>2, RowsFit, SP!ChainGrows
    <3> QED
      BY <3>1, <3>3
  <2> QED
    BY <1>3, <2>4
<1>16. /\ block_tables' = block_tables
       /\ \A g \in DOMAIN entries' :
            \/ g \in DOMAIN entries /\ entries'[g] = entries[g]
            \/ g = h /\ entries'[g].block = block
  <2>1. i \in 1 .. Len(block_tables[row])
    BY <1>1, <1>3, <1>4, <1>6, <1>13 DEF InUse
  <2>2. block \in Blocks /\ ref_counts[block] # 0
    BY <1>1, <1>6, <1>13, <2>1 DEF PoolView
  <2> QED
    BY <1>1, <1>4, <2>2, InsertBlockFacts
<1>17. Spared({})
  BY <1>5, ClobberSpares
<1>18. ASSUME NEW g \in DOMAIN entries'
       PROVE  kv'[entries'[g].block] = kv[entries'[g].block]
  <2>1. entries'[g].block \in Blocks /\ entries'[g].block \notin Range(free_blocks')
    BY <1>1 DEF InUse
  <2> QED
    BY <1>17, <2>1 DEF Spared
<1>19. EntriesHold'
  <2> SUFFICES ASSUME NEW g \in DOMAIN entries', NEW other \in {q.prompt : q \in Accepted},
                      NEW n \in 1 .. Cacheable(Paged(other)), SP!IsHashOf(g, Paged(other), n)
               PROVE  Holds(kv'[entries'[g].block], other, n)
    BY DEF EntriesHold, Accepted, Paged, Cacheable, Holds, Context, CeilDiv, SP!IsHashOf, SP!IsChain,
           SP!Before
  <2>1. CASE g \in DOMAIN entries /\ entries'[g] = entries[g]
    <3>1. Holds(kv[entries[g].block], other, n)
      BY <2>1 DEF KVInv, EntriesHold
    <3> QED
      BY <1>18, <2>1, <3>1
  <2>2. CASE g = h /\ entries'[g].block = block
    <3>1. i \in 1 .. Cacheable(Paged(prompt))
      <4>1. Cacheable(Paged(prompt)) \in Int
        BY <1>7, PagedFacts
      <4> QED
        BY <1>4, <4>1
    <3>2. Holds(kv[block], other, n)
      BY <1>7, <1>14, <1>15, <2>2, <3>1, SameHash
    <3> QED
      BY <1>18, <2>2, <3>2
  <2> QED
    BY <1>16, <2>1, <2>2
<1>20. \A r \in Rows \ {row} : block_tables'[r] = block_tables[r]
  BY <1>16
<1>21. \A j \in 1 .. seqs[id].blocks :
         j <= seqs'[id].blocks => block_tables'[row][j] = block_tables[row][j]
  BY <1>16
<1>22. phase # "abort" /\ Live' \subseteq Live /\ Held(id)' <= Held(id)
  BY <1>4, <1>9
<1>23. /\ seqs'[id].row = row /\ seqs'[id].prompt = seqs[id].prompt /\ seqs[id].row = row
       /\ id \in Live /\ DOMAIN seqs' = DOMAIN seqs /\ batch' = batch
       /\ \A other \in DOMAIN seqs \ {id} : seqs'[other] = seqs[other]
  BY <1>3, <1>4, <1>5, <1>7
<1> QED
  BY <1>1, <1>6, <1>11, <1>17, <1>19, <1>20, <1>21, <1>22, <1>23, OneKV

\* Two rows of the batch write the same slot only if they are the same row, so
\* that each slot gets what its row writes; the other slots keep what they had.
LEMMA ForwardWrites ==
  ASSUME Inv, Forward
  PROVE  /\ \A i \in DOMAIN batch : \A p \in Positions(batch[i]) :
              kv'[Table(batch[i].id)[BlockIndex(p)]][p % BlockSize]
                = Context(seqs[batch[i].id].prompt, p)
         /\ \A b \in Blocks : \A slot \in Slots :
              \/ kv'[b][slot] = kv[b][slot]
              \/ \E i \in DOMAIN batch : \E p \in Positions(batch[i]) :
                   Table(batch[i].id)[BlockIndex(p)] = b /\ p % BlockSize = slot
<1> DEFINE By(i, p) == [block |-> Table(batch[i].id)[BlockIndex(p)], slot |-> p % BlockSize,
                        context |-> Context(seqs[batch[i].id].prompt, p)]
           To(b, slot) == {w \in Writes : w.block = b /\ w.slot = slot}
<1>1. Base /\ PoolView
  BY Views
<1>2. kv' = [b \in Blocks |-> [slot \in Slots |->
               IF To(b, slot) = {} THEN kv[b][slot]
                                   ELSE (CHOOSE w \in To(b, slot) : TRUE).context]]
  BY DEF Forward
<1>3. ASSUME NEW w \in Writes
      PROVE  \E i \in DOMAIN batch : \E p \in Positions(batch[i]) : w = By(i, p)
  <2>1. PICK chunk \in Range(batch) : \E p \in Positions(chunk) :
          w = [block |-> Table(chunk.id)[BlockIndex(p)], slot |-> p % BlockSize,
               context |-> Context(seqs[chunk.id].prompt, p)]
    BY DEF Writes
  <2>2. PICK i \in DOMAIN batch : batch[i] = chunk
    BY DEF Range
  <2> QED
    BY <2>1, <2>2
<1>4. ASSUME NEW i \in DOMAIN batch, NEW p \in Positions(batch[i])
      PROVE  By(i, p) \in Writes
  <2>1. batch[i] \in Range(batch)
    BY DEF Range
  <2> QED
    BY <2>1 DEF Writes
<1>5. ASSUME NEW i \in DOMAIN batch, NEW p \in Positions(batch[i]),
             NEW m \in DOMAIN batch, NEW q \in Positions(batch[m]),
             By(m, q).block = By(i, p).block, By(m, q).slot = By(i, p).slot
      PROVE  By(m, q).context = By(i, p).context
  <2>1. PICK id, row, other, base :
          /\ id = batch[i].id /\ row = seqs[id].row /\ other = batch[m].id /\ base = seqs[other].row
    OBVIOUS
  <2>2. /\ id \in Live /\ row \in Rows /\ row # -1 /\ Table(id) = block_tables[row] /\ p \in Nat
        /\ BlockIndex(p) \in 1 .. Len(block_tables[row])
    BY <2>1, MayWrite
  <2>3. /\ other \in Live /\ base \in Rows /\ Table(other) = block_tables[base] /\ q \in Nat
        /\ BlockIndex(q) \in 1 .. Len(block_tables[base])
    BY <2>1, MayWrite
  <2>4. base = row /\ BlockIndex(q) = BlockIndex(p)
    <3>1. block_tables[base][BlockIndex(q)] = Table(batch[i].id)[BlockIndex(p)]
      BY <1>5, <2>1, <2>3
    <3> QED
      BY <2>1, <2>3, <3>1, OwnBlock
  <2>5. other = id
    <3>1. \A a, b \in Live : seqs[a].row # -1 /\ seqs[a].row = seqs[b].row => a = b
      BY <1>1 DEF Base, Holdings
    <3>2. seqs[id].row = row /\ seqs[other].row = row
      BY <2>1, <2>4
    <3> QED
      BY <2>2, <2>3, <3>1, <3>2
  <2>6. p = q
    <3>1. PICK r, k, n : r = p % BlockSize /\ k = BlockIndex(p) /\ n = (k - 1) * BlockSize
      OBVIOUS
    <3>2. p = n + r /\ q = n + r
      <4>1. p = (BlockIndex(p) - 1) * BlockSize + (p % BlockSize)
        BY <2>2, InTable
      <4>2. q = (BlockIndex(q) - 1) * BlockSize + (q % BlockSize)
        BY <2>3, InTable
      <4>3. q % BlockSize = r
        BY <1>5, <3>1
      <4> QED
        BY <2>4, <3>1, <4>1, <4>2, <4>3
    <3> QED
      BY <3>2
  <2> QED
    BY <2>1, <2>5, <2>6
<1>6. ASSUME NEW i \in DOMAIN batch, NEW p \in Positions(batch[i])
      PROVE  kv'[Table(batch[i].id)[BlockIndex(p)]][p % BlockSize]
               = Context(seqs[batch[i].id].prompt, p)
  <2>1. PICK b, slot : b = Table(batch[i].id)[BlockIndex(p)] /\ slot = p % BlockSize
    OBVIOUS
  <2>2. b \in Blocks /\ slot \in Slots
    <3>1. /\ seqs[batch[i].id].row \in Rows
          /\ Table(batch[i].id) = block_tables[seqs[batch[i].id].row] /\ p \in Nat
          /\ BlockIndex(p) \in 1 .. Len(block_tables[seqs[batch[i].id].row])
      BY MayWrite
    <3>2. b \in Blocks
      BY <1>1, <2>1, <3>1 DEF PoolView
    <3> QED
      BY <2>1, <3>1, <3>2, InTable
  <2>3. By(i, p) \in To(b, slot)
    BY <1>4, <2>1
  <2>4. PICK w \in To(b, slot) : kv'[b][slot] = w.context
    BY <1>2, <2>2, <2>3
  <2>5. PICK m \in DOMAIN batch : \E q \in Positions(batch[m]) : w = By(m, q)
    BY <1>3
  <2>6. PICK q \in Positions(batch[m]) : w = By(m, q)
    BY <2>5
  <2>7. By(m, q).block = By(i, p).block /\ By(m, q).slot = By(i, p).slot
    BY <2>1, <2>6
  <2>8. By(m, q).context = By(i, p).context
    BY ONLY <1>5, <2>7
  <2> QED
    BY <2>1, <2>4, <2>6, <2>8
<1>7. ASSUME NEW b \in Blocks, NEW slot \in Slots, kv'[b][slot] # kv[b][slot]
      PROVE  \E i \in DOMAIN batch : \E p \in Positions(batch[i]) :
               Table(batch[i].id)[BlockIndex(p)] = b /\ p % BlockSize = slot
  <2>1. To(b, slot) # {}
    BY <1>2, <1>7
  <2>2. PICK w \in Writes : w.block = b /\ w.slot = slot
    BY <2>1
  <2>3. PICK i \in DOMAIN batch : \E p \in Positions(batch[i]) : w = By(i, p)
    BY <1>3
  <2> QED
    BY <2>2, <2>3
<1> QED
  BY <1>6, <1>7

\* What a forward pass adds to what is held of a sequence, its rows write.
LEMMA ForwardHeld ==
  ASSUME Base, Base', KVHeld, Forward, NEW id \in Live, seqs[id].row # -1
  PROVE  /\ id \in Live' /\ seqs'[id].row = seqs[id].row /\ seqs'[id].prompt = seqs[id].prompt
         /\ Reaches(id)'
         /\ \A p \in Nat : p < Held(id)' =>
              \/ p < Held(id)
              \/ \E i \in DOMAIN batch : batch[i].id = id /\ p \in Positions(batch[i])
<1>1. PICK s, t : s = seqs[id] /\ t = seqs'[id]
  OBVIOUS
<1>2. /\ Live' = Live /\ id \in DOMAIN seqs /\ batch' = <<>> /\ phase = "execute"
      /\ Sound(s) /\ s.prefilled <= NumPrompt(s) /\ s.prefilled <= s.blocks * BlockSize
      /\ t.prefilled = s.prefilled /\ t.prompt = s.prompt /\ t.row = s.row
  BY <1>1, ForwardKeeps, HeldCounts, ProvidedFacts DEF Forward
<1>3. t = IF \E chunk \in Range(batch) : chunk.id = id /\ chunk.decode
            THEN [s EXCEPT !.generated = @ + 1] ELSE s
  BY <1>1, <1>2 DEF Forward
<1>4. PICK S : seqs \in [DOMAIN seqs -> Records(S)]
  BY DEF Base, Typed
<1>5. s \in Records(S)
  BY <1>1, <1>2, <1>4
<1>6. t.blocks = s.blocks
  BY <1>3, <1>5 DEF Records
<1>7. DOMAIN batch = 1 .. Len(batch) /\ Len(batch) \in Nat
  BY ListFacts
<1>8. PICK n, c, g, room :
        n = NumPrompt(s) /\ c = s.prefilled /\ g = s.generated /\ room = s.blocks * BlockSize
  OBVIOUS
<1>9. n \in Nat /\ c \in Nat /\ g \in Nat /\ room \in Nat /\ c <= n /\ c <= room /\ n = NumPrompt(t)
  BY <1>2, <1>8 DEF Sound, NumPrompt
<1>10. Committed(id)' = c
  <2>1. 1 .. Len(batch') = {}
    BY <1>2
  <2> QED
    BY <1>1, <1>2, <1>8, <2>1, CommittedIsShownNext DEF CommittedShown
<1>11. Held(id)' = IF c >= n THEN n + (IF t.generated = 0 THEN 0 ELSE t.generated - 1) ELSE c
  BY <1>1, <1>9, <1>10 DEF Held
<1>12. Reaches(id)
  BY <1>2 DEF KVHeld
<1>13. PICK from : from = Committed(id) /\ from \in Nat
  BY HeldCounts
<1>14. Held(id) = IF from >= n THEN n + (IF g = 0 THEN 0 ELSE g - 1) ELSE from
  BY <1>1, <1>8, <1>13 DEF Held
<1>15. Held(id) <= room /\ (from < n => g = 0)
  BY <1>1, <1>8, <1>12, <1>13 DEF Reaches
<1>16. Held(id)' <= room /\ (c < n => t.generated = 0) =>  Reaches(id)'
  BY <1>1, <1>6, <1>8, <1>9, <1>10 DEF Reaches
<1>17. CASE \E i \in 1 .. Len(batch) : batch[i].id = id
  <2>1. PICK i \in 1 .. Len(batch) : batch[i].id = id
    BY <1>17
  <2>2. \A j \in 1 .. Len(batch) : batch[j].id = id => j = i
    BY <2>1 DEF Base, Batched
  <2>3. PICK start, len : start = batch[i].start /\ len = batch[i].len
                          /\ start \in Nat /\ len \in Nat \ {0}
    <3>1. batch[i] \in Runs
      BY <2>1, ListFacts
    <3> QED
      BY <3>1 DEF Runs
  <2>4. \A p : p \in start .. start + len - 1 =>
          \E j \in DOMAIN batch : batch[j].id = id /\ p \in Positions(batch[j])
    BY <1>7, <2>1, <2>3 DEF Positions
  <2>5. CASE batch[i].decode
    <3>1. Complete(s) /\ start = DecodePosition(s) /\ len = 1 /\ start < room
      BY <1>1, <1>8, <2>1, <2>3, <2>5 DEF Base, Batched
    <3>2. c >= n /\ start = n + g - 1
      BY <1>8, <3>1 DEF Complete, DecodePosition
    <3>3. from = c
      BY <1>1, <1>8, <1>13, <2>2, <2>5, CommittedIsShown DEF CommittedShown
    <3>4. t.generated = g + 1
      <4>1. batch[i] \in Range(batch)
        BY <1>7 DEF Range
      <4> QED
        BY <1>3, <1>5, <1>8, <2>1, <2>5, <4>1 DEF Records
    <3>5. Held(id)' = n + g /\ Held(id) = n + (IF g = 0 THEN 0 ELSE g - 1)
      <4>1. t.generated # 0 /\ t.generated - 1 = g
        BY <1>9, <3>4
      <4>2. Held(id)' = n + g
        BY <1>11, <3>2, <4>1
      <4>3. Held(id) = n + (IF g = 0 THEN 0 ELSE g - 1)
        BY <1>14, <3>2, <3>3
      <4> QED
        BY <4>2, <4>3
    <3>6. Held(id)' <= room
      BY <1>9, <3>1, <3>2, <3>5
    <3>7. Reaches(id)'
      BY <1>9, <1>16, <3>2, <3>6
    <3>8. \A p \in Nat : p < Held(id)' => p < Held(id) \/ p \in start .. start + len - 1
      BY <1>9, <3>1, <3>2, <3>5
    <3> QED
      BY <1>1, <1>2, <2>4, <3>7, <3>8
  <2>6. CASE ~batch[i].decode
    <3>1. start + len = c
      BY <1>1, <1>8, <2>1, <2>3, <2>6 DEF Base, Batched
    <3>2. from = start
      BY <1>13, <2>1, <2>3, <2>6, CommittedIsShown DEF CommittedShown
    <3>3. t.generated = g
      <4>1. \A chunk \in Range(batch) : ~(chunk.id = id /\ chunk.decode)
        BY <1>7, <2>2, <2>6 DEF Range
      <4> QED
        BY <1>3, <1>8, <4>1
    <3>4. from < n /\ ~(from >= n) /\ g = 0
      <4>1. start < n
        BY <1>9, <2>3, <3>1
      <4>2. start < n /\ ~(start >= n)
        BY <1>9, <2>3, <4>1
      <4> QED
        BY <1>15, <3>2, <4>2
    <3>5. Held(id)' = c /\ Held(id) = start
      <4>1. Held(id)' = IF c >= n THEN n ELSE c
        BY <1>9, <1>11, <3>3, <3>4
      <4>2. Held(id) = start
        BY <1>14, <3>2, <3>4
      <4>3. c >= n => c = n
        BY <1>9
      <4> QED
        BY <4>1, <4>2, <4>3
    <3>6. Reaches(id)'
      BY <1>9, <1>16, <3>3, <3>4, <3>5
    <3>7. \A p \in Nat : p < Held(id)' => p < Held(id) \/ p \in start .. start + len - 1
      <4>1. start \in Nat /\ len \in Nat
        BY <2>3
      <4>2. \A p \in Nat : p < start + len => p < start \/ p \in start .. start + len - 1
        BY ONLY <4>1
      <4> QED
        BY <3>1, <3>5, <4>2
    <3> QED
      BY <1>1, <1>2, <2>4, <3>6, <3>7
  <2> QED
    BY <2>5, <2>6
<1>18. CASE \A i \in 1 .. Len(batch) : batch[i].id # id
  <2>1. from = c
    BY <1>1, <1>8, <1>13, <1>18, CommittedIsShown DEF CommittedShown
  <2>2. t.generated = g
    <3>1. \A chunk \in Range(batch) : chunk.id # id
      BY <1>7, <1>18 DEF Range
    <3> QED
      BY <1>3, <1>8, <3>1
  <2>3. Held(id)' = Held(id)
    BY <1>11, <1>14, <2>1, <2>2
  <2>4. Reaches(id)'
    BY <1>15, <1>16, <2>1, <2>2, <2>3
  <2> QED
    BY <1>1, <1>2, <2>3, <2>4
<1> QED
  BY <1>17, <1>18

\* A forward pass writes what its sequences will read, and nothing that others do.
LEMMA ForwardKV ==
  ASSUME Inv, Inv', KVInv, Forward
  PROVE  KVInv'
<1>1. Base /\ Base' /\ InUse
  BY Views, ViewsNext
<1>2. /\ phase # "abort" /\ entries' = entries /\ block_tables' = block_tables
  BY DEF Forward, cache_vars, pool_vars
<1>3. Live' = Live
  BY <1>1, ForwardKeeps
<1>4. \A id \in Live : id \in DOMAIN seqs
  BY <1>1, ListFacts
<1>5. ASSUME NEW id \in Live, seqs'[id].row # -1
      PROVE  OwnKV(id)' /\ Reaches(id)'
  <2>1. seqs[id].row # -1
    BY <1>1, <1>4, <1>5, ForwardKeeps
  <2>2. PICK row, prompt : row = seqs[id].row /\ prompt = seqs[id].prompt
    OBVIOUS
  <2>3. /\ seqs'[id].row = row /\ seqs'[id].prompt = prompt /\ Reaches(id)'
        /\ \A p \in Nat : p < Held(id)' =>
              \/ p < Held(id)
              \/ \E i \in DOMAIN batch : batch[i].id = id /\ p \in Positions(batch[i])
    BY <1>1, <2>1, <2>2, ForwardHeld DEF KVInv
  <2>4. PICK n : n = seqs[id].blocks
    OBVIOUS
  <2>5. /\ row \in Rows /\ n = Len(block_tables[row]) /\ n \in Nat /\ Table(id) = block_tables[row]
        /\ \A i \in 1 .. n : block_tables[row][i] \in Blocks
    BY <1>1, <2>1, <2>2, <2>4 DEF InUse
  <2>6. seqs'[id].blocks = n
    <3>1. PICK S : seqs \in [DOMAIN seqs -> Records(S)]
      BY <1>1 DEF Base, Typed
    <3>2. seqs[id] \in Records(S) /\ id \in DOMAIN seqs
      BY <1>4, <3>1
    <3> QED
      BY <2>4, <3>2 DEF Records, Forward
  <2>7. Held(id)' \in Nat /\ n * BlockSize \in Nat /\ Held(id)' <= n * BlockSize
    BY <1>1, <1>3, <2>3, <2>5, <2>6, HeldCountsNext, Sizes DEF Reaches
  <2>8. OwnKV(id)'
    <3> SUFFICES ASSUME NEW p \in Nat, p < Held(id)'
                 PROVE  kv'[block_tables[row][BlockIndex(p)]][p % BlockSize] = Context(prompt, p)
      BY <1>2, <2>3 DEF OwnKV, BlockIndex, Context
    <3>1. p < n * BlockSize
      BY <2>7
    <3>2. /\ BlockIndex(p) \in 1 .. n /\ p % BlockSize \in Slots
          /\ block_tables[row][BlockIndex(p)] \in Blocks
      BY <2>5, <3>1, InTable
    <3>3. CASE \E i \in DOMAIN batch : batch[i].id = id /\ p \in Positions(batch[i])
      BY <2>2, <2>5, <3>3, ForwardWrites
    <3>4. CASE /\ p < Held(id)
               /\ kv'[block_tables[row][BlockIndex(p)]][p % BlockSize]
                    = kv[block_tables[row][BlockIndex(p)]][p % BlockSize]
      <4>1. OwnKV(id)
        BY <1>2, <2>1 DEF KVInv, KVHeld
      <4> QED
        BY <2>2, <3>4, <4>1 DEF OwnKV
    <3>5. CASE \E i \in DOMAIN batch : \E q \in Positions(batch[i]) :
                 /\ Table(batch[i].id)[BlockIndex(q)] = block_tables[row][BlockIndex(p)]
                 /\ q % BlockSize = p % BlockSize
      <4>0. PICK i \in DOMAIN batch : \E q \in Positions(batch[i]) :
                 /\ Table(batch[i].id)[BlockIndex(q)] = block_tables[row][BlockIndex(p)]
                 /\ q % BlockSize = p % BlockSize
        BY <3>5
      <4>1. PICK q \in Positions(batch[i]) :
                 /\ Table(batch[i].id)[BlockIndex(q)] = block_tables[row][BlockIndex(p)]
                 /\ q % BlockSize = p % BlockSize
        BY <4>0
      <4>2. row = seqs[batch[i].id].row /\ BlockIndex(q) = BlockIndex(p)
        BY <2>5, <3>2, <4>1, OwnBlock
      <4>3. batch[i].id \in Live /\ q \in Nat
        BY MayWrite
      <4>4. batch[i].id = id
        <5>1. \A a, b \in Live : seqs[a].row # -1 /\ seqs[a].row = seqs[b].row => a = b
          BY <1>1 DEF Base, Holdings
        <5> QED
          BY <2>1, <2>2, <4>2, <4>3, <5>1
      <4>5. p = q
        <5>1. PICK r, k, m : r = p % BlockSize /\ k = BlockIndex(p) /\ m = (k - 1) * BlockSize
          OBVIOUS
        <5>2. p = (BlockIndex(p) - 1) * BlockSize + (p % BlockSize)
          BY InTable
        <5>3. q = (BlockIndex(q) - 1) * BlockSize + (q % BlockSize)
          BY <4>3, InTable
        <5>4. p = m + r /\ q = m + r
          BY <4>1, <4>2, <5>1, <5>2, <5>3
        <5> QED
          BY <5>4
      <4> QED
        BY <3>3, <4>4, <4>5
    <3> QED
      BY <2>3, <3>2, <3>3, <3>4, <3>5, ForwardWrites
  <2> QED
    BY <2>3, <2>8
<1>6. EntriesHold'
  <2> SUFFICES ASSUME NEW h \in DOMAIN entries', NEW prompt \in {q.prompt : q \in Accepted},
                      NEW i \in 1 .. Cacheable(Paged(prompt)), SP!IsHashOf(h, Paged(prompt), i)
               PROVE  Holds(kv'[entries'[h].block], prompt, i)
    BY DEF EntriesHold, Accepted, Paged, Cacheable, Holds, Context, CeilDiv, SP!IsHashOf,
           SP!IsChain, SP!Before
  <2>1. entries' = entries /\ Holds(kv[entries[h].block], prompt, i)
    BY <1>2 DEF KVInv, EntriesHold
  <2>2. entries[h].block \in Blocks
    BY <1>1, <2>1 DEF InUse
  <2>3. \A slot \in Slots : kv'[entries[h].block][slot] = kv[entries[h].block][slot]
    BY <2>1, <2>2, ForwardWrites, OwnBlock
  <2>4. \A p \in Nat : p % BlockSize \in Slots
    BY InTable
  <2> QED
    BY <2>1, <2>3, <2>4 DEF Holds
<1> QED
  BY <1>1, <1>3, <1>5, <1>6, KVStays

-------------------------------------------------------------------------------
(* What every sequence reads is its own.                                     *)

\* The steps of an admission, and those that build a batch.
LEMMA BuiltKV ==
  ASSUME Inv, Inv', KVInv, BeginStep \/ Admission \/ BuildBatch
  PROVE  KVInv'
<1>1. Base /\ Base'
  BY Views, ViewsNext
<1>2. CASE BeginStep \/ EndAdmission \/ EndDecodeRows \/ EndPrefillRows \/ PlanPreemption
  BY <1>1, <1>2, PhaseKV
<1>3. CASE Resume
  BY <1>1, <1>3, ResumeKV
<1>4. CASE ClaimRow
  BY <1>4, ClaimKV
<1>5. CASE MountPrefix
  BY <1>5, MountKV
<1>6. CASE Grow
  BY <1>6, GrowKV
<1>7. CASE Preempt
  BY <1>7, PreemptKV
<1>8. CASE PlaceDecode \/ PlaceChunk \/ PlaceShrunkChunk
  BY <1>1, <1>8, PlaceKV
<1>9. CASE ForceFinish
  BY <1>1, <1>9, ForceFinishKV
<1> QED
  BY <1>2, <1>3, <1>4, <1>5, <1>6, <1>7, <1>8, <1>9 DEF Admission, BuildBatch

\* The steps of an execution, and those after it.
LEMMA ExecutedKV ==
  ASSUME AbortsClean, SP!NoCollisions, Inv, Inv', KVInv, Execution \/ AfterBatch
  PROVE  KVInv'
<1>1. Base /\ Base'
  BY Views, ViewsNext
<1>2. CASE Forward
  BY <1>2, ForwardKV
<1>3. CASE ForwardFails
  BY <1>1, <1>3, ForwardFailsKV
<1>4. CASE AbortOne
  BY <1>1, <1>4, Leaving, RetireKV DEF AbortOne
<1>5. CASE EndAbort
  BY <1>1, <1>5, EndAbortKV
<1>6. CASE RecordBlock
  BY <1>6, RecordKV
<1>7. CASE EndRecord \/ EndUpdate
  BY <1>1, <1>7, PhaseKV
<1>8. CASE RetireDone
  BY <1>1, <1>8, Leaving, RetireKV DEF RetireDone
<1>9. CASE FlushPreempted
  <2>1. Live' = Live
    BY <1>1, <1>9, FlushKeeps
  <2> QED
    BY <1>1, <1>9, <2>1, FlushKV
<1> QED
  BY <1>2, <1>3, <1>4, <1>5, <1>6, <1>7, <1>8, <1>9 DEF Execution, AfterBatch

\* Every step keeps what every sequence reads.
LEMMA EveryKV ==
  ASSUME AbortsClean, SP!NoCollisions, Inv, Inv', KVInv, [Next]_vars
  PROVE  KVInv'
<1>1. Base /\ Base'
  BY Views, ViewsNext
<1>2. CASE \E request \in Requests : AddRequest(request.prompt, request.eos)
  BY <1>1, <1>2, AddRequestKV
<1>3. CASE Step
  BY <1>3, BuiltKV, ExecutedKV DEF Step
<1>4. CASE UNCHANGED vars
  <2>1. /\ kv' = kv /\ entries' = entries /\ block_tables' = block_tables /\ phase' = phase
        /\ seqs' = seqs /\ batch' = batch /\ Live' = Live
    BY <1>4 DEF vars, cache_vars, pool_vars, queue_vars, step_vars, Live
  <2>2. \A id : Committed(id)' = Committed(id)
    BY <2>1 DEF Committed, Prefilling, ChunkOf
  <2> QED
    BY <1>1, <2>1, <2>2, QuietKV
<1> QED
  BY <1>2, <1>3, <1>4 DEF Next

\* Nothing is read at the start.
LEMMA InitKV ==
  ASSUME Init PROVE KVInv
<1>1. Live = {}
  BY DEF Init, Live, Range
<1>2. DOMAIN entries = {}
  BY DEF Init, CacheInit
<1> QED
  BY <1>1, <1>2 DEF KVInv, KVHeld, EntriesHold

\* What a sequence takes for written between two forward passes is what is held
\* of it.
LEMMA WrittenIsHeld ==
  ASSUME Base, phase \notin {"prefill", "execute", "abort"}, NEW id \in Live
  PROVE  Written(seqs[id]) = Held(id)
<1>1. PICK n, c, g : n = NumPrompt(seqs[id]) /\ c = seqs[id].prefilled /\ g = seqs[id].generated
  OBVIOUS
<1>2. n \in Nat /\ c \in Nat /\ g \in Nat
  BY <1>1, HeldCounts DEF Sound
<1>3. Committed(id) = c
  <2>1. phase \notin Passes \cup {"execute"} => 1 .. Len(batch) = {}
    BY DEF Base, Typed
  <2>2. phase = "decode" => \A i \in 1 .. Len(batch) : batch[i].decode
    BY DEF Base, Batched
  <2>3. \A i \in 1 .. Len(batch) : batch[i].decode
    BY <2>1, <2>2 DEF Passes
  <2> QED
    BY <1>1, <2>3, CommittedIsShown DEF CommittedShown
<1>4. Max({g - 1, 0}) = IF g = 0 THEN 0 ELSE g - 1
  BY <1>2, MaxOfTwo
<1>5. Written(seqs[id]) = IF c >= n THEN n + (IF g = 0 THEN 0 ELSE g - 1) ELSE c
  BY <1>1, <1>4 DEF Written, Complete
<1> QED
  BY <1>1, <1>3, <1>5 DEF Held

\* What is held, a sequence finds.
LEMMA HeldIsIntact ==
  ASSUME Inv, KVInv PROVE KVIntact
<1>1. Base /\ InUse
  BY Views
<1> SUFFICES ASSUME phase \notin {"prefill", "execute", "abort"},
                    NEW id \in Live, seqs[id].row # -1, NEW p \in 0 .. Written(seqs[id]) - 1
             PROVE  /\ BlockIndex(p) <= Len(Table(id))
                    /\ kv[Table(id)[BlockIndex(p)]][p % BlockSize] = Context(seqs[id].prompt, p)
  BY DEF KVIntact
<1>2. Reaches(id) /\ OwnKV(id)
  BY DEF KVInv, KVHeld
<1>3. PICK n, row : n = seqs[id].blocks /\ row = seqs[id].row
  OBVIOUS
<1>4. n \in Nat /\ n = Len(block_tables[row]) /\ Table(id) = block_tables[row]
  BY <1>1, <1>3 DEF InUse
<1>5. Held(id) \in Nat /\ n * BlockSize \in Nat /\ Held(id) <= n * BlockSize
  BY <1>1, <1>2, <1>3, <1>4, HeldCounts, Sizes DEF Reaches
<1>6. p \in Nat /\ p < Held(id)
  BY <1>1, <1>5, WrittenIsHeld
<1>7. p < n * BlockSize
  BY <1>5, <1>6
<1>8. BlockIndex(p) \in 1 .. n
  BY <1>4, <1>6, <1>7, InTable
<1> QED
  BY <1>2, <1>3, <1>4, <1>6, <1>8 DEF OwnKV

\* While no two prefixes of the prompts have the same hash, the KV a sequence
\* takes for written is there and is its own, through chunked prefills, shared
\* blocks, cuts, evictions and failed passes.
THEOREM SchedulerKVIntact == ASSUME AbortsClean, SP!NoCollisions PROVE Spec => []KVIntact
<1>1. Init => KVInv
  BY InitKV
<1>2. Inv /\ Inv' /\ KVInv /\ [Next]_vars => KVInv'
  BY EveryKV
<1>3. Inv /\ KVInv => KVIntact
  BY HeldIsIntact
<1> QED
  BY <1>1, <1>2, <1>3, SchedulerInvariant, PTL DEF Spec

-------------------------------------------------------------------------------
(* A round of preemptions frees what it was planned for.                     *)

\* The blocks that cuts give back, and with them those there are to take.
Yielded(cuts) ==
  {b \in Blocks : /\ ref_counts[b] = 1 /\ ~cached[b]
                  /\ \E i \in 1 .. Len(cuts) :
                       \E k \in cuts[i][2] + 1 .. Len(Table(cuts[i][1])) :
                         Table(cuts[i][1])[k] = b}
Available(cuts) == Range(free_blocks) \cup Yielded(cuts)

\* What is left to cut covers what the pass is short of.
PlanCovers ==
  victims # <<>> => ShortBlocks(seqs[Head(Serving)]) <= Cardinality(Available(victims))

\* A plan's account: what it still needs, and what its cuts would give.
Pays(plan, need) == need <= plan.needed + Cardinality(Available(plan.cuts))

\* The blocks there are can be counted.
LEMMA AvailableFinite ==
  ASSUME CacheInv, NEW cuts
  PROVE  /\ Available(cuts) \subseteq Blocks /\ IsFiniteSet(Available(cuts))
         /\ Cardinality(Available(cuts)) \in Nat
<1>1. Range(free_blocks) \subseteq Blocks
  BY PoolFacts, OwnElements DEF CacheInv, PoolView, Range
<1>2. Available(cuts) \subseteq Blocks
  BY <1>1 DEF Available, Yielded
<1>3. IsFiniteSet(Blocks)
  BY CacheSizes, FS_Interval DEF Blocks, Pool!Blocks
<1> QED
  BY <1>2, <1>3, FS_Subset, FS_CardinalityType

\* A running sequence has its table to itself.
LEMMA RunningTable ==
  ASSUME Base, NEW id \in Range(running)
  PROVE  /\ seqs[id].row \in Rows /\ Table(id) = block_tables[seqs[id].row]
         /\ seqs[id].blocks = Len(Table(id))
         /\ \A other \in Range(running) : seqs[other].row = seqs[id].row => other = id
<1>1. \A other \in Range(running) : other \in Live /\ seqs[other].state # "WAITING"
  BY DEF Base, Queues, Live
<1> QED
  BY <1>1, RowOf DEF Table

\* The blocks of a sequence that a cut would free.
Gained(id, keep) ==
  {b \in Blocks : /\ ref_counts[b] = 1 /\ ~cached[b]
                  /\ \E k \in keep + 1 .. Len(Table(id)) : Table(id)[k] = b}

\* They are as many as the scheduler reckons.
LEMMA GainCounts ==
  ASSUME Base, CacheInv, NEW id \in Range(running), NEW keep \in Nat
  PROVE  Gain(seqs[id], keep) <= Cardinality(Gained(id, keep))
<1>1. PICK table : table = Table(id) /\ table = block_tables[seqs[id].row] /\ seqs[id].row \in Rows
  BY RunningTable
<1>2. /\ Len(table) \in Nat /\ \A i \in 1 .. Len(table) : table[i] \in Blocks
      /\ \A i, j \in 1 .. Len(table) : table[i] = table[j] => i = j
  BY <1>1, PoolFacts DEF CacheInv, PoolView
<1> DEFINE places == {i \in keep + 1 .. Len(table) : ref_counts[table[i]] = 1 /\ ~cached[table[i]]}
           named == [i \in places |-> table[i]]
<1>3. Gain(seqs[id], keep) = Cardinality(places)
  BY <1>1 DEF Gain
<1>4. \A i \in places : i \in 1 .. Len(table)
  BY <1>2
<1>5. Gained(id, keep) = {b \in Blocks : /\ ref_counts[b] = 1 /\ ~cached[b]
                                         /\ \E k \in keep + 1 .. Len(table) : table[k] = b}
  BY <1>1 DEF Gained
<1>6. named \in Injection(places, Gained(id, keep))
  <2>1. \A i \in places : table[i] \in Gained(id, keep)
    BY <1>2, <1>4, <1>5
  <2>2. \A i, j \in places : table[i] = table[j] => i = j
    BY <1>2, <1>4
  <2> HIDE DEF places
  <2> QED
    BY <2>1, <2>2 DEF Injection, IsInjective
<1>7. IsFiniteSet(Gained(id, keep))
  <2>1. IsFiniteSet(Blocks)
    BY CacheSizes, FS_Interval DEF Blocks, Pool!Blocks
  <2> QED
    BY <1>5, <2>1, FS_Subset
<1> HIDE DEF places, named
<1> QED
  BY <1>3, <1>6, <1>7, FS_Injection

\* What another cut frees is neither free nor freed by the others.
LEMMA GainedApart ==
  ASSUME Base, CacheInv, NEW id \in Range(running), NEW keep \in Nat,
         NEW cuts \in Seq(Nat \X Nat),
         \A i \in 1 .. Len(cuts) : cuts[i][1] \in Range(running) /\ cuts[i][1] # id
  PROVE  Gained(id, keep) \cap Available(cuts) = {}
<1> SUFFICES ASSUME NEW b \in Gained(id, keep), b \in Available(cuts) PROVE FALSE
  OBVIOUS
<1>1. PICK k \in keep + 1 .. Len(Table(id)) : Table(id)[k] = b
  BY DEF Gained
<1>2. ref_counts[b] = 1 /\ b \in Blocks
  BY DEF Gained
<1>3. PICK row \in Rows : row = seqs[id].row /\ Table(id) = block_tables[row]
  BY RunningTable
<1>4. k \in 1 .. Len(block_tables[row]) /\ block_tables[row][k] = b
  <2>1. Len(block_tables[row]) \in Nat
    BY PoolFacts DEF CacheInv, PoolView
  <2> QED
    BY <1>1, <1>3, <2>1
<1>5. b \notin Range(free_blocks)
  BY <1>4, PoolFacts DEF CacheInv, PoolView
<1>6. PICK i \in 1 .. Len(cuts) :
        \E n \in cuts[i][2] + 1 .. Len(Table(cuts[i][1])) : Table(cuts[i][1])[n] = b
  BY <1>5 DEF Available, Yielded
<1>7. PICK other, least \in Nat : other = cuts[i][1] /\ least = cuts[i][2]
  <2>1. cuts[i] \in Nat \X Nat
    OBVIOUS
  <2> QED
    BY <2>1
<1>8. other \in Range(running) /\ other # id
  BY <1>7
<1>9. PICK q \in Rows : q = seqs[other].row /\ Table(other) = block_tables[q] /\ q # row
  BY <1>3, <1>8, RunningTable
<1>10. PICK n \in least + 1 .. Len(block_tables[q]) : block_tables[q][n] = b
  BY <1>6, <1>7, <1>9
<1>11. n \in 1 .. Len(block_tables[q])
  <2>1. Len(block_tables[q]) \in Nat
    BY PoolFacts DEF CacheInv, PoolView
  <2> QED
    BY <1>10, <2>1
<1> QED
  BY <1>2, <1>4, <1>9, <1>10, <1>11, OnceMounted

\* A cut more makes what it frees available.
LEMMA OneCutMore ==
  ASSUME NEW cuts \in Seq(Nat \X Nat), NEW id \in Nat, NEW keep \in Nat
  PROVE  Available(cuts) \cup Gained(id, keep) \subseteq Available(Append(cuts, <<id, keep>>))
<1>1. PICK more, cut : more = Append(cuts, cut) /\ cut = <<id, keep>>
  OBVIOUS
<1>2. cut \in Nat \X Nat /\ cut[1] = id /\ cut[2] = keep
  BY <1>1
<1>3. /\ Len(cuts) \in Nat /\ Len(more) = Len(cuts) + 1 /\ more[Len(cuts) + 1] = cut
      /\ \A i \in 1 .. Len(cuts) : more[i] = cuts[i]
  BY <1>1, <1>2
<1>4. ASSUME NEW b \in Yielded(cuts) PROVE b \in Yielded(more)
  <2>1. PICK i \in 1 .. Len(cuts) :
          \E k \in cuts[i][2] + 1 .. Len(Table(cuts[i][1])) : Table(cuts[i][1])[k] = b
    BY DEF Yielded
  <2>2. more[i] = cuts[i]
    BY <1>3, <2>1
  <2>3. i \in 1 .. Len(more)
    BY <1>3, <2>1
  <2>4. b \in Blocks /\ ref_counts[b] = 1 /\ ~cached[b]
    BY DEF Yielded
  <2> QED
    BY <2>1, <2>2, <2>3, <2>4 DEF Yielded
<1>5. ASSUME NEW b \in Gained(id, keep) PROVE b \in Yielded(more)
  <2>1. Len(cuts) + 1 \in 1 .. Len(more)
    BY <1>3
  <2> QED
    BY <1>2, <1>3, <2>1 DEF Gained, Yielded
<1> QED
  BY <1>1, <1>4, <1>5 DEF Available

\* Considering one more candidate keeps the account right.
LEMMA ConsiderPays ==
  ASSUME Base, CacheInv, NEW for, NEW need \in Int, NEW plan \in PlansFor(for), Pays(plan, need),
         NEW candidate, NEW round, NEW id \in Range(running), MayYield(id, for), candidate = <<round, id>>
  PROVE  Pays(Consider(candidate)[plan], need)
<1>1. PICK after : after = Consider(candidate)[plan] /\ after \in PlansFor(for)
  BY ConsiderKeeps
<1>2. \/ after = plan
      \/ \E keep : /\ after = [needed |-> plan.needed - Gain(seqs[id], keep),
                               cuts |-> Append(plan.cuts, <<id, keep>>)]
                   /\ ~(\E cut \in Range(plan.cuts) : cut[1] = id)
  <2>1. plan \in Plans /\ candidate[2] = id
    BY DEF PlansFor
  <2> QED
    BY <1>1, <2>1 DEF Consider
<1>3. ASSUME NEW keep, after = [needed |-> plan.needed - Gain(seqs[id], keep),
                                cuts |-> Append(plan.cuts, <<id, keep>>)],
             ~(\E cut \in Range(plan.cuts) : cut[1] = id)
      PROVE  Pays(after, need)
  <2>1. PICK was : was = plan.cuts
    OBVIOUS
  <2>2. was \in Seq(Nat \X Nat) /\ plan.needed \in Int /\ GoodCuts(was, for)
    BY <2>1 DEF PlansFor, Plans
  <2>3. id \in Nat
    BY ListFacts, OwnElements DEF Range
  <2>4. keep \in Nat
    <3>1. PICK is : is = after.cuts
      OBVIOUS
    <3>2. is \in Seq(Nat \X Nat) /\ is = Append(was, <<id, keep>>)
      BY <1>1, <1>3, <2>1, <3>1 DEF PlansFor, Plans
    <3>3. Len(was) \in Nat /\ Len(is) = Len(was) + 1 /\ is[Len(was) + 1] = <<id, keep>>
      BY <2>2, <3>2
    <3>4. is[Len(was) + 1] \in Nat \X Nat
      BY <3>2, <3>3
    <3> QED
      BY <3>3, <3>4
  <2>5. \A i \in 1 .. Len(was) : was[i][1] \in Range(running) /\ was[i][1] # id
    <3>1. \A i \in 1 .. Len(was) : was[i] \in Range(plan.cuts)
      BY <2>1, <2>2 DEF Range
    <3> QED
      BY <1>3, <2>2, <3>1 DEF GoodCuts
  <2>6. PICK gain \in Nat : gain = Gain(seqs[id], keep)
    BY <2>4, GainIsNat
  <2>7. PICK new, old, all : /\ new = Gained(id, keep) /\ old = Available(was)
                             /\ all = Available(Append(was, <<id, keep>>))
    OBVIOUS
  <2>8. gain <= Cardinality(new)
    BY <2>4, <2>6, <2>7, GainCounts
  <2>9. new \cap old = {}
    BY <2>2, <2>4, <2>5, <2>7, GainedApart
  <2>10. old \cup new \subseteq all
    BY <2>2, <2>3, <2>4, <2>7, OneCutMore
  <2>11. IsFiniteSet(old) /\ IsFiniteSet(all) /\ Cardinality(old) \in Nat /\ Cardinality(all) \in Nat
    BY <2>7, AvailableFinite
  <2>12. IsFiniteSet(new) /\ Cardinality(new) \in Nat
    BY <2>10, <2>11, FS_Subset, FS_CardinalityType
  <2>13. Cardinality(old) + Cardinality(new) <= Cardinality(all)
    <3>1. Cardinality(old \cup new) = Cardinality(old) + Cardinality(new) - Cardinality(old \cap new)
      BY <2>11, <2>12, FS_Union
    <3>2. Cardinality(old \cap new) = 0
      BY <2>9, FS_EmptySet
    <3>3. Cardinality(old \cup new) <= Cardinality(all)
      BY <2>10, <2>11, FS_Subset
    <3> QED
      BY <2>11, <2>12, <3>1, <3>2, <3>3
  <2>14. need <= plan.needed + Cardinality(old)
    BY <2>1, <2>7 DEF Pays
  <2>15. need <= plan.needed - gain + Cardinality(all)
    <3>1. PICK needed \in Int : needed = plan.needed
      BY <2>2
    <3>2. PICK freed, had, have \in Nat :
            freed = Cardinality(new) /\ had = Cardinality(old) /\ have = Cardinality(all)
      BY <2>11, <2>12
    <3>3. gain <= freed /\ had + freed <= have /\ need <= needed + had
      BY <2>8, <2>13, <2>14, <3>1, <3>2
    <3>4. need <= needed - gain + have
      BY <2>6, <3>1, <3>2, <3>3
    <3> QED
      BY <3>1, <3>2, <3>4
  <2>16. after.needed = plan.needed - gain /\ after.cuts = Append(was, <<id, keep>>)
    BY <1>3, <2>1, <2>6
  <2> QED
    BY <2>7, <2>15, <2>16 DEF Pays
<1> QED
  BY <1>1, <1>2, <1>3

\* A plan's account is right.
LEMMA PlanPays ==
  ASSUME Base, CacheInv, NEW for, NEW need \in Int
  PROVE  Pays(PreemptionPlan(for, need), need)
<1> DEFINE Q == {plan \in PlansFor(for) : Pays(plan, need)}
<1>1. Q \subseteq Plans
  BY DEF PlansFor
<1>2. [needed |-> need - Len(free_blocks), cuts |-> <<>>] \in Q
  <2>1. PICK first : first = [needed |-> need - Len(free_blocks), cuts |-> <<>>] /\ first \in PlansFor(for)
    BY FirstPlan
  <2>2. Len(free_blocks) \in Nat /\ Cardinality(Range(free_blocks)) = Len(free_blocks)
    BY PoolFacts, FreeCount DEF CacheInv, PoolView
  <2>3. Range(free_blocks) \subseteq Available(<<>>)
    BY DEF Available
  <2>4. Cardinality(Range(free_blocks)) <= Cardinality(Available(<<>>)) /\ Cardinality(Available(<<>>)) \in Nat
    BY <2>3, AvailableFinite, FS_Subset
  <2>5. need <= need - Len(free_blocks) + Cardinality(Available(<<>>))
    BY <2>2, <2>4
  <2> QED
    BY <2>1, <2>5 DEF Pays
<1>3. ASSUME NEW n \in 1 .. Len(Candidates(for)), NEW plan \in Q
      PROVE  Consider(Candidates(for)[n])[plan] \in Q
  <2>1. PICK round, id : id \in Range(running) /\ MayYield(id, for) /\ Candidates(for)[n] = <<round, id>>
    BY CandidatesFacts
  <2>2. PICK candidate : candidate = Candidates(for)[n] /\ candidate = <<round, id>>
    BY <2>1
  <2>3. Consider(candidate)[plan] \in PlansFor(for) /\ Pays(Consider(candidate)[plan], need)
    BY <2>1, <2>2, ConsiderKeeps, ConsiderPays
  <2> QED
    BY <2>2, <2>3
<1>4. KeptByAll(for, Q)
  BY <1>3 DEF KeptByAll
<1>5. PreemptionPlan(for, need) \in Q
  <2> HIDE DEF Q
  <2> QED
    BY <1>1, <1>2, <1>4, PlanReaches
<1> QED
  BY <1>5

\* What there is to take can be counted; with no cut left it is the free list.
Counted ==
  /\ IsFiniteSet(Available(victims)) /\ Cardinality(Available(victims)) \in Nat
  /\ victims = <<>> => Cardinality(Available(victims)) = Len(free_blocks)

\* It always can.
LEMMA Account == Inv => Counted
<1> SUFFICES ASSUME Inv PROVE Counted
  OBVIOUS
<1>1. CacheInv
  BY Views
<1>2. ASSUME victims = <<>> PROVE Available(victims) = Range(free_blocks)
  BY <1>2 DEF Available, Yielded
<1> QED
  BY <1>1, <1>2, AvailableFinite, FreeCount DEF Counted

\* The same after a step.
LEMMA AccountNext == Inv' => Counted'
BY Account, PTL

\* Cuts that are planned cover what they are planned for.
LEMMA PlanPreemptionCovers ==
  ASSUME Inv, Inv', PlanPreemption
  PROVE  ShortBlocks(seqs[Head(Serving)])' <= Cardinality(Available(victims)')
<1>1. Base /\ CacheInv
  BY Views
<1>2. PICK id, need : id = Head(Serving) /\ need = ShortBlocks(seqs[id])
  OBVIOUS
<1>3. /\ AtSequence /\ UNCHANGED cache_vars /\ seqs' = seqs /\ todo' = todo
      /\ phase' = phase /\ batch' = batch
      /\ PreemptionPlan(id, need).needed <= 0 /\ victims' = PreemptionPlan(id, need).cuts
  BY <1>2 DEF PlanPreemption, Plan, Building, AtSequence, Passes
<1>4. need \in Int
  BY <1>1, <1>2, <1>3, ShortFacts
<1>5. PICK plan : plan = PreemptionPlan(id, need) /\ plan \in PlansFor(id)
  BY <1>3, <1>4, PlanFacts, <1>1 DEF AtSequence
<1>6. plan.needed \in Int /\ plan.needed <= 0 /\ victims' = plan.cuts
  BY <1>3, <1>5 DEF PlansFor, Plans
<1>7. need <= plan.needed + Cardinality(Available(plan.cuts))
  BY <1>1, <1>4, <1>5, PlanPays DEF Pays
<1>8. Available(victims)' = Available(plan.cuts)
  <2>1. /\ free_blocks' = free_blocks /\ ref_counts' = ref_counts /\ cached' = cached
        /\ block_tables' = block_tables
    BY <1>3 DEF cache_vars, pool_vars
  <2> QED
    BY <1>3, <1>6, <2>1 DEF Available, Yielded, Table
<1>9. ShortBlocks(seqs[Head(Serving)])' = need
  <2>1. Serving' = Serving
    BY <1>3 DEF Serving, Complete, NumPrompt
  <2> QED
    BY <1>2, <1>3, <2>1
       DEF ShortBlocks, DecodePosition, ChunkLen, Remaining, NumPrompt, PrefillTaken, BatchRows, RowCap
<1>10. PICK have \in Nat : have = Cardinality(Available(plan.cuts)) /\ have = Cardinality(Available(victims)')
  BY <1>8, AccountNext DEF Counted
<1> QED
  BY <1>4, <1>6, <1>7, <1>9, <1>10

\* A planned cut gives back what it was planned for, and leaves what the others
\* will give.
LEMMA PreemptCovers ==
  ASSUME Inv, Inv', PlanCovers, Preempt
  PROVE  ShortBlocks(seqs[Head(Serving)])' <= Cardinality(Available(victims)')
<1>1. Base /\ CacheInv /\ CacheInv'
  BY Views, ViewsNext
<1>2. PICK id, keep : id = Head(victims)[1] /\ keep = Head(victims)[2]
  OBVIOUS
<1>3. PICK row : row = seqs[id].row
  OBVIOUS
<1>4. /\ victims # <<>> /\ victims' = Tail(victims) /\ Pool!FreeBlocksFrom(row, keep)
      /\ seqs' = [seqs EXCEPT ![id] = Truncated(@, keep)]
      /\ phase' = phase /\ todo' = todo /\ batch' = batch
  BY <1>2, <1>3 DEF Preempt
<1>5. PICK head : head = Head(Serving)
  OBVIOUS
<1>6. AtSequence /\ phase \in Passes
  BY <1>1, <1>4 DEF Base, Planned, AtSequence
<1>7. /\ Len(victims) \in Nat /\ Len(victims') = Len(victims) - 1 /\ Len(victims) >= 1
      /\ Head(victims) = victims[1] /\ \A i \in 1 .. Len(victims') : victims'[i] = victims[i + 1]
  <2>1. PICK list : list = victims
    OBVIOUS
  <2>2. list \in Seq(Nat \X Nat) /\ list # <<>>
    BY <1>1, <1>4, <2>1, ListFacts
  <2>3. /\ Len(list) \in Nat /\ Len(Tail(list)) = Len(list) - 1
        /\ Len(list) >= 1 /\ Head(list) = list[1]
        /\ \A i \in 1 .. Len(Tail(list)) : Tail(list)[i] = list[i + 1]
    BY <2>2
  <2> QED
    BY <1>4, <2>1, <2>3
<1>8. /\ \A i \in 1 .. Len(victims) : victims[i][1] \in Range(running) /\ victims[i][1] # head
      /\ \A i, j \in 1 .. Len(victims) : victims[i][1] = victims[j][1] => i = j
      /\ seqs[id].state = "RUNNING"
  BY <1>1, <1>2, <1>5, <1>7 DEF Base, Planned
<1>9. id \in Range(running) /\ id # head /\ id \in DOMAIN seqs
  BY <1>1, <1>2, <1>7, <1>8, ListFacts
<1>10. /\ DOMAIN seqs' = DOMAIN seqs /\ seqs'[id].state # "RUNNING"
       /\ \A other \in DOMAIN seqs \ {id} : seqs'[other] = seqs[other]
  <2>1. PICK t : t = Truncated(seqs[id], keep)
    OBVIOUS
  <2>2. t.state # "RUNNING"
    <3>1. PICK S : seqs \in [DOMAIN seqs -> Records(S)]
      BY <1>1 DEF Base, Typed
    <3>2. seqs[id] \in Records(S)
      BY <1>9, <3>1
    <3> QED
      BY <2>1, <3>2 DEF Truncated, RolledBack, Records
  <2>3. PICK S : seqs \in [DOMAIN seqs -> Records(S)]
    BY <1>1 DEF Base, Typed
  <2> QED
    BY <1>4, <1>9, <2>1, <2>2, <2>3
<1>11. row \in Rows /\ Table(id) = block_tables[row]
  BY <1>1, <1>3, <1>9, RunningTable
<1>12. ASSUME NEW b \in Yielded(victims), b \notin Range(free_blocks')
       PROVE  b \in Yielded(victims)'
  <2>1. b \in Blocks /\ ref_counts[b] = 1 /\ ~cached[b]
    BY DEF Yielded
  <2>2. PICK i \in 1 .. Len(victims) :
          \E k \in victims[i][2] + 1 .. Len(Table(victims[i][1])) : Table(victims[i][1])[k] = b
    BY DEF Yielded
  <2>3. PICK other, least : other = victims[i][1] /\ least = victims[i][2]
    OBVIOUS
  <2>4. i # 1
    <3> SUFFICES ASSUME i = 1 PROVE FALSE
      OBVIOUS
    <3>1. PICK k \in keep + 1 .. Len(block_tables[row]) : block_tables[row][k] = b
      BY <1>2, <1>7, <1>11, <2>2
    <3> QED
      BY <1>1, <1>4, <1>11, <1>12, <2>1, <3>1, CutFrees
  <2>5. i - 1 \in 1 .. Len(victims') /\ victims'[i - 1] = victims[i]
    BY <1>7, <2>4
  <2>6. other \in Range(running) /\ other # id
    <3>1. 1 \in 1 .. Len(victims)
      BY <1>7
    <3> QED
      BY <1>2, <1>7, <1>8, <2>3, <2>4, <3>1
  <2>7. PICK q \in Rows : q = seqs[other].row /\ Table(other) = block_tables[q] /\ q # row
    BY <1>1, <1>3, <1>9, <2>6, RunningTable
  <2>8. seqs'[other] = seqs[other]
    BY <1>1, <1>10, <2>6, ListFacts
  <2>9. block_tables'[q] = block_tables[q] /\ cached' = cached
    BY <1>1, <1>4, <1>11, <2>7, ReleaseFacts
  <2>10. Table(other)' = block_tables[q]
    BY <2>7, <2>8, <2>9 DEF Table
  <2>11. PICK k \in least + 1 .. Len(block_tables[q]) : block_tables[q][k] = b
    BY <2>2, <2>3, <2>7
  <2>12. k \in 1 .. Len(block_tables[q])
    <3>1. Len(block_tables[q]) \in Nat
      BY <1>1, PoolFacts DEF CacheInv, PoolView
    <3>2. least \in Nat
      <4>1. victims[i] \in Nat \X Nat
        BY <1>1, ListFacts, OwnElements
      <4> QED
        BY <2>3, <4>1
    <3> QED
      BY <2>11, <3>1, <3>2
  <2>13. ref_counts'[b] = 1
    BY <1>1, <1>4, <1>11, <2>1, <2>7, <2>11, <2>12, CutFrees
  <2>14. \E j \in 1 .. Len(victims') :
           \E n \in victims'[j][2] + 1 .. Len(block_tables'[seqs'[victims'[j][1]].row]) :
             block_tables'[seqs'[victims'[j][1]].row][n] = b
    <3>1. victims'[i - 1][1] = other /\ victims'[i - 1][2] = least
      BY <2>3, <2>5
    <3>2. block_tables'[seqs'[other].row] = block_tables[q]
      BY <2>10 DEF Table
    <3> QED
      BY <2>5, <2>11, <3>1, <3>2
  <2> QED
    BY <2>1, <2>9, <2>13, <2>14 DEF Yielded, Table
<1>13. Available(victims) \subseteq Available(victims)'
  <2>1. Range(free_blocks) \subseteq Range(free_blocks')
    BY <1>1, <1>4, <1>11, CutFrees
  <2> QED
    BY <1>12, <2>1 DEF Available
<1>14. ShortBlocks(seqs[Head(Serving)])' = ShortBlocks(seqs[head])
  <2>1. head \in DOMAIN seqs
    BY <1>1, <1>5, <1>6, ServedFacts DEF Base
  <2>2. seqs'[head] = seqs[head]
    BY <1>9, <1>10, <2>1
  <2>3. \A other \in DOMAIN seqs : seqs'[other] = seqs[other] \/ seqs'[other].state # "RUNNING"
    BY <1>10
  <2>4. Head(Serving)' = head /\ ChunkLen(seqs[head])' = ChunkLen(seqs[head])
    BY <1>1, <1>4, <1>5, <1>6, <1>10, <2>2, <2>3, StaysAt
  <2> QED
    BY <1>4, <2>2, <2>4 DEF ShortBlocks, DecodePosition, NumPrompt
<1>15. ShortBlocks(seqs[head]) <= Cardinality(Available(victims))
  BY <1>4, <1>5 DEF PlanCovers
<1>16. Cardinality(Available(victims)) <= Cardinality(Available(victims)')
  BY <1>13, Account, AccountNext, FS_Subset DEF Counted
<1>17. ShortBlocks(seqs[head]) \in Int
  BY <1>1, <1>5, <1>6, ShortFacts
<1> QED
  BY <1>14, <1>15, <1>16, <1>17, Account, AccountNext DEF Counted

\* Only those two steps touch the cuts that are planned.
LEMMA CutsElsewhere ==
  ASSUME Base, [Next]_vars, ~PlanPreemption, ~Preempt
  PROVE  (victims = <<>> /\ victims' = <<>>) \/ UNCHANGED vars
<1>1. phase \notin Passes => victims = <<>>
  BY ListFacts
<1>2. CASE \E request \in Requests : AddRequest(request.prompt, request.eos)
  BY <1>1, <1>2 DEF AddRequest, step_vars, Passes
<1>3. CASE BeginStep \/ Admission
  BY <1>1, <1>3
     DEF BeginStep, Admission, Resume, ClaimRow, MountPrefix, EndAdmission, step_vars, Passes
<1>4. CASE BuildBatch
  BY <1>4 DEF BuildBatch, Grow, PlaceDecode, PlaceChunk, PlaceShrunkChunk, ForceFinish, Place,
              EndDecodeRows, EndPrefillRows, Building, PassEnds, step_vars
<1>5. CASE Execution
  BY <1>1, <1>5
     DEF Execution, Forward, ForwardFails, AbortOne, EndAbort, Retire, step_vars, Passes
<1>6. CASE AfterBatch
  BY <1>1, <1>6
     DEF AfterBatch, RecordBlock, EndRecord, RetireDone, EndUpdate, FlushPreempted, Retire,
         step_vars, Passes
<1> QED
  BY <1>2, <1>3, <1>4, <1>5, <1>6 DEF Next, Step

\* What is left to cut stays enough, and when the last cut is made the blocks
\* are there.
LEMMA CutsSuffice ==
  ASSUME Inv, Inv', PlanCovers, [Next]_vars
  PROVE  /\ PlanCovers'
         /\ victims # <<>> /\ victims' = <<>> =>
              Len(free_blocks') >= ShortBlocks(seqs[Head(Serving)])'
<1>1. CASE PlanPreemption
  <2>1. PlanCovers'
    BY <1>1, PlanPreemptionCovers DEF PlanCovers
  <2>2. victims = <<>>
    BY <1>1 DEF PlanPreemption, Building
  <2> QED
    BY <2>1, <2>2
<1>2. CASE Preempt
  <2>1. ShortBlocks(seqs[Head(Serving)])' <= Cardinality(Available(victims)')
    BY <1>2, PreemptCovers
  <2>2. PlanCovers'
    BY <2>1 DEF PlanCovers
  <2>3. ASSUME victims' = <<>> PROVE Len(free_blocks') >= ShortBlocks(seqs[Head(Serving)])'
    <3>1. Cardinality(Available(victims)') = Len(free_blocks')
      BY <2>3, AccountNext DEF Counted
    <3> QED
      BY <2>1, <3>1
  <2> QED
    BY <2>2, <2>3
<1>3. CASE ~PlanPreemption /\ ~Preempt
  <2>1. (victims = <<>> /\ victims' = <<>>) \/ UNCHANGED vars
    BY <1>3, CutsElsewhere, Views
  <2>2. CASE victims = <<>> /\ victims' = <<>>
    BY <2>2 DEF PlanCovers
  <2>3. CASE UNCHANGED vars
    <3>1. /\ free_blocks' = free_blocks /\ ref_counts' = ref_counts /\ cached' = cached
          /\ block_tables' = block_tables /\ seqs' = seqs /\ todo' = todo /\ phase' = phase
          /\ batch' = batch /\ victims' = victims
      BY <2>3 DEF vars, cache_vars, pool_vars, step_vars
    <3>2. Available(victims)' = Available(victims)
      BY <3>1 DEF Available, Yielded, Table
    <3>3. ShortBlocks(seqs[Head(Serving)])' = ShortBlocks(seqs[Head(Serving)])
      <4>1. Serving' = Serving
        BY <3>1 DEF Serving, Complete, NumPrompt
      <4> QED
        BY <3>1, <4>1
           DEF ShortBlocks, DecodePosition, ChunkLen, Remaining, NumPrompt, PrefillTaken, BatchRows,
               RowCap
    <3>4. PlanCovers'
      BY <3>1, <3>2, <3>3 DEF PlanCovers
    <3> QED
      BY <3>1, <3>4
  <2> QED
    BY <2>1, <2>2, <2>3
<1> QED
  BY <1>1, <1>2, <1>3

\* A round of preemptions never churns its victims for nothing: when the last
\* cut of a plan is made, the sequence it was made for finds its blocks free.
THEOREM PlansSuffice == ASSUME AbortsClean PROVE Spec => PreemptionSuffices
<1>1. Init => PlanCovers
  BY DEF Init, PlanCovers
<1>2. Inv /\ Inv' /\ PlanCovers /\ [Next]_vars =>
        /\ PlanCovers'
        /\ [victims # <<>> /\ victims' = <<>> =>
              Len(free_blocks') >= ShortBlocks(seqs[Head(Serving)])']_vars
  BY CutsSuffice
<1> QED
  BY <1>1, <1>2, SchedulerInvariant, PTL DEF Spec, PreemptionSuffices
=============================================================================
