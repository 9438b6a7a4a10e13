-------------------------- MODULE StepPipelineProofs --------------------------
(***************************************************************************)
(* The step pipeline runs every forward pass on its own inputs, whatever   *)
(* is still queued on the stream: for every batch size, number of graphs,  *)
(* address, geometry and set of faults.                                    *)
(***************************************************************************)
EXTENDS StepPipeline, FiniteSetTheorems, SequenceTheorems, WellFoundedInduction, TLAPS

\* A nonempty set of naturals has a least element.
LEMMA LeastNatural ==
  ASSUME NEW T, T \subseteq Nat, T # {}
  PROVE  \E n \in T : \A m \in T : n <= m
<1>1. PICK n \in T : \A m \in T : ~ (<<m, n>> \in OpToRel(<, Nat))
  BY NatLessThanWellFounded, WFMin
<1>2. \A m \in T : ~ (m < n)
  BY <1>1 DEF OpToRel
<1> QED
  BY <1>2

-------------------------------------------------------------------------------
(* The inductive invariant.                                                  *)

Graphs == [addr : Addrs, shape : Shapes, scratch : Steps] \cup {NoGraph}

Entries == [exec : Graphs, attempts : 0..MaxCaptureAttempts, last_used : 1..MaxSteps,
            scratch : Steps, shape : Shapes \cup {0}, staged : Steps,
            failed_with : 0..MaxSchedulers]

MemoryOf == {"scheduler", "scratch"} \X Nat

Uploads == [op : {"upload"}, what : {"inputs", "table"}, source : MemoryOf,
            to : {0} \cup Batches, step : Steps, mem : SUBSET MemoryOf]

KernelRuns == [op : {"kernels"}, from : {0} \cup Batches, shape : Shapes \cup {0},
               whole : BOOLEAN, writes_logits : BOOLEAN, step : Steps,
               mem : SUBSET MemoryOf]

Samplings == [op : {"sample"}, step : Steps, mem : SUBSET MemoryOf]

Ops == Uploads \cup KernelRuns \cup Samplings

AtGraph == {"graph", "launch", "direct"}
AtEntry == {"evict", "inputs"} \cup AtGraph
Queued == {"sample", "wait", "drain"}

\* Types, stronger than TypeOK: every variable's own.
Typed ==
  /\ sched \in [addr : Addrs, shape : Shapes] \cup {NoScheduler}
  /\ built \in 0..MaxSchedulers
  /\ staging \in Steps
  /\ step \in [id : Steps, kind : {"none", "decode", "mixed", "prefill"},
               batch : {0} \cup Batches]
  /\ pc \in {"idle", "forward", "entry"} \cup AtEntry \cup Queued
  /\ DOMAIN pool \subseteq Batches
  /\ IsFiniteSet(DOMAIN pool)
  /\ pool \in [DOMAIN pool -> Entries]
  /\ dev \in [{0} \cup Batches -> [inputs : Steps, table : Steps]]
  /\ stream \in Seq(Ops)
  /\ ran \in [step : Steps, inputs : Steps, table : Steps, whole : BOOLEAN]
  /\ logits \in Steps
  /\ idx \in [step : Steps, of : Steps]
  /\ done \in [step : Steps, ok : BOOLEAN, tokens : Steps]

\* Where the host is, and what that says about the step it is in.
HostInv ==
  /\ pc # "idle" => sched # NoScheduler /\ staging = step.id /\ step.id > 0
  /\ pc \in {"entry"} \cup AtEntry => step.kind = "decode" /\ step.batch \in Batches
  /\ pc \in AtEntry => step.batch \in DOMAIN pool /\ Entry.last_used = step.id
  /\ pc = "evict" => Overfull(DOMAIN pool)
  /\ pc \in AtGraph => /\ Entry.scratch # 0 /\ Entry.shape = sched.shape
                       /\ Entry.staged = step.id
  /\ pc = "launch" => Replayable
  /\ pc = "drain" => step.kind = "prefill"
  /\ pc = "forward" => step.kind \in {"mixed", "prefill"} /\ step.batch = 0

\* An entry's scratch is its own, made in a step of its own; a captured graph
\* reads the scratch and the geometry its entry has, except the stale one that
\* the running step is about to drop.
PoolInv ==
  /\ \A b \in DOMAIN pool :
       /\ pool[b].last_used <= step.id /\ pool[b].scratch <= step.id
       /\ pool[b].exec # NoGraph =>
            /\ pool[b].scratch # 0
            /\ \/ /\ pool[b].exec.shape = pool[b].shape
                  /\ pool[b].exec.scratch = pool[b].scratch
               \/ pc = "graph" /\ b = step.batch /\ pool[b].exec.shape # sched.shape
       /\ pc = "entry" => pool[b].last_used < step.id
       /\ pc \in {"evict", "inputs"} /\ b # step.batch => pool[b].last_used < step.id
       /\ pc \in {"entry", "evict", "inputs"} => pool[b].scratch < step.id
  /\ \A b, c \in DOMAIN pool :
       pool[b].scratch = pool[c].scratch /\ pool[b].scratch # 0 => b = c

\* Scratch that queued work of the running scheduler may touch.
CurrentScratch ==
  {<<"scratch", pool[b].scratch>> :
     b \in {c \in DOMAIN pool : pool[c].scratch # 0 /\ pool[c].shape = sched.shape}}

\* The stream holds work of one scheduler, in the order of the steps.
StreamInv ==
  /\ stream # <<>> => sched # NoScheduler /\ staging = step.id
  /\ \A i \in DOMAIN stream :
       /\ 0 < stream[i].step /\ stream[i].step <= step.id
       /\ pc \in {"forward", "entry", "evict", "inputs"} => stream[i].step < step.id
       /\ stream[i].mem \subseteq {<<"scheduler", built>>} \cup CurrentScratch
       /\ stream[i].op = "kernels" => stream[i].shape = sched.shape
  /\ \A i, j \in DOMAIN stream : i <= j => stream[i].step <= stream[j].step

\* What the copies of the running step read holds that step's rows.
OwnSource(source) ==
  \/ source = <<"scheduler", built>>
  \/ /\ step.batch \in DOMAIN pool
     /\ Entry.scratch # 0 /\ Entry.staged = step.id
     /\ source = <<"scratch", Entry.scratch>>

SourceInv ==
  \A i \in DOMAIN stream :
    stream[i].op = "upload" /\ stream[i].step = step.id => OwnSource(stream[i].source)

OnDevice(what) ==
  IF what = "inputs" THEN dev[step.batch].inputs ELSE dev[step.batch].table

\* The step's own data is on the device when the operations before n have run:
\* its copy is among them, or it has run and nothing older is left.
Arrives(what, n) ==
  \/ \E j \in DOMAIN stream :
       /\ j < n
       /\ stream[j].op = "upload" /\ stream[j].what = what
       /\ stream[j].to = step.batch /\ stream[j].step = step.id
  \/ /\ OnDevice(what) = step.id
     /\ \A j \in DOMAIN stream : j < n => stream[j].step = step.id

\* A forward pass that is carried through belongs to the running step, and its
\* inputs arrive before it.
ForwardInv ==
  /\ \A i \in DOMAIN stream :
       stream[i].op = "kernels" /\ stream[i].whole =>
         /\ stream[i].step = step.id /\ stream[i].from = step.batch
         /\ pc \in Queued
         /\ Arrives("inputs", i) /\ Arrives("table", i)
  /\ pc \in AtGraph => Arrives("table", Len(stream) + 1)
  /\ ForwardOwnInputs

\* The step's forward pass has run and its logits are there.
Ran ==
  /\ ran.step = step.id /\ ran.whole
  /\ step.kind # "prefill" => logits = step.id

\* Operation n is the step's forward pass.
IsForward(n) ==
  /\ stream[n].op = "kernels" /\ stream[n].whole /\ stream[n].step = step.id
  /\ stream[n].writes_logits = (step.kind # "prefill")

\* The tail of the stream while the step waits for its results.
TailInv ==
  /\ pc \in {"sample", "drain"} =>
       IF stream = <<>> THEN Ran ELSE IsForward(Len(stream))
  /\ pc = "wait" =>
       IF stream = <<>> THEN Ran /\ idx.of = logits
       ELSE /\ stream[Len(stream)].op = "sample"
            /\ stream[Len(stream)].step = step.id
            /\ IF Len(stream) = 1 THEN Ran ELSE IsForward(Len(stream) - 1)
  /\ pc = "wait" => step.kind # "prefill"
  /\ pc = "sample" => step.kind # "prefill"
  /\ pc = "idle" /\ done.ok =>
       /\ stream = <<>> /\ Ran /\ done.step = step.id
       /\ step.kind # "prefill" => done.tokens = step.id

IInv == Typed /\ HostInv /\ PoolInv /\ StreamInv /\ SourceInv /\ ForwardInv /\ TailInv

(***************************************************************************)
(* Facts about sequences.                                                  *)
(***************************************************************************)

\* The domain and the elements of a queue, and of a queue with work put behind.
LEMMA QueueFacts ==
  ASSUME NEW s \in Seq(Ops)
  PROVE  /\ Len(s) \in Nat /\ DOMAIN s = 1 .. Len(s)
         /\ \A i \in DOMAIN s : s[i] \in Ops
         /\ s = <<>> <=> Len(s) = 0
  BY LenProperties, ElementOfSeq, EmptySeq

LEMMA Behind ==
  ASSUME NEW s \in Seq(Ops), NEW t \in Seq(Ops)
  PROVE  /\ s \o t \in Seq(Ops)
         /\ Len(s \o t) = Len(s) + Len(t)
         /\ DOMAIN (s \o t) = 1 .. Len(s) + Len(t)
         /\ \A i \in 1 .. Len(s) : (s \o t)[i] = s[i]
         /\ \A i \in 1 .. Len(t) : (s \o t)[Len(s) + i] = t[i]
<1>1. Len(s) \in Nat /\ Len(t) \in Nat
  BY LenProperties
<1> QED
  BY <1>1, ConcatProperties, LenProperties

\* The ids that states are told apart by are numbers.
LEMMA StepFacts ==
  ASSUME Typed
  PROVE  /\ step.id \in Nat /\ step.id <= MaxSteps /\ step.id \in Steps
         /\ step.batch \in {0} \cup Batches
  BY PipelineConstants DEF Typed, Steps

LEMMA EntryFacts ==
  ASSUME Typed, NEW b \in DOMAIN pool
  PROVE  /\ pool[b] \in Entries
         /\ pool[b].last_used \in Nat /\ pool[b].scratch \in Nat
         /\ pool[b].attempts \in Nat
<1>1. pool[b] \in Entries
  BY DEF Typed
<1>2. /\ pool[b].last_used \in 1..MaxSteps /\ pool[b].scratch \in 0..MaxSteps
      /\ pool[b].attempts \in 0..MaxCaptureAttempts
  BY <1>1 DEF Entries, Steps
<1> QED
  BY <1>1, <1>2, PipelineConstants

LEMMA OpFacts ==
  ASSUME Typed
  PROVE  /\ Len(stream) \in Nat /\ DOMAIN stream = 1 .. Len(stream)
         /\ stream = <<>> <=> Len(stream) = 0
         /\ \A i \in DOMAIN stream : stream[i] \in Ops /\ stream[i].step \in Nat
<1>1. \A i \in DOMAIN stream : stream[i] \in Ops
  BY QueueFacts DEF Typed
<1>2. \A o \in Ops : o.step \in Steps
  BY DEF Ops, Uploads, KernelRuns, Samplings
<1> QED
  BY <1>1, <1>2, QueueFacts, PipelineConstants DEF Typed, Steps

(***************************************************************************)
(* The initial state.                                                      *)
(***************************************************************************)

\* Nothing is queued and the pool is empty when the model is loaded.
LEMMA InitGood == Init => IInv
<1> SUFFICES ASSUME Init PROVE IInv
  OBVIOUS
<1> USE DEF Init
<1>1. DOMAIN pool = {} /\ DOMAIN stream = {} /\ stream \in Seq(Ops)
  BY EmptySeq
<1>2. Typed
  <2>1. IsFiniteSet(DOMAIN pool)
    BY <1>1, FS_EmptySet
  <2>2. pool \in [DOMAIN pool -> Entries]
    BY <1>1
  <2> QED
    BY <1>1, <2>1, <2>2, PipelineConstants DEF Typed, Steps, AtEntry, AtGraph, Queued
<1>3. HostInv
  BY DEF HostInv, AtEntry, AtGraph
<1>4. PoolInv /\ StreamInv /\ SourceInv
  BY <1>1 DEF PoolInv, StreamInv, SourceInv
<1>5. ForwardInv /\ TailInv
  BY <1>1 DEF ForwardInv, TailInv, ForwardOwnInputs, AtGraph
<1> QED
  BY <1>2, <1>3, <1>4, <1>5 DEF IInv

(***************************************************************************)
(* Schedulers come and go.                                                 *)
(***************************************************************************)

\* A scheduler comes when nothing is queued: the last one drained the stream.
LEMMA NewSchedulerKeeps == ASSUME IInv, NewScheduler PROVE IInv'
<1> USE DEF IInv, NewScheduler, device_vars
<1>1. stream = <<>> /\ DOMAIN stream = {}
  BY DEF StreamInv
<1>2. Typed'
  <2>1. built' \in 0..MaxSchedulers /\ staging' \in Steps
    <3>1. built \in 0..MaxSchedulers /\ built < MaxSchedulers /\ built' = built + 1
      BY DEF Typed
    <3>2. built' \in 0..MaxSchedulers
      BY ONLY <3>1, PipelineConstants
    <3>3. staging' = 0 /\ 0 \in Steps
      BY PipelineConstants DEF Steps
    <3> QED
      BY ONLY <3>2, <3>3
  <2>2. sched' \in [addr : Addrs, shape : Shapes]
    OBVIOUS
  <2> QED
    BY <2>1, <2>2 DEF Typed
<1>3. HostInv'
  BY DEF HostInv, AtEntry, AtGraph
<1>4. PoolInv'
  BY DEF PoolInv
<1>5. StreamInv' /\ SourceInv'
  BY <1>1 DEF StreamInv, SourceInv
<1>6. ForwardInv'
  BY <1>1 DEF ForwardInv, ForwardOwnInputs, AtGraph
<1>7. TailInv'
  BY <1>1 DEF TailInv, Ran
<1> QED
  BY <1>2, <1>3, <1>4, <1>5, <1>6, <1>7

\* It goes when nothing is queued.
LEMMA DestroySchedulerKeeps == ASSUME IInv, DestroyScheduler PROVE IInv'
<1> USE DEF IInv, DestroyScheduler, device_vars
<1>1. stream = <<>> /\ DOMAIN stream = {}
  BY DEF Drained
<1>2. Typed'
  BY DEF Typed
<1>3. HostInv'
  BY DEF HostInv, AtEntry, AtGraph
<1>4. PoolInv'
  BY DEF PoolInv
<1>5. StreamInv' /\ SourceInv'
  BY <1>1 DEF StreamInv, SourceInv
<1>6. ForwardInv'
  BY <1>1 DEF ForwardInv, ForwardOwnInputs, AtGraph
<1>7. TailInv'
  BY <1>1 DEF TailInv, Ran
<1> QED
  BY <1>2, <1>3, <1>4, <1>5, <1>6, <1>7

(***************************************************************************)
(* Steps begin and end.                                                    *)
(***************************************************************************)

\* A step begins behind whatever failed steps have left queued.
LEMMA StageRowsKeeps == ASSUME IInv, StageRows PROVE IInv'
<1> USE DEF IInv
<1>0. step.id \in Nat /\ step.id < MaxSteps
  BY StepFacts DEF StageRows
<1>1. /\ step'.id = step.id + 1 /\ step.id \in Nat /\ staging' = step'.id
      /\ pc = "idle" /\ sched # NoScheduler
      /\ UNCHANGED <<sched, built, pool, stream, dev, ran, logits, idx, done>>
      /\ \/ /\ pc' = "entry" /\ step'.kind = "decode" /\ step'.batch \in Batches
         \/ /\ pc' = "forward" /\ step'.kind \in {"mixed", "prefill"} /\ step'.batch = 0
      /\ step' = [id |-> step.id + 1, kind |-> step'.kind, batch |-> step'.batch]
  BY <1>0 DEF StageRows, device_vars
<1>2. Typed'
  <2>1. step.id + 1 \in Steps
    BY <1>0, PipelineConstants DEF Steps
  <2>2. step' \in [id : Steps, kind : {"none", "decode", "mixed", "prefill"},
                   batch : {0} \cup Batches]
    BY <1>1, <2>1
  <2> QED
    BY <1>1, <2>1, <2>2 DEF Typed
<1>3. HostInv'
  BY <1>1 DEF HostInv, AtEntry, AtGraph
<1>4. PoolInv'
  <2>1. \A b \in DOMAIN pool : pool[b].last_used \in Int /\ pool[b].scratch \in Int
    BY EntryFacts
  <2> QED
    BY <1>1, <2>1 DEF PoolInv
<1>5. StreamInv'
  <2>1. \A i \in DOMAIN stream : stream[i].step <= step.id /\ stream[i].step \in Int
    BY OpFacts DEF StreamInv
  <2> QED
    BY <1>1, <2>1 DEF StreamInv, CurrentScratch
<1>6. SourceInv'
  <2>1. \A i \in DOMAIN stream : stream[i].step # step'.id
    BY <1>1, OpFacts DEF StreamInv
  <2> QED
    BY <1>1, <2>1 DEF SourceInv
<1>7. ForwardInv'
  <2>1. \A i \in DOMAIN stream : ~ (stream[i].op = "kernels" /\ stream[i].whole)
    BY <1>1 DEF ForwardInv, Queued
  <2> QED
    BY <1>1, <2>1 DEF ForwardInv, ForwardOwnInputs, AtGraph
<1>8. TailInv'
  BY <1>1 DEF TailInv
<1> QED
  BY <1>2, <1>3, <1>4, <1>5, <1>6, <1>7, <1>8

\* A step that fails leaves its work queued; one that ends with its stream
\* drained, or its own sampling past, has nothing queued and its own results.
LEMMA DrainPrefillKeeps == ASSUME IInv, DrainPrefill PROVE IInv'
<1> USE DEF IInv, DrainPrefill, device_vars
<1>1. stream = <<>> /\ DOMAIN stream = {} /\ done'.ok /\ done'.step = step.id
  BY DEF Drained, Return
<1>2. Typed'
  <2>1. done' \in [step : Steps, ok : BOOLEAN, tokens : Steps] /\ pc' = "idle"
    BY StepFacts, PipelineConstants DEF Return, Steps
  <2> QED
    BY <2>1 DEF Typed
<1>3. HostInv'
  BY DEF HostInv, AtEntry, AtGraph, Return
<1>4. PoolInv'
  BY DEF PoolInv, Return
<1>5. StreamInv' /\ SourceInv'
  BY <1>1 DEF StreamInv, SourceInv
<1>6. ForwardInv'
  BY <1>1 DEF ForwardInv, ForwardOwnInputs, AtGraph, Return
<1>7. TailInv'
  BY <1>1 DEF TailInv, Ran, Return, HostInv
<1> QED
  BY <1>2, <1>3, <1>4, <1>5, <1>6, <1>7

LEMMA TakeTokensKeeps == ASSUME IInv, TakeTokens PROVE IInv'
<1> USE DEF IInv, TakeTokens, device_vars
<1>1. stream = <<>> /\ DOMAIN stream = {}
  <2>1. CASE stream # <<>>
    <3>1. Len(stream) \in DOMAIN stream
      BY <2>1, OpFacts
    <3> QED
      BY <2>1, <3>1 DEF TailInv, Sampled
  <2> QED
    BY <2>1
<1>2. done'.ok /\ done'.step = step.id /\ done'.tokens = idx.of
  BY DEF Return
<1>3. Typed'
  BY StepFacts DEF Typed, Return
<1>4. HostInv'
  BY DEF HostInv, AtEntry, AtGraph, Return
<1>5. PoolInv'
  BY DEF PoolInv, Return
<1>6. StreamInv' /\ SourceInv'
  BY <1>1 DEF StreamInv, SourceInv
<1>7. ForwardInv'
  BY <1>1 DEF ForwardInv, ForwardOwnInputs, AtGraph, Return
<1>8. TailInv'
  BY <1>1, <1>2 DEF TailInv, Ran, Return
<1> QED
  BY <1>3, <1>4, <1>5, <1>6, <1>7, <1>8

(***************************************************************************)
(* What it means to queue work.                                            *)
(***************************************************************************)

\* The running scheduler's buffers, as queued work names them.
LEMMA OwnBuffers ==
  ASSUME Typed
  PROVE  /\ Owner(sched.addr) = <<"scheduler", built>>
         /\ Owner(sched.addr) \in MemoryOf
  BY PipelineConstants DEF Typed, Owner, MemoryOf

\* Work of the running step that touches only what is alive keeps the stream
\* in order and alive.
LEMMA QueueKeepsStream ==
  ASSUME Typed, StreamInv, NEW t \in Seq(Ops), Enqueue(t),
         UNCHANGED <<sched, built, staging, step>>,
         CurrentScratch \subseteq CurrentScratch',
         sched # NoScheduler, staging = step.id, step.id > 0,
         pc' \notin {"forward", "entry", "evict", "inputs"},
         \A i \in 1 .. Len(t) :
           /\ t[i].step = step.id
           /\ t[i].mem \subseteq {<<"scheduler", built>>} \cup CurrentScratch'
           /\ t[i].op = "kernels" => t[i].shape = sched.shape
  PROVE  StreamInv'
<1>1. /\ Len(t) \in Nat /\ DOMAIN stream' = 1 .. Len(stream) + Len(t)
      /\ \A i \in 1 .. Len(stream) : stream'[i] = stream[i]
      /\ \A i \in 1 .. Len(t) : stream'[Len(stream) + i] = t[i]
  BY Behind, QueueFacts DEF Enqueue, Typed
<1>2. \A i \in DOMAIN stream' :
        \/ i \in DOMAIN stream /\ stream'[i] = stream[i]
        \/ i > Len(stream) /\ i - Len(stream) \in 1 .. Len(t)
           /\ stream'[i] = t[i - Len(stream)]
  BY <1>1, OpFacts
<1>3. \A i \in DOMAIN stream' :
        /\ 0 < stream'[i].step /\ stream'[i].step <= step.id
        /\ i > Len(stream) => stream'[i].step = step.id
        /\ stream'[i].mem \subseteq {<<"scheduler", built>>} \cup CurrentScratch'
        /\ stream'[i].op = "kernels" => stream'[i].shape = sched.shape
  BY <1>2, StepFacts, OpFacts DEF StreamInv
<1>4. \A i, j \in DOMAIN stream' : i <= j => stream'[i].step <= stream'[j].step
  BY <1>1, <1>2, <1>3, OpFacts, StepFacts DEF StreamInv
<1> QED
  BY <1>3, <1>4 DEF StreamInv

\* What arrives before a queued operation arrives before it when work is put
\* behind it, and before the work put behind it.
LEMMA ArrivesStill ==
  ASSUME Typed, NEW t \in Seq(Ops), Enqueue(t), UNCHANGED <<step, dev>>,
         NEW what, NEW n \in 1 .. Len(stream) + 1, Arrives(what, n)
  PROVE  Arrives(what, n)'
<1>1. /\ Len(t) \in Nat /\ DOMAIN stream' = 1 .. Len(stream) + Len(t)
      /\ \A i \in 1 .. Len(stream) : stream'[i] = stream[i]
  BY Behind, QueueFacts DEF Enqueue, Typed
<1>2. OnDevice(what)' = OnDevice(what)
  BY DEF OnDevice
<1> QED
  BY <1>1, <1>2, OpFacts DEF Arrives

LEMMA ArrivesLater ==
  ASSUME Typed, NEW t \in Seq(Ops), Enqueue(t), UNCHANGED <<step, dev>>,
         \A i \in 1 .. Len(t) : t[i].step = step.id,
         NEW what, Arrives(what, Len(stream) + 1),
         NEW n \in Nat, n > Len(stream)
  PROVE  Arrives(what, n)'
<1>1. /\ Len(t) \in Nat /\ DOMAIN stream' = 1 .. Len(stream) + Len(t)
      /\ \A i \in 1 .. Len(stream) : stream'[i] = stream[i]
      /\ \A i \in 1 .. Len(t) : stream'[Len(stream) + i] = t[i]
  BY Behind, QueueFacts DEF Enqueue, Typed
<1>2. OnDevice(what)' = OnDevice(what)
  BY DEF OnDevice
<1>3. CASE \E j \in DOMAIN stream :
             /\ j < Len(stream) + 1
             /\ stream[j].op = "upload" /\ stream[j].what = what
             /\ stream[j].to = step.batch /\ stream[j].step = step.id
  <2>1. PICK j \in DOMAIN stream :
             /\ j < Len(stream) + 1
             /\ stream[j].op = "upload" /\ stream[j].what = what
             /\ stream[j].to = step.batch /\ stream[j].step = step.id
    BY <1>3
  <2>2. j \in DOMAIN stream' /\ stream'[j] = stream[j] /\ j < n
    BY <1>1, OpFacts
  <2> QED
    BY <2>1, <2>2 DEF Arrives
<1>4. CASE /\ OnDevice(what) = step.id
           /\ \A j \in DOMAIN stream : j < Len(stream) + 1 => stream[j].step = step.id
  <2>1. \A j \in DOMAIN stream' : stream'[j].step = step.id
    <3> SUFFICES ASSUME NEW j \in DOMAIN stream' PROVE stream'[j].step = step.id
      OBVIOUS
    <3>1. CASE j <= Len(stream)
      <4>1. j \in DOMAIN stream /\ stream'[j] = stream[j] /\ j < Len(stream) + 1
        BY <1>1, <3>1, OpFacts
      <4> QED
        BY <1>4, <4>1
    <3>2. CASE j > Len(stream)
      <4>1. j - Len(stream) \in 1 .. Len(t)
        BY <1>1, <3>2, OpFacts
      <4> QED
        BY <1>1, <4>1, OpFacts
    <3> QED
      BY <3>1, <3>2, <1>1, OpFacts
  <2> QED
    BY <1>2, <1>4, <2>1 DEF Arrives
<1> QED
  BY <1>3, <1>4 DEF Arrives

\* Copies put behind that read the running step's rows.
LEMMA QueueKeepsSources ==
  ASSUME Typed, SourceInv, NEW t \in Seq(Ops), Enqueue(t), UNCHANGED step,
         \A i \in DOMAIN stream : \A source :
           /\ stream[i].op = "upload" /\ stream[i].step = step.id
           /\ source = stream[i].source
           => OwnSource(source)',
         \A i \in 1 .. Len(t) : t[i].op = "upload" => OwnSource(t[i].source)'
  PROVE  SourceInv'
<1>1. /\ Len(t) \in Nat /\ DOMAIN stream' = 1 .. Len(stream) + Len(t)
      /\ \A i \in 1 .. Len(stream) : stream'[i] = stream[i]
      /\ \A i \in 1 .. Len(t) : stream'[Len(stream) + i] = t[i]
  BY Behind, QueueFacts DEF Enqueue, Typed
<1> SUFFICES ASSUME NEW i \in DOMAIN stream',
                    stream'[i].op = "upload", stream'[i].step = step.id
             PROVE  OwnSource(stream[i].source)'
  BY DEF SourceInv
<1>2. CASE i <= Len(stream)
  <2>1. i \in DOMAIN stream /\ stream'[i] = stream[i]
    BY <1>1, <1>2, OpFacts
  <2> QED
    BY <2>1
<1>3. CASE i > Len(stream)
  <2>1. i - Len(stream) \in 1 .. Len(t) /\ stream'[i] = t[i - Len(stream)]
    BY <1>1, <1>3, OpFacts
  <2> QED
    BY <2>1
<1> QED
  BY <1>1, <1>2, <1>3, OpFacts

\* The operations of a plain forward pass.
LEMMA PlainQueue ==
  ASSUME IInv, pc = "forward", NEW whole \in BOOLEAN
  PROVE  /\ PlainOps(whole) \in Seq(Ops) /\ Len(PlainOps(whole)) = 3
         /\ PlainOps(whole)[1] = Upload("inputs", <<"scheduler", built>>, 0, {})
         /\ PlainOps(whole)[2] = Upload("table", <<"scheduler", built>>, 0, {})
         /\ PlainOps(whole)[3] = Kernels(0, sched.addr, sched.shape, {}, whole)
<1>1. Owner(sched.addr) = <<"scheduler", built>> /\ Owner(sched.addr) \in MemoryOf
  BY OwnBuffers DEF IInv
<1>2. sched.shape \in Shapes
  BY DEF IInv, HostInv, Typed
<1>3. Kernels(0, sched.addr, sched.shape, {}, whole) \in Ops
  BY <1>1, <1>2, StepFacts DEF IInv, Kernels, Ops, KernelRuns
<1>4. /\ Upload("inputs", <<"scheduler", built>>, 0, {}) \in Ops
      /\ Upload("table", <<"scheduler", built>>, 0, {}) \in Ops
  BY <1>1, StepFacts DEF IInv, Upload, Ops, Uploads
<1>5. PlainOps(whole) \in Seq(Ops)
  BY <1>1, <1>3, <1>4 DEF PlainOps
<1> QED
  BY <1>1, <1>5 DEF PlainOps

\* Nothing carried through is queued while the host is still preparing.
LEMMA NoForwardYet ==
  ASSUME ForwardInv, pc \notin Queued
  PROVE  \A i \in DOMAIN stream : ~ (stream[i].op = "kernels" /\ stream[i].whole)
  BY DEF ForwardInv

LEMMA ForwardKeeps == ASSUME IInv, Forward PROVE IInv'
<1> USE DEF IInv, Forward, device_vars
<1>0. PICK t : t = PlainOps(TRUE)
  OBVIOUS
<1>1. /\ t \in Seq(Ops) /\ Len(t) = 3
      /\ t[1] = Upload("inputs", <<"scheduler", built>>, 0, {})
      /\ t[2] = Upload("table", <<"scheduler", built>>, 0, {})
      /\ t[3] = Kernels(0, sched.addr, sched.shape, {}, TRUE)
  BY <1>0, PlainQueue
<1>2. Enqueue(t) /\ pc' \in {"drain", "sample"} /\ pc = "forward"
  BY <1>0
<1> PICK n \in Nat : n = Len(stream)
  BY OpFacts
<1>3. /\ stream' \in Seq(Ops) /\ Len(stream') = n + 3
      /\ DOMAIN stream' = 1 .. n + 3
      /\ \A i \in 1 .. n : stream'[i] = stream[i]
      /\ \A i \in 1 .. 3 : stream'[n + i] = t[i]
  <2>1. stream \in Seq(Ops) /\ stream' = stream \o t
    BY <1>2 DEF Enqueue, Typed
  <2>2. /\ stream' \in Seq(Ops) /\ Len(stream') = Len(stream) + Len(t)
        /\ DOMAIN stream' = 1 .. Len(stream) + Len(t)
        /\ \A i \in 1 .. Len(stream) : stream'[i] = stream[i]
        /\ \A i \in 1 .. Len(t) : stream'[Len(stream) + i] = t[i]
    BY <1>1, <2>1, Behind
  <2> QED
    BY <1>1, <2>2
<1>4. Typed'
  BY <1>2, <1>3 DEF Typed, Queued
<1>5. HostInv'
  BY <1>2 DEF HostInv, AtEntry, AtGraph
<1>6. PoolInv'
  BY <1>2 DEF PoolInv
<1>7. sched # NoScheduler /\ staging = step.id /\ step.id > 0
  BY <1>2 DEF HostInv
<1>8. \A i \in 1 .. 3 : i = 1 \/ i = 2 \/ i = 3
  OBVIOUS
<1>9. StreamInv'
  <2>1. \A i \in 1 .. Len(t) :
           /\ t[i].step = step.id
           /\ t[i].mem \subseteq {<<"scheduler", built>>} \cup CurrentScratch'
           /\ t[i].op = "kernels" => t[i].shape = sched.shape
    BY <1>1, <1>8, OwnBuffers DEF Upload, Kernels
  <2>2. CurrentScratch \subseteq CurrentScratch'
    BY DEF CurrentScratch
  <2> QED
    BY <1>1, <1>2, <1>7, <2>1, <2>2, QueueKeepsStream
<1>10. SourceInv'
  <2>1. \A source : OwnSource(source) => OwnSource(source)'
    BY DEF OwnSource, Entry
  <2>2. \A i \in 1 .. Len(t) : t[i].op = "upload" => OwnSource(t[i].source)'
    BY <1>1, <1>8 DEF Upload, Kernels, OwnSource
  <2> QED
    BY <1>1, <1>2, <2>1, <2>2, QueueKeepsSources DEF SourceInv
<1>11. ForwardInv'
  <2>1. \A i \in DOMAIN stream' :
           stream'[i].op = "kernels" /\ stream'[i].whole => i = n + 3
    <3>1. \A i \in 1 .. n : ~ (stream'[i].op = "kernels" /\ stream'[i].whole)
      BY <1>2, <1>3, OpFacts, NoForwardYet DEF Queued
    <3>2. stream'[n + 1].op = "upload" /\ stream'[n + 2].op = "upload"
      BY <1>1, <1>3 DEF Upload
    <3>3. \A i \in DOMAIN stream' : i \in 1 .. n \/ i = n + 1 \/ i = n + 2 \/ i = n + 3
      BY <1>3
    <3> QED
      BY <3>1, <3>2, <3>3
  <2>2. \A what \in {"inputs", "table"} : Arrives(what, n + 3)'
    <3>1. /\ stream'[n + 1] = t[1] /\ stream'[n + 2] = t[2]
          /\ n + 1 \in DOMAIN stream' /\ n + 2 \in DOMAIN stream'
          /\ n + 1 < n + 3 /\ n + 2 < n + 3
      BY <1>3, OpFacts
    <3>2. step.batch = 0
      BY <1>2 DEF HostInv
    <3>3. t[1].op = "upload" /\ t[1].what = "inputs" /\ t[1].to = 0 /\ t[1].step = step.id
      BY <1>1 DEF Upload
    <3>4. t[2].op = "upload" /\ t[2].what = "table" /\ t[2].to = 0 /\ t[2].step = step.id
      BY <1>1 DEF Upload
    <3>5. Arrives("inputs", n + 3)'
      BY <3>1, <3>2, <3>3 DEF Arrives
    <3>6. Arrives("table", n + 3)'
      BY <3>1, <3>2, <3>4 DEF Arrives
    <3> QED
      BY <3>5, <3>6
  <2>3. /\ stream'[n + 3].step = step.id
        /\ stream'[n + 3].from = step.batch
    BY <1>1, <1>2, <1>3 DEF Kernels, HostInv
  <2>4. ForwardOwnInputs'
    BY DEF ForwardInv, ForwardOwnInputs
  <2> QED
    BY <1>2, <2>1, <2>2, <2>3, <2>4 DEF ForwardInv, Queued, AtGraph
<1>12. TailInv'
  <2>1. IsForward(Len(stream))'
    BY <1>1, <1>3 DEF IsForward, Kernels
  <2>2. stream' # <<>>
    BY <1>3, OpFacts, QueueFacts
  <2> QED
    BY <1>2, <2>1, <2>2 DEF TailInv
<1> QED
  BY <1>4, <1>5, <1>6, <1>9, <1>10, <1>11, <1>12

(***************************************************************************)
(* Steps that fail.                                                        *)
(***************************************************************************)

\* A graph that is not stale reads its entry's scratch wherever the host goes.
LEMMA FreshKeepsPool ==
  ASSUME IInv, pc = "graph" => ~Stale, UNCHANGED <<sched, step, pool>>,
         pc' \notin {"entry", "evict", "inputs"}
  PROVE  PoolInv'
<1>1. ASSUME NEW b \in DOMAIN pool, pool[b].exec # NoGraph
      PROVE  /\ pool[b].scratch # 0 /\ pool[b].exec.shape = pool[b].shape
             /\ pool[b].exec.scratch = pool[b].scratch
  BY <1>1 DEF IInv, PoolInv, Stale, Captured, Entry
<1> QED
  BY <1>1 DEF IInv, PoolInv

\* A step that fails leaves copies that read its own rows and kernels that are
\* not carried through.
LEMMA FailureKeeps ==
  ASSUME IInv, pc \notin Queued, pc # "idle", pc = "graph" => ~Stale,
         NEW t \in Seq(Ops), Enqueue(t), Return(FALSE, 0),
         UNCHANGED <<sched, built, staging, step, pool, device_vars>>,
         \A i \in 1 .. Len(t) :
           /\ t[i].step = step.id
           /\ t[i].mem \subseteq {<<"scheduler", built>>} \cup CurrentScratch
           /\ t[i].op = "kernels" => t[i].shape = sched.shape /\ ~t[i].whole
           /\ t[i].op = "upload" => OwnSource(t[i].source)
  PROVE  IInv'
<1> USE DEF IInv, device_vars
<1>1. pc' = "idle" /\ ~done'.ok
  BY DEF Return
<1>2. /\ stream' \in Seq(Ops) /\ DOMAIN stream' = 1 .. Len(stream) + Len(t)
      /\ \A i \in 1 .. Len(stream) : stream'[i] = stream[i]
      /\ \A i \in 1 .. Len(t) : stream'[Len(stream) + i] = t[i]
  <2>1. stream \in Seq(Ops) /\ stream' = stream \o t
    BY DEF Enqueue, Typed
  <2> QED
    BY <2>1, Behind
<1>3. Typed'
  <2>1. done' \in [step : Steps, ok : BOOLEAN, tokens : Steps]
    BY StepFacts, PipelineConstants DEF Return, Steps
  <2> QED
    BY <1>1, <1>2, <2>1 DEF Typed
<1>4. HostInv'
  BY <1>1 DEF HostInv, AtEntry, AtGraph
<1>5. PoolInv'
  BY <1>1, FreshKeepsPool
<1>6. StreamInv'
  <2>1. CurrentScratch' = CurrentScratch
    BY DEF CurrentScratch
  <2>2. sched # NoScheduler /\ staging = step.id /\ step.id > 0
    BY DEF HostInv
  <2> QED
    BY <1>1, <2>1, <2>2, QueueKeepsStream
<1>7. SourceInv'
  <2>1. \A source : OwnSource(source) => OwnSource(source)'
    BY DEF OwnSource, Entry
  <2> QED
    BY <2>1, QueueKeepsSources DEF SourceInv
<1>8. ForwardInv'
  <2>1. \A i \in DOMAIN stream' : ~ (stream'[i].op = "kernels" /\ stream'[i].whole)
    <3>1. \A i \in 1 .. Len(stream) : ~ (stream'[i].op = "kernels" /\ stream'[i].whole)
      BY <1>2, OpFacts, NoForwardYet
    <3>2. \A i \in DOMAIN stream' :
            \/ i \in 1 .. Len(stream)
            \/ i - Len(stream) \in 1 .. Len(t) /\ stream'[i] = t[i - Len(stream)]
      BY <1>2, QueueFacts, OpFacts
    <3> QED
      BY <3>1, <3>2
  <2>2. ForwardOwnInputs'
    BY DEF ForwardInv, ForwardOwnInputs
  <2> QED
    BY <1>1, <2>1, <2>2 DEF ForwardInv, AtGraph
<1>9. TailInv'
  BY <1>1 DEF TailInv
<1> QED
  BY <1>3, <1>4, <1>5, <1>6, <1>7, <1>8, <1>9

LEMMA ForwardFailsKeeps == ASSUME IInv, ForwardFails PROVE IInv'
<1>0. PICK t : t = PlainOps(FALSE)
  OBVIOUS
<1>1. /\ t \in Seq(Ops) /\ Len(t) = 3
      /\ t[1] = Upload("inputs", <<"scheduler", built>>, 0, {})
      /\ t[2] = Upload("table", <<"scheduler", built>>, 0, {})
      /\ t[3] = Kernels(0, sched.addr, sched.shape, {}, FALSE)
  BY <1>0, PlainQueue DEF ForwardFails
<1>2. Enqueue(t) /\ Return(FALSE, 0) /\ pc = "forward"
  BY <1>0 DEF ForwardFails
<1>3. \A i \in 1 .. Len(t) :
        /\ t[i].step = step.id
        /\ t[i].mem \subseteq {<<"scheduler", built>>} \cup CurrentScratch
        /\ t[i].op = "kernels" => t[i].shape = sched.shape /\ ~t[i].whole
        /\ t[i].op = "upload" => OwnSource(t[i].source)
  <2>1. \A i \in 1 .. 3 : i = 1 \/ i = 2 \/ i = 3
    OBVIOUS
  <2> QED
    BY <1>1, <2>1, OwnBuffers DEF IInv, Upload, Kernels, OwnSource
<1> QED
  BY <1>1, <1>2, <1>3, FailureKeeps DEF ForwardFails, Queued

\* A launch that fails leaves the block table's upload queued.
LEMMA LaunchFailsKeeps == ASSUME IInv, LaunchFails PROVE IInv'
<1>0. PICK t : t = <<>>
  OBVIOUS
<1>1. t \in Seq(Ops) /\ Len(t) = 0
  BY <1>0, EmptySeq
<1>2. Enqueue(t)
  BY <1>0, ConcatEmptySeq DEF Enqueue, IInv, Typed, LaunchFails
<1>3. Return(FALSE, 0) /\ pc \in {"launch", "graph"} /\ (pc = "graph" => ~Stale)
  BY DEF LaunchFails, Replayable
<1>4. pc \notin Queued /\ pc # "idle"
  BY <1>3 DEF Queued
<1>5. UNCHANGED <<sched, built, staging, step, pool, device_vars>>
  BY DEF LaunchFails
<1>6. \A i \in 1 .. Len(t) : FALSE
  BY <1>1
<1> QED
  BY <1>1, <1>2, <1>3, <1>4, <1>5, <1>6, FailureKeeps

\* The operations of a forward pass over a pool entry, launched or direct.
LEMMA EntryQueue ==
  ASSUME IInv, pc \in AtGraph, NEW whole \in BOOLEAN
  PROVE  /\ DirectOps(whole) \in Seq(Ops) /\ Len(DirectOps(whole)) = 2
         /\ DirectOps(whole)[1]
              = Upload("inputs", <<"scratch", Entry.scratch>>, step.batch, {})
         /\ DirectOps(whole)[2]
              = Kernels(step.batch, sched.addr, sched.shape,
                        {<<"scratch", Entry.scratch>>}, whole)
<1>1. Owner(sched.addr) = <<"scheduler", built>> /\ Owner(sched.addr) \in MemoryOf
  BY OwnBuffers DEF IInv
<1>2. sched.shape \in Shapes
  BY DEF IInv, HostInv, Typed, AtGraph
<1>3. <<"scratch", Entry.scratch>> \in MemoryOf /\ step.batch \in {0} \cup Batches
  BY EntryFacts, StepFacts DEF IInv, HostInv, AtEntry, Entry, MemoryOf
<1>4. Upload("inputs", <<"scratch", Entry.scratch>>, step.batch, {}) \in Ops
  BY <1>1, <1>3, StepFacts DEF IInv, Upload, Ops, Uploads
<1>5. Kernels(step.batch, sched.addr, sched.shape,
              {<<"scratch", Entry.scratch>>}, whole) \in Ops
  BY <1>1, <1>2, <1>3, StepFacts DEF IInv, Kernels, Ops, KernelRuns
<1>6. DirectOps(whole) \in Seq(Ops)
  BY <1>4, <1>5 DEF DirectOps
<1> QED
  BY <1>6 DEF DirectOps

\* The scratch of the running step's entry is current, its copies its own.
LEMMA EntryIsCurrent ==
  ASSUME IInv, pc \in AtGraph
  PROVE  /\ <<"scratch", Entry.scratch>> \in CurrentScratch
         /\ OwnSource(<<"scratch", Entry.scratch>>)
<1>1. step.batch \in DOMAIN pool
  BY DEF IInv, HostInv, AtEntry
<1>2. Entry.scratch # 0 /\ Entry.shape = sched.shape /\ Entry.staged = step.id
  BY DEF IInv, HostInv
<1>3. OwnSource(<<"scratch", Entry.scratch>>)
  BY <1>1, <1>2 DEF OwnSource
<1> QED
  BY <1>1, <1>2, <1>3 DEF CurrentScratch, Entry

LEMMA DirectFailsKeeps == ASSUME IInv, DirectFails PROVE IInv'
<1>0. PICK t : t = DirectOps(FALSE)
  OBVIOUS
<1>1. pc \in AtGraph /\ pc \notin Queued /\ (pc = "graph" => ~Stale)
  BY DEF DirectFails, AtGraph, Exhausted, Stale, Queued
<1>2. /\ t \in Seq(Ops) /\ Len(t) = 2
      /\ t[1] = Upload("inputs", <<"scratch", Entry.scratch>>, step.batch, {})
      /\ t[2] = Kernels(step.batch, sched.addr, sched.shape,
                        {<<"scratch", Entry.scratch>>}, FALSE)
  BY <1>0, <1>1, EntryQueue
<1>3. Enqueue(t) /\ Return(FALSE, 0)
  BY <1>0 DEF DirectFails
<1>4. \A i \in 1 .. Len(t) :
        /\ t[i].step = step.id
        /\ t[i].mem \subseteq {<<"scheduler", built>>} \cup CurrentScratch
        /\ t[i].op = "kernels" => t[i].shape = sched.shape /\ ~t[i].whole
        /\ t[i].op = "upload" => OwnSource(t[i].source)
  <2>1. /\ t[1].op = "upload" /\ t[1].step = step.id
        /\ t[1].mem = {<<"scratch", Entry.scratch>>}
        /\ t[1].source = <<"scratch", Entry.scratch>>
    BY <1>2 DEF Upload
  <2>2. /\ t[2].op = "kernels" /\ t[2].step = step.id /\ ~t[2].whole
        /\ t[2].mem = {<<"scheduler", built>>, <<"scratch", Entry.scratch>>}
        /\ t[2].shape = sched.shape
    BY <1>2, OwnBuffers DEF Kernels, IInv
  <2>3. \A i \in 1 .. 2 : i = 1 \/ i = 2
    OBVIOUS
  <2> QED
    BY <1>1, <1>2, <2>1, <2>2, <2>3, EntryIsCurrent
<1> QED
  BY <1>1, <1>2, <1>3, <1>4, FailureKeeps DEF DirectFails

(***************************************************************************)
(* Steps that are carried through.                                         *)
(***************************************************************************)

\* The step's forward pass over its entry is queued behind the upload of its
\* block table, with the upload of its inputs before it.
LEMMA CarriedKeeps ==
  ASSUME IInv, pc \in AtGraph, pc = "graph" => ~Stale,
         Enqueue(DirectOps(TRUE)), pc' = "sample",
         UNCHANGED <<sched, built, staging, step, pool, done, device_vars>>
  PROVE  IInv'
<1> USE DEF IInv, device_vars
<1>0. PICK t : t = DirectOps(TRUE)
  OBVIOUS
<1>1. /\ t \in Seq(Ops) /\ Len(t) = 2 /\ Enqueue(t)
      /\ t[1] = Upload("inputs", <<"scratch", Entry.scratch>>, step.batch, {})
      /\ t[2] = Kernels(step.batch, sched.addr, sched.shape,
                        {<<"scratch", Entry.scratch>>}, TRUE)
  BY <1>0, EntryQueue
<1>2. /\ t[1].op = "upload" /\ t[1].step = step.id /\ t[1].what = "inputs"
      /\ t[1].mem = {<<"scratch", Entry.scratch>>} /\ t[1].to = step.batch
      /\ t[1].source = <<"scratch", Entry.scratch>>
  BY <1>1 DEF Upload
<1>3. /\ t[2].op = "kernels" /\ t[2].step = step.id /\ t[2].whole
      /\ t[2].mem = {<<"scheduler", built>>, <<"scratch", Entry.scratch>>}
      /\ t[2].shape = sched.shape /\ t[2].from = step.batch
      /\ t[2].writes_logits = (step.kind # "prefill")
  BY <1>1, OwnBuffers DEF Kernels
<1>4. PICK n \in Nat : n = Len(stream)
  BY OpFacts
<1>5. /\ stream' \in Seq(Ops) /\ Len(stream') = n + 2
      /\ DOMAIN stream' = 1 .. n + 2
      /\ \A i \in 1 .. n : stream'[i] = stream[i]
      /\ stream'[n + 1] = t[1] /\ stream'[n + 2] = t[2]
  <2>1. stream \in Seq(Ops) /\ stream' = stream \o t
    BY <1>1 DEF Enqueue, Typed
  <2>2. /\ stream' \in Seq(Ops) /\ Len(stream') = Len(stream) + Len(t)
        /\ DOMAIN stream' = 1 .. Len(stream) + Len(t)
        /\ \A i \in 1 .. Len(stream) : stream'[i] = stream[i]
        /\ \A i \in 1 .. Len(t) : stream'[Len(stream) + i] = t[i]
    BY <1>1, <2>1, Behind
  <2>3. Len(t) = 2 /\ 1 \in 1 .. 2 /\ 2 \in 1 .. 2
    BY <1>1
  <2>4. stream'[n + 1] = t[1] /\ stream'[n + 2] = t[2]
    BY <1>4, <2>2, <2>3
  <2> QED
    BY <1>4, <2>2, <2>3, <2>4
<1>6. sched # NoScheduler /\ staging = step.id /\ step.id > 0 /\ step.kind = "decode"
  BY DEF HostInv, AtEntry, AtGraph
<1>7. Typed'
  BY <1>5 DEF Typed, Queued
<1>8. HostInv'
  BY <1>6 DEF HostInv, AtEntry, AtGraph
<1>9. PoolInv'
  BY FreshKeepsPool
<1>10. \A i \in 1 .. 2 : i = 1 \/ i = 2
  OBVIOUS
<1>11. StreamInv'
  <2>1. CurrentScratch' = CurrentScratch
    BY DEF CurrentScratch
  <2>2. \A i \in 1 .. Len(t) :
          /\ t[i].step = step.id
          /\ t[i].mem \subseteq {<<"scheduler", built>>} \cup CurrentScratch'
          /\ t[i].op = "kernels" => t[i].shape = sched.shape
    BY <1>1, <1>2, <1>3, <1>10, <2>1, EntryIsCurrent
  <2> QED
    BY <1>1, <1>6, <2>1, <2>2, QueueKeepsStream
<1>12. SourceInv'
  <2>1. \A source : OwnSource(source) => OwnSource(source)'
    BY DEF OwnSource, Entry
  <2>2. \A i \in 1 .. Len(t) : t[i].op = "upload" => OwnSource(t[i].source)'
    BY <1>1, <1>2, <1>3, <1>10, <2>1, EntryIsCurrent
  <2> QED
    BY <1>1, <2>1, <2>2, QueueKeepsSources DEF SourceInv
<1>13. ForwardInv'
  <2>1. \A i \in DOMAIN stream' :
          stream'[i].op = "kernels" /\ stream'[i].whole => i = n + 2
    <3>1. \A i \in 1 .. n : ~ (stream'[i].op = "kernels" /\ stream'[i].whole)
      BY <1>4, <1>5, OpFacts, NoForwardYet DEF Queued, AtGraph
    <3>2. stream'[n + 1].op = "upload"
      BY <1>2, <1>5
    <3>3. \A i \in DOMAIN stream' : i \in 1 .. n \/ i = n + 1 \/ i = n + 2
      BY <1>5
    <3> QED
      BY <3>1, <3>2, <3>3
  <2>2. Arrives("inputs", n + 2)'
    <3>1. n + 1 \in DOMAIN stream' /\ n + 1 < n + 2
      BY <1>5
    <3>2. /\ stream'[n + 1].op = "upload" /\ stream'[n + 1].what = "inputs"
          /\ stream'[n + 1].to = step'.batch /\ stream'[n + 1].step = step'.id
      BY <1>2, <1>5
    <3> QED
      BY <3>1, <3>2 DEF Arrives
  <2>3. Arrives("table", n + 2)'
    <3>1. Arrives("table", Len(stream) + 1)
      BY DEF ForwardInv
    <3>2. \A i \in 1 .. Len(t) : t[i].step = step.id
      BY <1>1, <1>2, <1>3, <1>10
    <3>3. n + 2 \in Nat /\ n + 2 > Len(stream)
      BY <1>4
    <3> QED
      BY <1>1, <3>1, <3>2, <3>3, ArrivesLater
  <2>4. ForwardOwnInputs'
    BY DEF ForwardInv, ForwardOwnInputs
  <2> QED
    BY <1>3, <1>5, <2>1, <2>2, <2>3, <2>4 DEF ForwardInv, Queued, AtGraph
<1>14. TailInv'
  <2>1. IsForward(Len(stream))'
    BY <1>3, <1>5 DEF IsForward
  <2>2. stream' # <<>>
    BY <1>5, QueueFacts
  <2> QED
    BY <1>6, <2>1, <2>2 DEF TailInv
<1> QED
  BY <1>7, <1>8, <1>9, <1>11, <1>12, <1>13, <1>14

\* A replayed graph reads the addresses the step would pass to a direct call.
LEMMA LaunchGraphKeeps == ASSUME IInv, LaunchGraph PROVE IInv'
<1>1. pc \in AtGraph /\ (pc = "graph" => ~Stale)
  BY DEF LaunchGraph, AtGraph, Replayable
<1>2. Replayable
  BY DEF LaunchGraph, IInv, HostInv
<1>3. step.batch \in DOMAIN pool
  BY <1>1 DEF IInv, HostInv, AtEntry
<1>4. /\ Entry.exec.addr = sched.addr /\ Entry.exec.shape = sched.shape
      /\ Entry.exec.scratch = Entry.scratch
  BY <1>2, <1>3 DEF IInv, PoolInv, Replayable, Stale, Captured, Entry
<1>5. GraphOps(Entry.exec) = DirectOps(TRUE)
  BY <1>4 DEF GraphOps, DirectOps
<1> QED
  BY <1>1, <1>5, CarriedKeeps DEF LaunchGraph

LEMMA DirectForwardKeeps == ASSUME IInv, DirectForward PROVE IInv'
<1>1. pc \in AtGraph /\ (pc = "graph" => ~Stale)
  BY DEF DirectForward, AtGraph, Exhausted, Stale
<1> QED
  BY <1>1, CarriedKeeps DEF DirectForward

\* Sampling is queued behind the forward pass.
LEMMA SampleKeeps == ASSUME IInv, Sample PROVE IInv'
<1> USE DEF IInv, device_vars
<1>0. PICK t : t = <<Sampling>>
  OBVIOUS
<1>1. /\ pc = "sample" /\ pc' = "wait" /\ Enqueue(t)
      /\ UNCHANGED <<sched, built, staging, step, pool, done, device_vars>>
  BY <1>0 DEF Sample
<1>2. sched # NoScheduler /\ staging = step.id /\ step.id > 0
  BY <1>1 DEF HostInv
<1>3. /\ t \in Seq(Ops) /\ Len(t) = 1 /\ t[1] = Sampling
  <2>1. Sampling \in Ops
    BY OwnBuffers, StepFacts DEF Sampling, Ops, Samplings
  <2> QED
    BY <1>0, <2>1
<1>4. t[1].op = "sample" /\ t[1].step = step.id /\ t[1].mem = {<<"scheduler", built>>}
  BY <1>3, OwnBuffers DEF Sampling
<1>5. PICK n \in Nat : n = Len(stream)
  BY OpFacts
<1>6. /\ stream' \in Seq(Ops) /\ Len(stream') = n + 1
      /\ DOMAIN stream' = 1 .. n + 1
      /\ \A i \in 1 .. n : stream'[i] = stream[i]
      /\ stream'[n + 1] = t[1]
  <2>1. stream \in Seq(Ops) /\ stream' = stream \o t
    BY <1>1 DEF Enqueue, Typed
  <2>2. /\ stream' \in Seq(Ops) /\ Len(stream') = Len(stream) + Len(t)
        /\ DOMAIN stream' = 1 .. Len(stream) + Len(t)
        /\ \A i \in 1 .. Len(stream) : stream'[i] = stream[i]
        /\ \A i \in 1 .. Len(t) : stream'[Len(stream) + i] = t[i]
    BY <1>3, <2>1, Behind
  <2> QED
    BY <1>3, <1>5, <2>2
<1>7. Typed'
  BY <1>1, <1>6 DEF Typed, Queued
<1>8. HostInv'
  BY <1>1 DEF HostInv, AtEntry, AtGraph
<1>9. PoolInv'
  BY <1>1 DEF PoolInv
<1>10. \A i \in 1 .. 1 : i = 1
  OBVIOUS
<1>11. StreamInv'
  <2>1. CurrentScratch' = CurrentScratch
    BY <1>1 DEF CurrentScratch
  <2> QED
    BY <1>1, <1>2, <1>3, <1>4, <1>10, <2>1, QueueKeepsStream
<1>12. SourceInv'
  <2>1. \A source : OwnSource(source) => OwnSource(source)'
    BY <1>1 DEF OwnSource, Entry
  <2> QED
    BY <1>1, <1>3, <1>4, <1>10, <2>1, QueueKeepsSources DEF SourceInv
<1>13. ForwardInv'
  <2>1. ASSUME NEW i \in DOMAIN stream', stream'[i].op = "kernels", stream'[i].whole
        PROVE  /\ stream'[i].step = step.id /\ stream'[i].from = step.batch
               /\ Arrives("inputs", i)' /\ Arrives("table", i)'
    <3>1. i \in 1 .. n
      BY <1>4, <1>6, <2>1
    <3>2. /\ i \in DOMAIN stream /\ stream'[i] = stream[i]
          /\ i \in 1 .. Len(stream) + 1
      BY <1>5, <1>6, <3>1, OpFacts
    <3>3. Arrives("inputs", i) /\ Arrives("table", i)
      BY <2>1, <3>2 DEF ForwardInv
    <3>4. Arrives("inputs", i)' /\ Arrives("table", i)'
      BY <1>1, <1>3, <3>2, <3>3, ArrivesStill
    <3> QED
      BY <2>1, <3>2, <3>4 DEF ForwardInv
  <2>2. ForwardOwnInputs'
    BY <1>1 DEF ForwardInv, ForwardOwnInputs
  <2> QED
    BY <1>1, <2>1, <2>2 DEF ForwardInv, Queued, AtGraph
<1>14. TailInv'
  <2>1. stream' # <<>> /\ Len(stream') = n + 1
    BY <1>6, QueueFacts
  <2>2. stream'[n + 1].op = "sample" /\ stream'[n + 1].step = step.id
    BY <1>4, <1>6
  <2>3. CASE n = 0
    <3>1. stream = <<>> /\ Ran
      BY <1>1, <1>5, <2>3, OpFacts DEF TailInv
    <3>2. Ran'
      BY <1>1, <3>1 DEF Ran
    <3> QED
      BY <1>1, <2>1, <2>2, <2>3, <3>2 DEF TailInv
  <2>4. CASE n # 0
    <3>1. stream # <<>> /\ IsForward(n)
      BY <1>1, <1>5, <2>4, OpFacts DEF TailInv
    <3>2. stream'[n] = stream[n]
      BY <1>6, <2>4
    <3>3. IsForward(n)'
      BY <1>1, <3>1, <3>2 DEF IsForward
    <3>4. n + 1 # 1 /\ Len(stream') - 1 = n
      BY <1>6, <2>4
    <3>5. IsForward(Len(stream) - 1)'
      BY <3>3, <3>4 DEF IsForward
    <3> QED
      BY <1>1, <2>1, <2>2, <3>4, <3>5 DEF TailInv
  <2> QED
    BY <2>3, <2>4
<1> QED
  BY <1>7, <1>8, <1>9, <1>11, <1>12, <1>13, <1>14

(***************************************************************************)
(* The pool of graphs.                                                     *)
(***************************************************************************)

\* Actions that touch one entry's graph and nothing queued.
LEMMA GraphActionKeeps ==
  ASSUME IInv, pc = "graph", pc' \in AtGraph, NEW e \in Entries,
         pool' = [pool EXCEPT ![step.batch] = e],
         /\ e.scratch = Entry.scratch /\ e.shape = Entry.shape
         /\ e.staged = Entry.staged /\ e.last_used = Entry.last_used,
         \/ e.exec = NoGraph
         \/ /\ e.exec.shape = sched.shape /\ e.exec.addr = sched.addr
            /\ e.exec.scratch = Entry.scratch,
         pc' = "launch" => e.exec # NoGraph,
         UNCHANGED <<sched, built, staging, step, done, stream, device_vars>>
  PROVE  IInv'
<1> USE DEF IInv, device_vars
<1>1. step.batch \in DOMAIN pool /\ Entry = pool[step.batch]
  BY DEF HostInv, AtEntry, AtGraph, Entry
<1>2. /\ DOMAIN pool' = DOMAIN pool /\ pool'[step.batch] = e
      /\ \A b \in DOMAIN pool : b # step.batch => pool'[b] = pool[b]
      /\ pool' \in [DOMAIN pool -> Entries]
  BY <1>1 DEF Typed
<1>3. \A b \in DOMAIN pool :
        /\ pool'[b].scratch = pool[b].scratch /\ pool'[b].shape = pool[b].shape
        /\ pool'[b].staged = pool[b].staged /\ pool'[b].last_used = pool[b].last_used
  BY <1>1, <1>2
<1>4. Typed'
  BY <1>2 DEF Typed, AtGraph, AtEntry
<1>5. Entry.scratch # 0 /\ Entry.shape = sched.shape
  BY DEF HostInv, AtGraph
<1>6. HostInv'
  <2>1. Entry' = e
    BY <1>2 DEF Entry
  <2>2. pc' = "launch" => Replayable'
    BY <2>1 DEF Replayable, Captured, Stale
  <2> QED
    BY <1>1, <1>2, <2>1, <2>2 DEF HostInv, AtEntry, AtGraph
<1>7. PoolInv'
  <2>1. \A b, c \in DOMAIN pool' :
          pool'[b].scratch = pool'[c].scratch /\ pool'[b].scratch # 0 => b = c
    BY <1>2, <1>3 DEF PoolInv
  <2>2. ASSUME NEW b \in DOMAIN pool', pool'[b].exec # NoGraph
        PROVE  /\ pool'[b].scratch # 0 /\ pool'[b].exec.shape = pool'[b].shape
               /\ pool'[b].exec.scratch = pool'[b].scratch
    <3>1. CASE b = step.batch
      BY <1>1, <1>2, <1>5, <2>2, <3>1
    <3>2. CASE b # step.batch
      BY <1>2, <2>2, <3>2 DEF PoolInv
    <3> QED
      BY <3>1, <3>2
  <2> QED
    BY <1>2, <1>3, <2>1, <2>2 DEF PoolInv, AtGraph
<1>8. CurrentScratch' = CurrentScratch
  BY <1>2, <1>3 DEF CurrentScratch
<1>9. StreamInv'
  BY <1>8 DEF StreamInv, AtGraph
<1>10. SourceInv'
  <2>1. \A source : OwnSource(source) => OwnSource(source)'
    BY <1>1, <1>2, <1>3 DEF OwnSource, Entry
  <2> QED
    BY <2>1 DEF SourceInv
<1>11. ForwardInv'
  <2>1. \A i \in DOMAIN stream : ~ (stream[i].op = "kernels" /\ stream[i].whole)
    BY NoForwardYet DEF Queued
  <2>2. Arrives("table", Len(stream) + 1)' = Arrives("table", Len(stream) + 1)
    BY DEF Arrives, OnDevice
  <2>3. Arrives("table", Len(stream) + 1) /\ ForwardOwnInputs
    BY DEF ForwardInv, AtGraph
  <2> QED
    BY <2>1, <2>2, <2>3 DEF ForwardInv, ForwardOwnInputs
<1>12. TailInv'
  BY DEF TailInv, AtGraph
<1> QED
  BY <1>4, <1>6, <1>7, <1>9, <1>10, <1>11, <1>12

LEMMA DropStaleGraphKeeps == ASSUME IInv, DropStaleGraph PROVE IInv'
<1>1. step.batch \in DOMAIN pool /\ Entry = pool[step.batch]
  BY DEF IInv, DropStaleGraph, HostInv, AtEntry, AtGraph, Entry
<1>2. PICK e : e = [pool[step.batch] EXCEPT !.exec = NoGraph, !.attempts = 0]
  OBVIOUS
<1>3. pool[step.batch] \in Entries
  BY <1>1, EntryFacts DEF IInv
<1>4. /\ e \in Entries /\ e.exec = NoGraph
      /\ e.scratch = Entry.scratch /\ e.shape = Entry.shape
      /\ e.staged = Entry.staged /\ e.last_used = Entry.last_used
  <2>1. 0 \in 0..MaxCaptureAttempts /\ NoGraph \in Graphs
    BY PipelineConstants DEF Graphs
  <2> QED
    BY <1>1, <1>2, <1>3, <2>1 DEF Entries
<1>5. /\ pool' = [pool EXCEPT ![step.batch] = e] /\ pc = "graph" /\ pc' = "graph"
      /\ UNCHANGED <<sched, built, staging, step, done, stream, device_vars>>
  BY <1>1, <1>2 DEF DropStaleGraph
<1> QED
  BY <1>4, <1>5, GraphActionKeeps DEF AtGraph

LEMMA CaptureGraphKeeps == ASSUME IInv, CaptureGraph PROVE IInv'
<1>1. step.batch \in DOMAIN pool /\ Entry = pool[step.batch]
  BY DEF IInv, CaptureGraph, HostInv, AtEntry, AtGraph, Entry
<1>2. PICK g : g = [addr |-> sched.addr, shape |-> sched.shape, scratch |-> Entry.scratch]
  OBVIOUS
<1>3. PICK e : e = [pool[step.batch] EXCEPT !.exec = g]
  OBVIOUS
<1>4. pool[step.batch] \in Entries
  BY <1>1, EntryFacts DEF IInv
<1>5. g \in Graphs /\ g # NoGraph
  <2>1. sched \in [addr : Addrs, shape : Shapes]
    BY DEF IInv, CaptureGraph, HostInv, Typed
  <2>2. Entry.scratch \in Steps
    BY <1>1, <1>4 DEF Entries
  <2> QED
    BY <1>2, <2>1, <2>2, PipelineConstants DEF Graphs, NoGraph
<1>6. /\ e \in Entries /\ e.exec = g
      /\ e.scratch = Entry.scratch /\ e.shape = Entry.shape
      /\ e.staged = Entry.staged /\ e.last_used = Entry.last_used
  BY <1>1, <1>3, <1>4, <1>5 DEF Entries
<1>7. /\ pool' = [pool EXCEPT ![step.batch] = e] /\ pc = "graph" /\ pc' = "launch"
      /\ UNCHANGED <<sched, built, staging, step, done, stream, device_vars>>
  BY <1>1, <1>2, <1>3 DEF CaptureGraph
<1>8. g.addr = sched.addr /\ g.shape = sched.shape /\ g.scratch = Entry.scratch
  BY <1>2
<1> QED
  BY <1>5, <1>6, <1>7, <1>8, GraphActionKeeps DEF AtGraph

LEMMA CaptureFailsKeeps == ASSUME IInv, CaptureFails PROVE IInv'
<1>1. step.batch \in DOMAIN pool /\ Entry = pool[step.batch]
  BY DEF IInv, CaptureFails, HostInv, AtEntry, AtGraph, Entry
<1>2. PICK e : e = [pool[step.batch] EXCEPT !.attempts = Entry.attempts + 1,
                                             !.failed_with = built]
  OBVIOUS
<1>3. pool[step.batch] \in Entries
  BY <1>1, EntryFacts DEF IInv
<1>4. Entry.exec = NoGraph /\ pool[step.batch].attempts < MaxCaptureAttempts
  BY <1>1 DEF CaptureFails, MayCapture, Captured
<1>5. /\ e \in Entries /\ e.exec = NoGraph
      /\ e.scratch = Entry.scratch /\ e.shape = Entry.shape
      /\ e.staged = Entry.staged /\ e.last_used = Entry.last_used
  <2>1. pool[step.batch].attempts + 1 \in 0..MaxCaptureAttempts
    BY <1>1, <1>4, EntryFacts, PipelineConstants DEF IInv
  <2>2. built \in 0..MaxSchedulers
    BY DEF IInv, Typed
  <2> QED
    BY <1>1, <1>2, <1>3, <1>4, <2>1, <2>2 DEF Entries
<1>6. /\ pool' = [pool EXCEPT ![step.batch] = e] /\ pc = "graph" /\ pc' = "direct"
      /\ UNCHANGED <<sched, built, staging, step, done, stream, device_vars>>
  BY <1>1, <1>2 DEF CaptureFails
<1> QED
  BY <1>5, <1>6, GraphActionKeeps DEF AtGraph

\* The step's entry is found or made; scratch is not touched.
LEMMA FindEntryKeeps == ASSUME IInv, FindEntry PROVE IInv'
<1> USE DEF IInv, device_vars
<1>1. /\ pc = "entry" /\ pc' \in {"evict", "inputs"}
      /\ pc' = "evict" => Overfull(DOMAIN pool')
      /\ UNCHANGED <<sched, built, staging, step, done, stream, dev, ran, logits, idx>>
  BY DEF FindEntry
<1>2. /\ step.batch \in Batches /\ step.kind = "decode"
      /\ sched # NoScheduler /\ staging = step.id /\ step.id > 0
  BY <1>1 DEF HostInv
<1>3. /\ DOMAIN pool' = DOMAIN pool \cup {step.batch}
      /\ \A b \in DOMAIN pool \cup {step.batch} :
           pool'[b] = IF b \notin DOMAIN pool THEN NewEntry
                      ELSE [pool[b] EXCEPT !.last_used = IF b = step.batch THEN step.id
                                                                          ELSE @]
      /\ pool' = [b \in DOMAIN pool' |-> pool'[b]]
  BY DEF FindEntry
<1>4. step.id \in 1..MaxSteps
  BY <1>2, StepFacts
<1>5. /\ NewEntry \in Entries /\ NewEntry.scratch = 0 /\ NewEntry.exec = NoGraph
      /\ NewEntry.last_used = step.id
  BY <1>4, PipelineConstants DEF NewEntry, Entries, Graphs, Steps
<1>6. ASSUME NEW b \in DOMAIN pool
      PROVE  /\ pool'[b] \in Entries
             /\ pool'[b].exec = pool[b].exec /\ pool'[b].scratch = pool[b].scratch
             /\ pool'[b].shape = pool[b].shape
             /\ pool'[b].last_used = IF b = step.batch THEN step.id ELSE pool[b].last_used
  <2>1. pool[b] \in Entries
    BY EntryFacts
  <2>2. CASE b = step.batch
    <3>1. pool'[b] = [pool[b] EXCEPT !.last_used = step.id]
      BY <1>3, <2>2
    <3> QED
      BY <1>4, <2>1, <2>2, <3>1 DEF Entries
  <2>3. CASE b # step.batch
    <3>1. pool'[b] = [pool[b] EXCEPT !.last_used = pool[b].last_used]
      BY <1>3, <2>3
    <3> QED
      BY <2>1, <2>3, <3>1 DEF Entries
  <2> QED
    BY <2>2, <2>3
<1>7. ASSUME step.batch \notin DOMAIN pool
      PROVE  pool'[step.batch] = NewEntry
  BY <1>3, <1>7
<1>8. pool'[step.batch].last_used = step.id
  BY <1>5, <1>6, <1>7
<1>9. Typed'
  <2>1. \A b \in DOMAIN pool' : pool'[b] \in Entries
    BY <1>3, <1>5, <1>6, <1>7
  <2>2. DOMAIN pool' \subseteq Batches /\ IsFiniteSet(DOMAIN pool')
    BY <1>2, <1>3, FS_AddElement DEF Typed
  <2>3. pool' \in [DOMAIN pool' -> Entries]
    BY <1>3, <2>1
  <2> QED
    BY <1>1, <2>2, <2>3 DEF Typed, AtEntry
<1>10. HostInv'
  BY <1>1, <1>2, <1>3, <1>8 DEF HostInv, AtEntry, AtGraph, Entry
<1>11. PoolInv'
  <2>1. ASSUME NEW b \in DOMAIN pool'
        PROVE  /\ pool'[b].last_used <= step.id /\ pool'[b].scratch < step.id
               /\ pool'[b].exec # NoGraph =>
                    /\ pool'[b].scratch # 0 /\ pool'[b].exec.shape = pool'[b].shape
                    /\ pool'[b].exec.scratch = pool'[b].scratch
               /\ b # step.batch => pool'[b].last_used < step.id
    <3>1. CASE b \in DOMAIN pool
      <4>1. /\ pool[b].last_used < step.id /\ pool[b].scratch < step.id
            /\ pool[b].exec # NoGraph =>
                 /\ pool[b].scratch # 0 /\ pool[b].exec.shape = pool[b].shape
                 /\ pool[b].exec.scratch = pool[b].scratch
        BY <1>1, <3>1 DEF PoolInv
      <4> QED
        BY <1>6, <3>1, <4>1, StepFacts, EntryFacts
    <3>2. CASE b \notin DOMAIN pool
      BY <1>2, <1>3, <1>5, <1>7, <3>2, StepFacts
    <3> QED
      BY <3>1, <3>2
  <2>2. \A b, c \in DOMAIN pool' :
          pool'[b].scratch = pool'[c].scratch /\ pool'[b].scratch # 0 => b = c
    <3>1. \A b \in DOMAIN pool' : pool'[b].scratch # 0 => b \in DOMAIN pool
      BY <1>3, <1>5, <1>7
    <3> QED
      BY <1>6, <3>1 DEF PoolInv
  <2>3. \A b \in DOMAIN pool' : pool'[b].scratch <= step.id
    BY <2>1, <1>3, <1>5, <1>6, <1>7, StepFacts, EntryFacts
  <2> QED
    BY <1>1, <2>1, <2>2, <2>3 DEF PoolInv
<1>12. StreamInv'
  <2>1. CurrentScratch \subseteq CurrentScratch'
    BY <1>1, <1>3, <1>6 DEF CurrentScratch
  <2> QED
    BY <1>1, <2>1 DEF StreamInv
<1>13. \A i \in DOMAIN stream : stream[i].step # step.id
  BY <1>1, OpFacts, StepFacts DEF StreamInv
<1>14. SourceInv'
  BY <1>1, <1>13 DEF SourceInv
<1>15. ForwardInv'
  <2>1. \A i \in DOMAIN stream : ~ (stream[i].op = "kernels" /\ stream[i].whole)
    BY <1>1, NoForwardYet DEF Queued
  <2> QED
    BY <1>1, <2>1 DEF ForwardInv, ForwardOwnInputs, AtGraph
<1>16. TailInv'
  BY <1>1 DEF TailInv
<1> QED
  BY <1>9, <1>10, <1>11, <1>12, <1>14, <1>15, <1>16

\* The entry of the running step is never the one evicted: it was used last,
\* and there is another.
LEMMA OldestIsAnother ==
  ASSUME IInv, pc = "evict"
  PROVE  Oldest \in DOMAIN pool /\ Oldest # step.batch
<1> USE DEF IInv
<1>1. step.batch \in DOMAIN pool /\ pool[step.batch].last_used = step.id
  BY DEF HostInv, AtEntry, Entry
<1>2. PICK other \in DOMAIN pool : other # step.batch
  <2>1. CASE DOMAIN pool = {step.batch}
    <3>1. Cardinality(DOMAIN pool) = 1
      BY <2>1, FS_Singleton
    <3> QED
      BY <3>1, PipelineConstants DEF HostInv, Overfull
  <2> QED
    BY <1>1, <2>1
<1>3. PICK least \in {pool[b].last_used : b \in DOMAIN pool} :
        \A m \in {pool[b].last_used : b \in DOMAIN pool} : least <= m
  <2>1. {pool[b].last_used : b \in DOMAIN pool} \subseteq Nat
    BY EntryFacts
  <2>2. {pool[b].last_used : b \in DOMAIN pool} # {}
    BY <1>1
  <2> QED
    BY <2>1, <2>2, LeastNatural
<1>4. \E b \in DOMAIN pool : \A c \in DOMAIN pool : pool[b].last_used <= pool[c].last_used
  BY <1>3
<1>5. /\ Oldest \in DOMAIN pool
      /\ \A c \in DOMAIN pool : pool[Oldest].last_used <= pool[c].last_used
  BY <1>4 DEF Oldest
<1>6. pool[other].last_used < step.id
  BY <1>2 DEF PoolInv
<1>7. pool[Oldest].last_used < step.id
  BY <1>2, <1>5, <1>6, EntryFacts, StepFacts
<1> QED
  BY <1>1, <1>5, <1>7, StepFacts

\* Nothing is queued when an entry goes.
LEMMA EvictEntryKeeps == ASSUME IInv, EvictEntry PROVE IInv'
<1> USE DEF IInv, device_vars
<1>1. /\ pc = "evict" /\ pc' = "inputs" /\ stream = <<>> /\ DOMAIN stream = {}
      /\ UNCHANGED <<sched, built, staging, step, done, stream, dev, ran, logits, idx>>
  BY DEF EvictEntry, Drained
<1>2. Oldest \in DOMAIN pool /\ Oldest # step.batch
  BY <1>1, OldestIsAnother
<1>3. /\ DOMAIN pool' = DOMAIN pool \ {Oldest}
      /\ \A b \in DOMAIN pool' : pool'[b] = pool[b]
      /\ pool' = [b \in DOMAIN pool' |-> pool'[b]]
  BY DEF EvictEntry, Restrict
<1>4. step.batch \in DOMAIN pool /\ pool[step.batch].last_used = step.id
  BY <1>1 DEF HostInv, AtEntry, Entry
<1>5. Typed'
  <2>1. \A b \in DOMAIN pool' : pool'[b] \in Entries
    BY <1>3, EntryFacts
  <2>2. DOMAIN pool' \subseteq Batches /\ IsFiniteSet(DOMAIN pool')
    <3>1. DOMAIN pool \subseteq Batches /\ IsFiniteSet(DOMAIN pool)
      BY DEF Typed
    <3>2. IsFiniteSet(DOMAIN pool \ {Oldest})
      BY <3>1, FS_RemoveElement
    <3> QED
      BY <1>3, <3>1, <3>2
  <2>3. pool' \in [DOMAIN pool' -> Entries]
    BY <1>3, <2>1
  <2> QED
    BY <1>1, <2>2, <2>3 DEF Typed, AtEntry
<1>6. HostInv'
  BY <1>1, <1>2, <1>3, <1>4 DEF HostInv, AtEntry, AtGraph, Entry
<1>7. PoolInv'
  BY <1>1, <1>3 DEF PoolInv
<1>8. StreamInv' /\ SourceInv'
  BY <1>1 DEF StreamInv, SourceInv
<1>9. ForwardInv'
  BY <1>1 DEF ForwardInv, ForwardOwnInputs, AtGraph
<1>10. TailInv'
  BY <1>1 DEF TailInv
<1> QED
  BY <1>5, <1>6, <1>7, <1>8, <1>9, <1>10

\* Fresh scratch is of this step, so no other entry has it, and nothing queued
\* touched what it replaces: that belonged to a scheduler long gone.
LEMMA StageInputsKeeps == ASSUME IInv, StageInputs PROVE IInv'
<1> USE DEF IInv, device_vars
<1>1. /\ pc = "inputs" /\ pc' = "graph"
      /\ UNCHANGED <<sched, built, staging, step, done, dev, ran, logits, idx>>
  BY DEF StageInputs
<1>2. /\ sched # NoScheduler /\ staging = step.id /\ step.id > 0
      /\ step.batch \in DOMAIN pool /\ step.batch \in Batches /\ step.kind = "decode"
      /\ pool[step.batch].last_used = step.id
  BY <1>1 DEF HostInv, AtEntry, Entry
<1>3. PICK old : old = pool[step.batch]
  OBVIOUS
<1>4. PICK e : e = Prepared(old)
  OBVIOUS
<1>5. /\ old \in Entries /\ old.scratch < step.id
      /\ old.exec # NoGraph => /\ old.scratch # 0 /\ old.exec.shape = old.shape
                               /\ old.exec.scratch = old.scratch
  BY <1>1, <1>2, <1>3, EntryFacts DEF PoolInv
<1>6. sched.shape \in Shapes /\ sched.shape # 0
  BY <1>2, PipelineConstants DEF Typed
<1>7. /\ e \in Entries
      /\ e.scratch = IF Fitting(old) THEN old.scratch ELSE step.id
      /\ e.shape = sched.shape /\ e.staged = step.id
      /\ e.exec = old.exec /\ e.last_used = old.last_used
  BY <1>2, <1>4, <1>5, <1>6, StepFacts DEF Prepared, Entries
<1>8. e.scratch # 0 /\ e.scratch <= step.id /\ e.scratch \in Nat
  BY <1>2, <1>5, <1>7, StepFacts, EntryFacts, <1>3 DEF Fitting
<1>9. /\ DOMAIN pool' = DOMAIN pool /\ pool'[step.batch] = e
      /\ \A b \in DOMAIN pool : b # step.batch => pool'[b] = pool[b]
      /\ pool' \in [DOMAIN pool -> Entries]
  <2>1. pool' = [pool EXCEPT ![step.batch] = e]
    BY <1>3, <1>4 DEF StageInputs
  <2> QED
    BY <1>2, <1>7, <2>1 DEF Typed
<1>10. PICK t : t = <<Upload("table", Owner(sched.addr), step.batch,
                            {<<"scratch", e.scratch>>})>>
  OBVIOUS
<1>11. /\ t \in Seq(Ops) /\ Len(t) = 1
       /\ t[1] = Upload("table", <<"scheduler", built>>, step.batch,
                        {<<"scratch", e.scratch>>})
  <2>1. <<"scratch", e.scratch>> \in MemoryOf
    BY <1>8 DEF MemoryOf
  <2>2. Upload("table", <<"scheduler", built>>, step.batch,
               {<<"scratch", e.scratch>>}) \in Ops
    BY <2>1, OwnBuffers, StepFacts DEF Upload, Ops, Uploads
  <2> QED
    BY <1>10, <2>2, OwnBuffers
<1>12. Enqueue(t)
  BY <1>9, <1>10 DEF StageInputs
<1>13. /\ t[1].op = "upload" /\ t[1].what = "table" /\ t[1].to = step.batch
       /\ t[1].step = step.id /\ t[1].source = <<"scheduler", built>>
       /\ t[1].mem = {<<"scheduler", built>>, <<"scratch", e.scratch>>}
  BY <1>11 DEF Upload
<1>14. PICK n \in Nat : n = Len(stream)
  BY OpFacts
<1>15. /\ stream' \in Seq(Ops) /\ Len(stream') = n + 1
       /\ DOMAIN stream' = 1 .. n + 1
       /\ \A i \in 1 .. n : stream'[i] = stream[i]
       /\ stream'[n + 1] = t[1]
  <2>1. stream \in Seq(Ops) /\ stream' = stream \o t
    BY <1>12 DEF Enqueue, Typed
  <2>2. /\ stream' \in Seq(Ops) /\ Len(stream') = Len(stream) + Len(t)
        /\ DOMAIN stream' = 1 .. Len(stream) + Len(t)
        /\ \A i \in 1 .. Len(stream) : stream'[i] = stream[i]
        /\ \A i \in 1 .. Len(t) : stream'[Len(stream) + i] = t[i]
    BY <1>11, <2>1, Behind
  <2> QED
    BY <1>11, <1>14, <2>2
<1>16. Typed'
  BY <1>1, <1>9, <1>15 DEF Typed, AtEntry, AtGraph
<1>17. HostInv'
  BY <1>1, <1>2, <1>3, <1>7, <1>8, <1>9 DEF HostInv, AtEntry, AtGraph, Entry
<1>18. PoolInv'
  <2>1. ASSUME NEW b \in DOMAIN pool, b # step.batch
        PROVE  /\ pool[b].scratch # e.scratch
               /\ pool[b].scratch <= step.id /\ pool[b].last_used <= step.id
    <3>1. pool[b].scratch < step.id /\ pool[b].last_used < step.id
      BY <1>1, <2>1 DEF PoolInv
    <3>2. pool[b].scratch = old.scratch => old.scratch = 0
      BY <1>2, <1>3, <2>1 DEF PoolInv
    <3> QED
      BY <1>7, <1>8, <3>1, <3>2, <2>1, StepFacts, EntryFacts
  <2>2. \A b, c \in DOMAIN pool' :
          pool'[b].scratch = pool'[c].scratch /\ pool'[b].scratch # 0 => b = c
    BY <1>9, <2>1 DEF PoolInv
  <2>3. ASSUME NEW b \in DOMAIN pool', pool'[b].exec # NoGraph
        PROVE  /\ pool'[b].scratch # 0
               /\ \/ /\ pool'[b].exec.shape = pool'[b].shape
                     /\ pool'[b].exec.scratch = pool'[b].scratch
                  \/ b = step.batch /\ pool'[b].exec.shape # sched.shape
    <3>1. CASE b = step.batch
      BY <1>5, <1>7, <1>8, <1>9, <2>3, <3>1 DEF Fitting
    <3>2. CASE b # step.batch
      <4>1. pool'[b] = pool[b] /\ b \in DOMAIN pool
        BY <1>9, <3>2
      <4> QED
        BY <1>1, <2>3, <4>1 DEF PoolInv
    <3> QED
      BY <3>1, <3>2
  <2>4. \A b \in DOMAIN pool' : pool'[b].last_used <= step.id /\ pool'[b].scratch <= step.id
    BY <1>2, <1>3, <1>7, <1>8, <1>9, <2>1, StepFacts
  <2> QED
    BY <1>1, <2>2, <2>3, <2>4 DEF PoolInv
<1>19. CurrentScratch \subseteq CurrentScratch' /\ <<"scratch", e.scratch>> \in CurrentScratch'
  <2>1. ASSUME NEW b \in DOMAIN pool, pool[b].scratch # 0, pool[b].shape = sched.shape
        PROVE  /\ pool'[b].scratch = pool[b].scratch /\ pool'[b].shape = sched.shape
    BY <1>3, <1>7, <1>9, <2>1 DEF Fitting
  <2>2. CurrentScratch \subseteq CurrentScratch'
    BY <1>1, <1>9, <2>1 DEF CurrentScratch
  <2>3. <<"scratch", e.scratch>> \in CurrentScratch'
    BY <1>1, <1>2, <1>7, <1>8, <1>9 DEF CurrentScratch
  <2> QED
    BY <2>2, <2>3
<1>20. \A i \in 1 .. 1 : i = 1
  OBVIOUS
<1>21. StreamInv'
  <2>1. \A i \in 1 .. Len(t) :
          /\ t[i].step = step.id
          /\ t[i].mem \subseteq {<<"scheduler", built>>} \cup CurrentScratch'
          /\ t[i].op = "kernels" => t[i].shape = sched.shape
    BY <1>11, <1>13, <1>19, <1>20
  <2> QED
    BY <1>1, <1>2, <1>11, <1>12, <1>19, <2>1, QueueKeepsStream
<1>22. \A i \in DOMAIN stream : stream[i].step # step.id
  BY <1>1, OpFacts, StepFacts DEF StreamInv
<1>23. SourceInv'
  <2>1. \A i \in 1 .. Len(t) : t[i].op = "upload" => OwnSource(t[i].source)'
    BY <1>1, <1>11, <1>13, <1>20 DEF OwnSource
  <2> QED
    BY <1>1, <1>11, <1>12, <1>22, <2>1, QueueKeepsSources
<1>24. ForwardInv'
  <2>1. \A i \in DOMAIN stream' : ~ (stream'[i].op = "kernels" /\ stream'[i].whole)
    <3>1. \A i \in 1 .. n : ~ (stream'[i].op = "kernels" /\ stream'[i].whole)
      BY <1>1, <1>14, <1>15, OpFacts, NoForwardYet DEF Queued
    <3>2. stream'[n + 1].op = "upload"
      BY <1>13, <1>15
    <3>3. \A i \in DOMAIN stream' : i \in 1 .. n \/ i = n + 1
      BY <1>15
    <3> QED
      BY <3>1, <3>2, <3>3
  <2>2. Arrives("table", n + 2)'
    <3>1. n + 1 \in DOMAIN stream' /\ n + 1 < n + 2
      BY <1>15
    <3>2. /\ stream'[n + 1].op = "upload" /\ stream'[n + 1].what = "table"
          /\ stream'[n + 1].to = step'.batch /\ stream'[n + 1].step = step'.id
      BY <1>1, <1>13, <1>15
    <3> QED
      BY <3>1, <3>2 DEF Arrives
  <2>3. Arrives("table", Len(stream) + 1)'
    <3>1. Len(stream') + 1 = n + 2
      BY <1>15
    <3> QED
      BY <2>2, <3>1 DEF Arrives
  <2> QED
    BY <1>1, <2>1, <2>3 DEF ForwardInv, ForwardOwnInputs
<1>25. TailInv'
  BY <1>1 DEF TailInv
<1> QED
  BY <1>16, <1>17, <1>18, <1>21, <1>23, <1>24, <1>25

(***************************************************************************)
(* The stream runs.                                                        *)
(***************************************************************************)

\* A copy that runs carries a step's number; the running step's own carries
\* its own, however late it runs.
LEMMA HeldTyped ==
  ASSUME IInv, NEW source \in MemoryOf
  PROVE  Held(source) \in Steps
<1>1. CASE source[1] = "scheduler"
  BY <1>1, PipelineConstants DEF IInv, Typed, Held, Steps
<1>2. CASE /\ source[1] # "scheduler"
           /\ \E b \in DOMAIN pool : pool[b].scratch = source[2]
  <2>1. (CHOOSE b \in DOMAIN pool : pool[b].scratch = source[2]) \in DOMAIN pool
    BY <1>2
  <2>2. \A b \in DOMAIN pool : pool[b].staged \in Steps
    BY EntryFacts DEF IInv, Entries
  <2> QED
    BY <1>2, <2>1, <2>2 DEF Held
<1>3. CASE /\ source[1] # "scheduler"
           /\ ~ \E b \in DOMAIN pool : pool[b].scratch = source[2]
  BY <1>3, PipelineConstants DEF Held, Steps
<1> QED
  BY <1>1, <1>2, <1>3

LEMMA HeldIsOwn ==
  ASSUME IInv, stream # <<>>, NEW source, OwnSource(source)
  PROVE  Held(source) = step.id
<1>1. sched # NoScheduler /\ staging = step.id
  BY DEF IInv, StreamInv
<1>2. CASE source = <<"scheduler", built>>
  <2>1. source \in Live
    BY <1>1, <1>2, OwnBuffers DEF IInv, Live
  <2> QED
    BY <1>1, <1>2, <2>1 DEF Held
<1>3. CASE /\ step.batch \in DOMAIN pool
           /\ Entry.scratch # 0 /\ Entry.staged = step.id
           /\ source = <<"scratch", Entry.scratch>>
  <2>1. source[1] = "scratch" /\ source[2] = pool[step.batch].scratch
    BY <1>3 DEF Entry
  <2>2. (CHOOSE b \in DOMAIN pool : pool[b].scratch = source[2]) = step.batch
    <3>1. \A b \in DOMAIN pool : pool[b].scratch = source[2] <=> b = step.batch
      BY <1>3, <2>1 DEF IInv, PoolInv, Entry
    <3> QED
      BY <1>3, <3>1
  <2> QED
    BY <1>3, <2>1, <2>2 DEF Held, Entry
<1> QED
  BY <1>2, <1>3 DEF OwnSource

\* What the stream looks like when its first operation has run.
LEMMA FirstRuns ==
  ASSUME IInv, StreamRuns
  PROVE  \E n \in Nat, h \in Ops :
           /\ n > 0 /\ n = Len(stream) /\ DOMAIN stream = 1 .. n
           /\ h = stream[1] /\ stream # <<>>
           /\ stream' \in Seq(Ops) /\ Len(stream') = n - 1
           /\ DOMAIN stream' = 1 .. n - 1
           /\ \A i \in 1 .. n - 1 : stream'[i] = stream[i + 1]
           /\ RunUpload(h) \/ RunKernels(h) \/ RunSampling(h)
<1>1. stream \in Seq(Ops) /\ stream # <<>>
  BY DEF IInv, Typed, StreamRuns
<1>2. Len(stream) \in Nat /\ Len(stream) > 0 /\ DOMAIN stream = 1 .. Len(stream)
  BY <1>1, QueueFacts
<1>3. /\ stream' = Tail(stream) /\ Tail(stream) \in Seq(Ops)
      /\ Len(Tail(stream)) = Len(stream) - 1
      /\ \A i \in 1 .. Len(Tail(stream)) : Tail(stream)[i] = stream[i + 1]
  BY <1>1, HeadTailProperties DEF StreamRuns
<1>4. DOMAIN Tail(stream) = 1 .. Len(Tail(stream))
  BY <1>3, QueueFacts
<1>5. Head(stream) = stream[1] /\ stream[1] \in Ops
  BY <1>1, <1>2, QueueFacts
<1>6. RunUpload(stream[1]) \/ RunKernels(stream[1]) \/ RunSampling(stream[1])
  BY <1>5 DEF StreamRuns
<1> QED
  BY <1>1, <1>2, <1>3, <1>4, <1>5, <1>6

\* What arrives before an operation still does when the first one has run.
LEMMA ArrivesOn ==
  ASSUME IInv, StreamRuns, NEW what \in {"inputs", "table"},
         NEW m \in Nat, m > 1, m <= Len(stream) + 1, Arrives(what, m)
  PROVE  Arrives(what, m - 1)'
<1> PICK n \in Nat, h \in Ops :
      /\ n > 0 /\ n = Len(stream) /\ DOMAIN stream = 1 .. n
      /\ h = stream[1] /\ stream # <<>>
      /\ stream' \in Seq(Ops) /\ Len(stream') = n - 1
      /\ DOMAIN stream' = 1 .. n - 1
      /\ \A i \in 1 .. n - 1 : stream'[i] = stream[i + 1]
      /\ RunUpload(h) \/ RunKernels(h) \/ RunSampling(h)
  BY FirstRuns
<1>1. /\ step' = step /\ step.id \in Nat /\ step.batch \in {0} \cup Batches
      /\ dev \in [{0} \cup Batches -> [inputs : Steps, table : Steps]]
  BY StepFacts DEF StreamRuns, host_vars, IInv, Typed
<1>2. ASSUME h.op = "upload", h.step = step.id
      PROVE  /\ dev' = [dev EXCEPT ![h.to] =
                  IF h.what = "inputs" THEN [@ EXCEPT !.inputs = step.id]
                                       ELSE [@ EXCEPT !.table = step.id]]
             /\ h.to \in {0} \cup Batches /\ h.what \in {"inputs", "table"}
  <2>1. Held(h.source) = step.id
    <3>1. OwnSource(stream[1].source)
      BY <1>2 DEF IInv, SourceInv
    <3> QED
      BY <3>1, HeldIsOwn
  <2>2. RunUpload(h)
    BY <1>2 DEF RunKernels, RunSampling
  <2>3. h \in Uploads
    BY <1>2 DEF Ops, KernelRuns, Samplings
  <2> QED
    BY <2>1, <2>2, <2>3 DEF RunUpload, Uploads
<1>3. ASSUME h.op # "upload"
      PROVE  dev' = dev
  BY <1>3 DEF RunUpload, RunKernels, RunSampling
<1>4. CASE \E j \in DOMAIN stream :
             /\ j < m /\ stream[j].op = "upload" /\ stream[j].what = what
             /\ stream[j].to = step.batch /\ stream[j].step = step.id
  <2>1. PICK j \in DOMAIN stream :
          /\ j < m /\ stream[j].op = "upload" /\ stream[j].what = what
          /\ stream[j].to = step.batch /\ stream[j].step = step.id
    BY <1>4
  <2>2. CASE j = 1
    <3>1. OnDevice(what)' = step.id
      BY <1>1, <1>2, <2>1, <2>2 DEF OnDevice
    <3>2. \A i \in DOMAIN stream : stream[i].step = step.id
      BY <1>1, <2>1, <2>2, OpFacts DEF IInv, StreamInv
    <3>3. \A i \in DOMAIN stream' : stream'[i].step = step.id
      <4>1. \A i \in DOMAIN stream' : i + 1 \in DOMAIN stream /\ stream'[i] = stream[i + 1]
        OBVIOUS
      <4> QED
        BY <3>2, <4>1
    <3> QED
      BY <1>1, <3>1, <3>3 DEF Arrives
  <2>3. CASE j # 1
    <3>1. j - 1 \in DOMAIN stream' /\ stream'[j - 1] = stream[j] /\ j - 1 < m - 1
      BY <2>1, <2>3
    <3> QED
      BY <1>1, <2>1, <3>1 DEF Arrives
  <2> QED
    BY <2>2, <2>3
<1>5. CASE /\ OnDevice(what) = step.id
           /\ \A j \in DOMAIN stream : j < m => stream[j].step = step.id
  <2>1. h.step = step.id
    BY <1>5
  <2>2. OnDevice(what)' = step.id
    <3>1. CASE h.op = "upload"
      BY <1>1, <1>2, <1>5, <2>1, <3>1 DEF OnDevice
    <3>2. CASE h.op # "upload"
      BY <1>1, <1>3, <1>5, <3>2 DEF OnDevice
    <3> QED
      BY <3>1, <3>2
  <2>3. \A j \in DOMAIN stream' : j < m - 1 => stream'[j].step = step.id
    <3>1. \A j \in DOMAIN stream' : j < m - 1 => /\ j + 1 \in DOMAIN stream /\ j + 1 < m
                                                /\ stream'[j] = stream[j + 1]
      OBVIOUS
    <3> QED
      BY <1>5, <3>1
  <2> QED
    BY <1>1, <2>2, <2>3 DEF Arrives
<1> QED
  BY <1>4, <1>5 DEF Arrives

\* Running the step's forward pass brings its results.
LEMMA ForwardRuns ==
  ASSUME IInv, StreamRuns, IsForward(1)
  PROVE  Ran'
<1> PICK n \in Nat, h \in Ops :
      /\ n > 0 /\ n = Len(stream) /\ DOMAIN stream = 1 .. n
      /\ h = stream[1] /\ stream # <<>>
      /\ stream' \in Seq(Ops) /\ Len(stream') = n - 1
      /\ DOMAIN stream' = 1 .. n - 1
      /\ \A i \in 1 .. n - 1 : stream'[i] = stream[i + 1]
      /\ RunUpload(h) \/ RunKernels(h) \/ RunSampling(h)
  BY FirstRuns
<1>1. RunKernels(h) /\ h.whole /\ h.step = step.id
      /\ h.writes_logits = (step.kind # "prefill")
  BY DEF IsForward, RunUpload, RunSampling
<1>2. /\ ran' = [step |-> h.step, inputs |-> dev[h.from].inputs,
                table |-> dev[h.from].table, whole |-> h.whole]
      /\ logits' = IF h.whole /\ h.writes_logits THEN h.step ELSE logits
      /\ step' = step
  BY <1>1 DEF RunKernels, StreamRuns, host_vars
<1> QED
  BY <1>1, <1>2 DEF Ran

LEMMA StreamRunsKeeps == ASSUME IInv, StreamRuns PROVE IInv'
<1> USE DEF IInv
<1>0. PICK n \in Nat, h \in Ops :
      /\ n > 0 /\ n = Len(stream) /\ DOMAIN stream = 1 .. n
      /\ h = stream[1] /\ stream # <<>>
      /\ stream' \in Seq(Ops) /\ Len(stream') = n - 1
      /\ DOMAIN stream' = 1 .. n - 1
      /\ \A i \in 1 .. n - 1 : stream'[i] = stream[i + 1]
      /\ RunUpload(h) \/ RunKernels(h) \/ RunSampling(h)
  BY FirstRuns
<1>1. UNCHANGED <<sched, built, staging, step, pc, pool, done>>
  BY DEF StreamRuns, host_vars
<1>2. \A i \in DOMAIN stream' : i + 1 \in DOMAIN stream /\ stream'[i] = stream[i + 1]
  BY <1>0
<1>3. stream' = <<>> <=> n = 1
  BY <1>0, QueueFacts
<1>4. Typed'
  <2>1. CASE RunUpload(h)
    <3>1. h \in Uploads
      BY <2>1 DEF RunUpload, Ops, KernelRuns, Samplings
    <3>2. Held(h.source) \in Steps
      BY <3>1, HeldTyped DEF Uploads
    <3>3. dev' \in [{0} \cup Batches -> [inputs : Steps, table : Steps]]
      BY <2>1, <3>1, <3>2 DEF Typed, RunUpload, Uploads
    <3> QED
      BY <1>0, <1>1, <2>1, <3>3 DEF Typed, RunUpload
  <2>2. CASE RunKernels(h)
    <3>1. h \in KernelRuns
      BY <2>2 DEF RunKernels, Ops, Uploads, Samplings
    <3>2. ran' \in [step : Steps, inputs : Steps, table : Steps, whole : BOOLEAN]
      BY <2>2, <3>1 DEF Typed, RunKernels, KernelRuns
    <3>3. logits' \in Steps
      BY <2>2, <3>1 DEF Typed, RunKernels, KernelRuns
    <3> QED
      BY <1>0, <1>1, <2>2, <3>2, <3>3 DEF Typed, RunKernels
  <2>3. CASE RunSampling(h)
    <3>1. h \in Samplings
      BY <2>3 DEF RunSampling, Ops, Uploads, KernelRuns
    <3>2. idx' \in [step : Steps, of : Steps]
      BY <2>3, <3>1 DEF Typed, RunSampling, Samplings
    <3> QED
      BY <1>0, <1>1, <2>3, <3>2 DEF Typed, RunSampling
  <2> QED
    BY <1>0, <2>1, <2>2, <2>3
<1>5. HostInv'
  BY <1>1 DEF HostInv, Entry, Replayable, Captured, Stale
<1>6. PoolInv'
  BY <1>1 DEF PoolInv
<1>7. StreamInv'
  <2>1. CurrentScratch' = CurrentScratch
    BY <1>1 DEF CurrentScratch
  <2>2. sched # NoScheduler /\ staging = step.id
    BY <1>0 DEF StreamInv
  <2>3. \A i, j \in DOMAIN stream' : i <= j => stream'[i].step <= stream'[j].step
    BY <1>0, <1>2 DEF StreamInv
  <2> QED
    BY <1>1, <1>2, <2>1, <2>2, <2>3 DEF StreamInv
<1>8. SourceInv'
  <2>1. \A source : OwnSource(source) => OwnSource(source)'
    BY <1>1 DEF OwnSource, Entry
  <2> QED
    BY <1>1, <1>2, <2>1 DEF SourceInv
<1>9. ForwardInv'
  <2>1. ASSUME NEW i \in DOMAIN stream', stream'[i].op = "kernels", stream'[i].whole
        PROVE  /\ stream'[i].step = step.id /\ stream'[i].from = step.batch
               /\ pc \in Queued /\ Arrives("inputs", i)' /\ Arrives("table", i)'
    <3>1. /\ stream[i + 1].step = step.id /\ stream[i + 1].from = step.batch
          /\ pc \in Queued /\ Arrives("inputs", i + 1) /\ Arrives("table", i + 1)
      BY <1>2, <2>1 DEF ForwardInv
    <3>2. i + 1 \in Nat /\ i + 1 > 1 /\ i + 1 <= Len(stream) + 1 /\ (i + 1) - 1 = i
      BY <1>0
    <3>3. Arrives("inputs", (i + 1) - 1)' /\ Arrives("table", (i + 1) - 1)'
      BY <3>1, <3>2, ArrivesOn
    <3> QED
      BY <1>2, <2>1, <3>1, <3>2, <3>3
  <2>2. ASSUME pc \in AtGraph
        PROVE  Arrives("table", Len(stream) + 1)'
    <3>1. Arrives("table", n + 1)
      BY <1>0, <2>2 DEF ForwardInv
    <3>2. n + 1 \in Nat /\ n + 1 > 1 /\ n + 1 <= Len(stream) + 1 /\ (n + 1) - 1 = n
      BY <1>0
    <3>3. Arrives("table", (n + 1) - 1)'
      BY <3>1, <3>2, ArrivesOn
    <3>4. Len(stream') + 1 = n
      BY <1>0
    <3> QED
      BY <3>2, <3>3, <3>4
  <2>3. ForwardOwnInputs'
    <3>1. CASE RunKernels(h)
      <4>1. ran' = [step |-> h.step, inputs |-> dev[h.from].inputs,
                    table |-> dev[h.from].table, whole |-> h.whole] /\ h.op = "kernels"
        BY <3>1 DEF RunKernels
      <4>2. CASE h.whole
        <5>1. 1 \in DOMAIN stream /\ \A j \in DOMAIN stream : ~ (j < 1)
          BY <1>0
        <5>2. /\ h.step = step.id /\ h.from = step.batch
              /\ Arrives("inputs", 1) /\ Arrives("table", 1)
          BY <1>0, <4>1, <4>2, <5>1 DEF ForwardInv
        <5>3. dev[step.batch].inputs = step.id /\ dev[step.batch].table = step.id
          BY <5>1, <5>2 DEF Arrives, OnDevice
        <5> QED
          BY <4>1, <5>2, <5>3 DEF ForwardOwnInputs
      <4>3. CASE ~h.whole
        BY <4>1, <4>3 DEF ForwardOwnInputs
      <4> QED
        BY <4>2, <4>3
    <3>2. CASE ran' = ran
      BY <3>2 DEF ForwardInv, ForwardOwnInputs
    <3> QED
      BY <1>0, <3>1, <3>2 DEF RunUpload, RunSampling
  <2> QED
    BY <1>1, <2>1, <2>2, <2>3 DEF ForwardInv
<1>10. TailInv'
  <2>1. ASSUME n > 1
        PROVE  /\ Len(stream') \in 1 .. n - 1 /\ stream'[Len(stream')] = stream[n]
               /\ stream' # <<>>
    BY <1>0, <1>3, <2>1
  <2>2. ASSUME n > 2
        PROVE  /\ Len(stream') - 1 \in 1 .. n - 1
               /\ stream'[Len(stream') - 1] = stream[n - 1] /\ Len(stream') # 1
    BY <1>0, <2>2
  <2>3. CASE pc \in {"sample", "drain"}
    <3>1. IsForward(n)
      BY <1>0, <2>3 DEF TailInv
    <3>2. CASE n = 1
      BY <1>1, <1>3, <2>3, <3>1, <3>2, ForwardRuns DEF TailInv
    <3>3. CASE n > 1
      <4>1. IsForward(Len(stream))'
        BY <1>1, <2>1, <3>1, <3>3 DEF IsForward
      <4> QED
        BY <1>1, <2>1, <2>3, <3>3, <4>1 DEF TailInv
    <3> QED
      BY <1>0, <3>2, <3>3
  <2>4. CASE pc = "wait"
    <3>1. /\ stream[n].op = "sample" /\ stream[n].step = step.id
          /\ IF n = 1 THEN Ran ELSE IsForward(n - 1)
      BY <1>0, <2>4 DEF TailInv
    <3>2. CASE n = 1
      <4>1. RunSampling(h)
        BY <1>0, <3>1, <3>2 DEF RunUpload, RunKernels
      <4>2. idx'.of = logits' /\ Ran'
        BY <1>1, <3>1, <3>2, <4>1 DEF RunSampling, Ran
      <4> QED
        BY <1>1, <1>3, <2>4, <3>2, <4>2 DEF TailInv
    <3>3. CASE n = 2
      <4>1. Ran'
        BY <3>1, <3>3, ForwardRuns
      <4>2. Len(stream') = 1
        BY <1>0, <3>3
      <4> QED
        BY <1>1, <2>1, <2>4, <3>1, <3>3, <4>1, <4>2 DEF TailInv
    <3>4. CASE n > 2
      <4>1. IsForward(Len(stream) - 1)'
        BY <1>1, <2>2, <3>1, <3>4 DEF IsForward
      <4> QED
        BY <1>1, <2>1, <2>2, <2>4, <3>1, <3>4, <4>1 DEF TailInv
    <3> QED
      BY <1>0, <3>2, <3>3, <3>4
  <2>5. CASE pc \notin {"sample", "drain", "wait"}
    BY <1>0, <1>1, <2>5 DEF TailInv
  <2> QED
    BY <2>3, <2>4, <2>5
<1> QED
  BY <1>4, <1>5, <1>6, <1>7, <1>8, <1>9, <1>10

(***************************************************************************)
(* The theorems.                                                           *)
(***************************************************************************)

\* Nothing the invariant speaks of changes in a stuttering step.
LEMMA StutterKeeps == ASSUME IInv, UNCHANGED vars PROVE IInv'
  BY DEF IInv, vars, host_vars, device_vars, Typed, HostInv, PoolInv, StreamInv,
         CurrentScratch, SourceInv, OwnSource, ForwardInv, Arrives, OnDevice,
         ForwardOwnInputs, TailInv, Ran, IsForward, Entry, Replayable, Captured, Stale

\* The invariant is inductive.
THEOREM PipelineInvariant == Spec => []IInv
<1>1. Init => IInv
  BY InitGood
<1>2. IInv /\ [Next]_vars => IInv'
  <2> SUFFICES ASSUME IInv, [Next]_vars PROVE IInv'
    OBVIOUS
  <2>1. CASE HostStep
    BY <2>1, ForwardKeeps, ForwardFailsKeeps, DrainPrefillKeeps, SampleKeeps,
       TakeTokensKeeps, FindEntryKeeps, EvictEntryKeeps, StageInputsKeeps,
       DropStaleGraphKeeps, CaptureGraphKeeps, CaptureFailsKeeps, LaunchGraphKeeps,
       LaunchFailsKeeps, DirectForwardKeeps, DirectFailsKeeps DEF HostStep
  <2>2. CASE NewScheduler \/ DestroyScheduler \/ StageRows
    BY <2>2, NewSchedulerKeeps, DestroySchedulerKeeps, StageRowsKeeps
  <2>3. CASE StreamRuns
    BY <2>3, StreamRunsKeeps
  <2>4. CASE UNCHANGED vars
    BY <2>4, StutterKeeps
  <2> QED
    BY <2>1, <2>2, <2>3, <2>4 DEF Next
<1> QED
  BY <1>1, <1>2, PTL DEF Spec

\* Types, for every value of the constants.
THEOREM Types == Spec => []TypeOK
<1>1. IInv => TypeOK
  <2> SUFFICES ASSUME IInv PROVE TypeOK
    OBVIOUS
  <2> USE DEF IInv
  <2>1. \A b \in DOMAIN pool : /\ pool[b].attempts \in 0..MaxCaptureAttempts
                              /\ pool[b].last_used \in 1..MaxSteps
                              /\ pool[b].scratch \in Steps /\ pool[b].staged \in Steps
    BY EntryFacts DEF Entries
  <2>2. ASSUME NEW i \in DOMAIN stream
        PROVE  /\ stream[i].op \in {"upload", "kernels", "sample"}
               /\ stream[i].step \in 1..step.id
               /\ stream[i].mem \subseteq Memory
    <3>1. stream[i] \in Ops /\ stream[i].step \in Nat
      BY OpFacts
    <3>2. stream[i].op \in {"upload", "kernels", "sample"}
      BY <3>1 DEF Ops, Uploads, KernelRuns, Samplings
    <3>3. stream[i].step \in 1..step.id
      BY <3>1, StepFacts DEF StreamInv
    <3>4. <<"scheduler", built>> \in Memory
      BY DEF Typed, Memory
    <3>5. CurrentScratch \subseteq Memory
      BY <2>1 DEF CurrentScratch, Memory, Steps
    <3> QED
      BY <3>2, <3>3, <3>4, <3>5 DEF StreamInv
  <2>3. pc \in {"idle", "forward", "drain", "sample", "wait", "entry", "evict",
               "inputs", "graph", "launch", "direct"}
    BY DEF Typed, AtEntry, AtGraph, Queued
  <2> QED
    BY <2>1, <2>2, <2>3, StepFacts DEF TypeOK, Typed
<1> QED
  BY <1>1, PipelineInvariant, PTL

\* A step that succeeded leaves no copy out of pinned staging queued, and the
\* running step's copies carry its own rows.
THEOREM StagingIsSettled == Spec => []StagingSettled
<1>1. IInv => StagingSettled
  <2> SUFFICES ASSUME IInv, NEW i \in DOMAIN stream, stream[i].op = "upload"
               PROVE  /\ ~(pc = "idle" /\ done.ok)
                      /\ stream[i].step = step.id => Held(stream[i].source) = step.id
    BY DEF StagingSettled
  <2>1. stream # <<>>
    BY OpFacts DEF IInv
  <2>2. ~(pc = "idle" /\ done.ok)
    BY <2>1 DEF IInv, TailInv
  <2>3. stream[i].step = step.id => Held(stream[i].source) = step.id
    BY <2>1, HeldIsOwn DEF IInv, SourceInv
  <2> QED
    BY <2>2, <2>3
<1> QED
  BY <1>1, PipelineInvariant, PTL

\* No queued operation touches memory that is gone.
THEOREM QueuedBuffersLive == Spec => []BuffersLive
<1>1. IInv => BuffersLive
  <2> SUFFICES ASSUME IInv, NEW i \in DOMAIN stream
               PROVE  stream[i].mem \subseteq Live
    BY DEF BuffersLive
  <2>1. stream[i].mem \subseteq {<<"scheduler", built>>} \cup CurrentScratch
    BY DEF IInv, StreamInv
  <2>2. <<"scheduler", built>> \in Live
    BY OpFacts, OwnBuffers DEF IInv, StreamInv, Live
  <2>3. CurrentScratch \subseteq Live
    BY DEF CurrentScratch, Live
  <2> QED
    BY <2>1, <2>2, <2>3
<1> QED
  BY <1>1, PipelineInvariant, PTL

\* Queued kernels, a replayed graph's included, have the geometry of the KV pool
\* they write to.
THEOREM QueuedGeometryCurrent == Spec => []GeometryCurrent
<1>1. IInv => GeometryCurrent
  BY DEF IInv, StreamInv, GeometryCurrent
<1> QED
  BY <1>1, PipelineInvariant, PTL

\* Every forward pass carried through reads its own step's inputs.
THEOREM ForwardsReadOwnInputs == Spec => []ForwardOwnInputs
<1>1. IInv => ForwardOwnInputs
  BY DEF IInv, ForwardInv
<1> QED
  BY <1>1, PipelineInvariant, PTL

\* A step that returns has run its forward pass and has its own tokens.
THEOREM StepsReturnOwnResults == Spec => []ResultsAreOwn
<1>1. IInv => ResultsAreOwn
  BY DEF IInv, TailInv, Ran, ResultsAreOwn
<1> QED
  BY <1>1, PipelineInvariant, PTL
===============================================================================
