------------------------------ MODULE StepPipeline ------------------------------
(***************************************************************************)
(* One step of the device work: Scheduler::execute_batch, which stages the *)
(* rows of a step in pinned host memory, Model::decode_step with its pool  *)
(* of captured CUDA graphs, Model::forward_batch, and the sampler that     *)
(* brings the tokens back.                                                 *)
(*                                                                         *)
(* Two processes run here.  The host enqueues copies and kernels on the    *)
(* model's stream and goes on; the stream executes them later, in order.   *)
(* What a copy carries is what its source holds WHEN IT RUNS, so everything*)
(* the host rewrites or releases must be past its last queued reader.      *)
(*                                                                         *)
(* Data is abstracted to where it comes from: a buffer holds the number of *)
(* the step whose data was last put in it, 0 if nobody's.  "inputs" stands *)
(* for the tokens, positions, KV slots and prefill row map of a step.      *)
(***************************************************************************)
EXTENDS Integers, Sequences, FiniteSets, Functions

CONSTANTS
  Batches,                \* sizes a pure decode batch may have
  MaxDecodeGraphEntries,  \* kMaxDecodeGraphEntries
  MaxCaptureAttempts,     \* kMaxCaptureAttempts
  Addrs,                  \* addresses a scheduler's device buffers may get
  Shapes,                 \* geometries a scheduler's KV pool may have
  Faults,                 \* which calls may fail, out of FaultNames
  MaxSteps,               \* bound: steps executed
  MaxSchedulers           \* bound: schedulers constructed

FaultNames == {"begin", "capture", "instantiate", "launch", "forward"}

ASSUME PipelineConstants ==
  /\ Batches \subseteq Nat \ {0}
  /\ MaxDecodeGraphEntries \in Nat \ {0}
  /\ MaxCaptureAttempts \in Nat
  /\ 0 \notin Addrs /\ 0 \notin Shapes
  /\ Faults \subseteq FaultNames
  /\ MaxSteps \in Nat /\ MaxSchedulers \in Nat

VARIABLES
  sched,    \* the scheduler alive: where its buffers are, their geometry
  built,    \* schedulers constructed so far
  staging,  \* whose rows the scheduler's pinned staging buffers hold
  step,     \* the step being executed, or executed last
  pc,       \* where the host is in it
  pool,     \* decode_graph_pool_, by batch size
  dev,      \* device copies of inputs and block table: 0 pooled, or an entry's
  stream,   \* operations queued on the model's stream
  ran,      \* ghost: what the last forward pass that ran was computed from
  logits,   \* whose logits the logits buffer holds
  idx,      \* whose logits the tokens in the sampler's host buffer are from
  done      \* ghost: the last step that returned, with what

host_vars == <<sched, built, staging, step, pc, pool, done>>
device_vars == <<dev, ran, logits, idx>>
vars == <<host_vars, stream, device_vars>>

NoScheduler == [addr |-> 0, shape |-> 0]
NoGraph == [addr |-> 0, shape |-> 0, scratch |-> 0]

Entry == pool[step.batch]
-------------------------------------------------------------------------------
(* Operations on the stream.  mem names the memory an operation touches: a   *)
(* scheduler's buffers or the scratch of a pool entry, each by who made it.  *)

\* Whose memory is at the address of a scheduler's buffers now?
Owner(addr) == <<"scheduler", IF addr = sched.addr THEN built ELSE 0>>

Live ==
  (IF sched = NoScheduler THEN {} ELSE {Owner(sched.addr)})
    \cup {<<"scratch", pool[b].scratch>> : b \in DOMAIN pool}

\* What a copy from this host buffer carries if it runs now.
Held(source) ==
  IF source[1] = "scheduler"
  THEN IF source \in Live THEN staging ELSE 0
  ELSE IF \E b \in DOMAIN pool : pool[b].scratch = source[2]
       THEN pool[CHOOSE b \in DOMAIN pool : pool[b].scratch = source[2]].staged
       ELSE 0

Upload(what, source, to, scratch) ==
  [op |-> "upload", what |-> what, source |-> source, to |-> to,
   step |-> step.id, mem |-> {source} \cup scratch]

\* The kernels of a forward pass; when it fails midway, those before the error.
Kernels(from, addr, shape, scratch, whole) ==
  [op |-> "kernels", from |-> from, shape |-> shape, whole |-> whole,
   writes_logits |-> step.kind # "prefill",
   step |-> step.id, mem |-> {Owner(addr)} \cup scratch]

Sampling == [op |-> "sample", step |-> step.id, mem |-> {Owner(sched.addr)}]

Enqueue(ops) == stream' = stream \o ops

\* cudaStreamSynchronize returns.
Drained == stream = <<>>

\* The event recorded behind this step's sampling has completed.
Sampled == ~ \E i \in DOMAIN stream :
                stream[i].op = "sample" /\ stream[i].step = step.id
-------------------------------------------------------------------------------
Init ==
  /\ sched = NoScheduler /\ built = 0
  /\ staging = 0
  /\ step = [id |-> 0, kind |-> "none", batch |-> 0]
  /\ pc = "idle"
  /\ pool = <<>>
  /\ dev = [x \in {0} \cup Batches |-> [inputs |-> 0, table |-> 0]]
  /\ stream = <<>>
  /\ ran = [step |-> 0, inputs |-> 0, table |-> 0, whole |-> FALSE]
  /\ logits = 0
  /\ idx = [step |-> 0, of |-> 0]
  /\ done = [step |-> 0, ok |-> FALSE, tokens |-> 0]

-------------------------------------------------------------------------------
(* The scheduler comes and goes; the model and its graph pool stay.          *)

\* The allocator may hand the buffers of the last scheduler to the next one.
NewScheduler ==
  /\ pc = "idle" /\ sched = NoScheduler /\ built < MaxSchedulers
  /\ \E a \in Addrs, s \in Shapes : sched' = [addr |-> a, shape |-> s]
  /\ built' = built + 1
  /\ staging' = 0
  /\ UNCHANGED <<step, pc, pool, done, stream, device_vars>>

\* Mutant: the destructor does not wait for the stream.
DestroyUndrained ==
  /\ pc = "idle" /\ sched # NoScheduler
  /\ sched' = NoScheduler
  /\ UNCHANGED <<built, staging, step, pc, pool, done, stream, device_vars>>

\* The destructor drains the stream before the buffers are released.
DestroyScheduler ==
  /\ pc = "idle" /\ sched # NoScheduler
  /\ Drained
  /\ sched' = NoScheduler
  /\ UNCHANGED <<built, staging, step, pc, pool, done, stream, device_vars>>

-------------------------------------------------------------------------------
(* execute_batch                                                             *)

\* The rows are written over those of the previous step.
StageRows ==
  /\ pc = "idle" /\ sched # NoScheduler /\ step.id < MaxSteps
  /\ staging' = step.id + 1
  /\ \/ \E b \in Batches :
          /\ step' = [id |-> step.id + 1, kind |-> "decode", batch |-> b]
          /\ pc' = "entry"
     \/ \E kind \in {"mixed", "prefill"} :
          /\ step' = [id |-> step.id + 1, kind |-> kind, batch |-> 0]
          /\ pc' = "forward"
  /\ UNCHANGED <<sched, built, pool, done, stream, device_vars>>

\* A forward pass outside the graphs: temporaries come from the device pool,
\* whose memory is reused in stream order.
PlainOps(whole) ==
  <<Upload("inputs", Owner(sched.addr), 0, {}),
    Upload("table", Owner(sched.addr), 0, {}),
    Kernels(0, sched.addr, sched.shape, {}, whole)>>

Forward ==
  /\ pc = "forward"
  /\ Enqueue(PlainOps(TRUE))
  /\ pc' = IF step.kind = "prefill" THEN "drain" ELSE "sample"
  /\ UNCHANGED <<sched, built, staging, step, pool, done, device_vars>>

\* The step is over for the host: force_finish_all, or its tokens are booked.
Return(ok, tokens) ==
  /\ pc' = "idle"
  /\ done' = [step |-> step.id, ok |-> ok, tokens |-> tokens]

\* A status error after the uploads; nothing waits for them.
ForwardFails ==
  /\ pc = "forward" /\ "forward" \in Faults
  /\ Enqueue(PlainOps(FALSE))
  /\ Return(FALSE, 0)
  /\ UNCHANGED <<sched, built, staging, step, pool, device_vars>>

\* Mutant: a pure prefill step returns like one that samples.
PrefillUndrained ==
  /\ pc = "drain"
  /\ Return(TRUE, 0)
  /\ UNCHANGED <<sched, built, staging, step, pool, stream, device_vars>>

\* A pure prefill step samples nothing, so it waits for the stream itself.
DrainPrefill ==
  /\ pc = "drain"
  /\ Drained
  /\ Return(TRUE, 0)
  /\ UNCHANGED <<sched, built, staging, step, pool, stream, device_vars>>

\* The argmax, its copy to the host and the event, on the same stream.
Sample ==
  /\ pc = "sample"
  /\ Enqueue(<<Sampling>>)
  /\ pc' = "wait"
  /\ UNCHANGED <<sched, built, staging, step, pool, done, device_vars>>

TakeTokens ==
  /\ pc = "wait"
  /\ Sampled
  /\ Return(TRUE, idx.of)
  /\ UNCHANGED <<sched, built, staging, step, pool, stream, device_vars>>

-------------------------------------------------------------------------------
(* decode_step                                                               *)

NewEntry ==
  [exec |-> NoGraph, attempts |-> 0, last_used |-> step.id, scratch |-> 0,
   shape |-> 0, staged |-> 0, failed_with |-> 0]

Overfull(entries) == Cardinality(entries) > MaxDecodeGraphEntries

FindEntry ==
  /\ pc = "entry"
  /\ pool' = [b \in DOMAIN pool \cup {step.batch} |->
                IF b \notin DOMAIN pool THEN NewEntry
                ELSE [pool[b] EXCEPT !.last_used = IF b = step.batch THEN step.id
                                                                    ELSE @]]
  /\ pc' = IF Overfull(DOMAIN pool') THEN "evict" ELSE "inputs"
  /\ UNCHANGED <<sched, built, staging, step, done, stream, device_vars>>

Oldest ==
  CHOOSE b \in DOMAIN pool :
    \A c \in DOMAIN pool : pool[b].last_used <= pool[c].last_used

\* Its graph may still be replaying out of the scratch that goes with it.
EvictEntry ==
  /\ pc = "evict"
  /\ Drained
  /\ pool' = Restrict(pool, DOMAIN pool \ {Oldest})
  /\ pc' = "inputs"
  /\ UNCHANGED <<sched, built, staging, step, done, stream, device_vars>>

\* BatchScratch::ensure keeps the buffers when nothing about them changed.
Fitting(e) == e.scratch # 0 /\ e.shape = sched.shape

\* Mutant: inputs are staged only into fresh scratch.
PreparedOnce(e) ==
  IF Fitting(e) THEN e
  ELSE [e EXCEPT !.scratch = step.id, !.shape = sched.shape, !.staged = staging]

Prepared(e) ==
  [e EXCEPT !.scratch = IF Fitting(e) THEN @ ELSE step.id,
            !.shape = sched.shape,
            !.staged = staging]

\* The inputs are copied to where the graph reads them, on the host; the block
\* table is uploaded straight from the scheduler's staging, outside any graph.
StageInputs ==
  /\ pc = "inputs"
  /\ pool' = [pool EXCEPT ![step.batch] = Prepared(@)]
  /\ Enqueue(<<Upload("table", Owner(sched.addr), step.batch,
                      {<<"scratch", pool'[step.batch].scratch>>})>>)
  /\ pc' = "graph"
  /\ UNCHANGED <<sched, built, staging, step, done, device_vars>>

Captured == Entry.exec # NoGraph

\* Mutant: only addresses are compared, not the geometry.
StaleAddress == Captured /\ Entry.exec.addr # sched.addr

\* Baked in at capture and compared before every replay.
Stale == Captured /\ (\/ Entry.exec.addr # sched.addr
                      \/ Entry.exec.shape # sched.shape)

DropStaleGraph ==
  /\ pc = "graph" /\ Stale
  /\ Drained
  /\ pool' = [pool EXCEPT ![step.batch] = [@ EXCEPT !.exec = NoGraph,
                                                    !.attempts = 0]]
  /\ UNCHANGED <<sched, built, staging, step, pc, done, stream, device_vars>>

MayCapture == ~Captured /\ Entry.attempts < MaxCaptureAttempts

\* Mutant: the step goes on to sample after recording.
CaptureOnly ==
  /\ pc = "graph" /\ MayCapture
  /\ pool' = [pool EXCEPT ![step.batch].exec =
                [addr |-> sched.addr, shape |-> sched.shape,
                 scratch |-> Entry.scratch]]
  /\ pc' = "sample"
  /\ UNCHANGED <<sched, built, staging, step, done, stream, device_vars>>

\* Recording runs nothing: the launch that follows does this step's work.
CaptureGraph ==
  /\ pc = "graph" /\ MayCapture
  /\ pool' = [pool EXCEPT ![step.batch].exec =
                [addr |-> sched.addr, shape |-> sched.shape,
                 scratch |-> Entry.scratch]]
  /\ pc' = "launch"
  /\ UNCHANGED <<sched, built, staging, step, done, stream, device_vars>>

\* A recording that broke may have been invalidated in flight: drain first.
CaptureFails ==
  /\ pc = "graph" /\ MayCapture
  /\ \E fault \in Faults \cap {"begin", "capture", "instantiate"} :
       fault = "capture" => Drained
  /\ pool' = [pool EXCEPT ![step.batch] = [@ EXCEPT !.attempts = Entry.attempts + 1,
                                                    !.failed_with = built]]
  /\ pc' = "direct"
  /\ UNCHANGED <<sched, built, staging, step, done, stream, device_vars>>

Replayable == Captured /\ ~Stale

\* The graph: upload nodes that read the entry's staging, then the kernels.
GraphOps(g) ==
  LET scratch == <<"scratch", g.scratch>>
  IN  <<Upload("inputs", scratch, step.batch, {}),
        Kernels(step.batch, g.addr, g.shape, {scratch}, TRUE)>>

LaunchGraph ==
  /\ pc = "launch" \/ (pc = "graph" /\ Replayable)
  /\ Enqueue(GraphOps(Entry.exec))
  /\ pc' = "sample"
  /\ UNCHANGED <<sched, built, staging, step, pool, done, device_vars>>

\* Nothing of the graph is queued, but the block table's upload is.
LaunchFails ==
  /\ pc = "launch" \/ (pc = "graph" /\ Replayable)
  /\ "launch" \in Faults
  /\ Return(FALSE, 0)
  /\ UNCHANGED <<sched, built, staging, step, pool, stream, device_vars>>

\* With no graph and no attempt left, decode_step falls through to a direct pass.
Exhausted == ~Captured /\ ~MayCapture

\* forward_batch over the entry's scratch, not recorded.
DirectOps(whole) ==
  LET scratch == <<"scratch", Entry.scratch>>
  IN  <<Upload("inputs", scratch, step.batch, {}),
        Kernels(step.batch, sched.addr, sched.shape, {scratch}, whole)>>

DirectForward ==
  /\ pc = "direct" \/ (pc = "graph" /\ Exhausted)
  /\ Enqueue(DirectOps(TRUE))
  /\ pc' = "sample"
  /\ UNCHANGED <<sched, built, staging, step, pool, done, device_vars>>

DirectFails ==
  /\ pc = "direct" \/ (pc = "graph" /\ Exhausted)
  /\ "forward" \in Faults
  /\ Enqueue(DirectOps(FALSE))
  /\ Return(FALSE, 0)
  /\ UNCHANGED <<sched, built, staging, step, pool, device_vars>>

-------------------------------------------------------------------------------
(* The stream executes what is queued, in order.                             *)

RunUpload(op) ==
  /\ op.op = "upload"
  /\ dev' = [dev EXCEPT ![op.to] =
               IF op.what = "inputs" THEN [@ EXCEPT !.inputs = Held(op.source)]
                                     ELSE [@ EXCEPT !.table = Held(op.source)]]
  /\ UNCHANGED <<ran, logits, idx>>

RunKernels(op) ==
  /\ op.op = "kernels"
  /\ ran' = [step |-> op.step, inputs |-> dev[op.from].inputs,
             table |-> dev[op.from].table, whole |-> op.whole]
  /\ logits' = IF op.whole /\ op.writes_logits THEN op.step ELSE logits
  /\ UNCHANGED <<dev, idx>>

RunSampling(op) ==
  /\ op.op = "sample"
  /\ idx' = [step |-> op.step, of |-> logits]
  /\ UNCHANGED <<dev, ran, logits>>

StreamRuns ==
  /\ stream # <<>>
  /\ \/ RunUpload(Head(stream))
     \/ RunKernels(Head(stream))
     \/ RunSampling(Head(stream))
  /\ stream' = Tail(stream)
  /\ UNCHANGED host_vars

-------------------------------------------------------------------------------
\* What the host does inside execute_batch.
HostStep ==
  \/ Forward \/ ForwardFails \/ DrainPrefill \/ Sample \/ TakeTokens
  \/ FindEntry \/ EvictEntry \/ StageInputs
  \/ DropStaleGraph \/ CaptureGraph \/ CaptureFails
  \/ LaunchGraph \/ LaunchFails \/ DirectForward \/ DirectFails

Next == NewScheduler \/ DestroyScheduler \/ StageRows \/ HostStep \/ StreamRuns

Spec == Init /\ [][Next]_vars

-------------------------------------------------------------------------------
(* Properties                                                                *)

Steps == 0..MaxSteps
Memory == {"scheduler", "scratch"} \X (0..MaxSteps \cup 0..MaxSchedulers)

\* Types; a pool entry never tries more captures than it may.
TypeOK ==
  /\ sched \in [addr : Addrs, shape : Shapes] \cup {NoScheduler}
  /\ built \in 0..MaxSchedulers /\ staging \in Steps
  /\ step.id \in Steps
  /\ pc \in {"idle", "forward", "drain", "sample", "wait", "entry", "evict",
            "inputs", "graph", "launch", "direct"}
  /\ DOMAIN pool \subseteq Batches
  /\ \A b \in DOMAIN pool : /\ pool[b].attempts \in 0..MaxCaptureAttempts
                            /\ pool[b].last_used \in 1..MaxSteps
                            /\ pool[b].scratch \in Steps
                            /\ pool[b].staged \in Steps
  /\ dev \in [{0} \cup Batches -> [inputs : Steps, table : Steps]]
  /\ \A i \in DOMAIN stream : /\ stream[i].op \in {"upload", "kernels", "sample"}
                              /\ stream[i].step \in 1..step.id
                              /\ stream[i].mem \subseteq Memory
  /\ logits \in Steps

\* Pinned staging is not rewritten while a copy out of it is queued: whenever a
\* copy runs it carries the rows of the step that queued it (the drain of pure
\* prefill steps and the sampler's event in execute_batch are there for this).
StagingIntact ==
  \A i \in DOMAIN stream :
    stream[i].op = "upload" => Held(stream[i].source) = stream[i].step

\* A step that succeeded leaves no copy out of pinned staging queued, and the
\* copies of the running step carry its own rows: only what a failed step left
\* behind can be torn (StagingIntact says that nothing can).
StagingSettled ==
  \A i \in DOMAIN stream :
    stream[i].op = "upload" =>
      /\ ~(pc = "idle" /\ done.ok)
      /\ stream[i].step = step.id => Held(stream[i].source) = step.id

\* No queued operation, a replayed graph's included, touches the buffers of a
\* scheduler that is gone or the scratch of an entry that was evicted or grew.
BuffersLive == \A i \in DOMAIN stream : stream[i].mem \subseteq Live

\* Kernels run with the geometry of the KV pool they write to.
GeometryCurrent ==
  \A i \in DOMAIN stream :
    stream[i].op = "kernels" => stream[i].shape = sched.shape

\* Every forward pass that is carried through, plain, direct or replayed, reads
\* the inputs and the block table of its own step on the device.
ForwardOwnInputs ==
  ran.whole => ran.inputs = ran.step /\ ran.table = ran.step

\* A step that returns has run its forward pass (a capture alone does not), and
\* its tokens were picked from the logits of that pass, not of an older one.
ResultsAreOwn ==
  (pc = "idle" /\ done.ok) =>
     /\ ran.step = done.step /\ ran.whole
     /\ step.kind # "prefill" => done.tokens = done.step

\* Captures are given up only against the buffers they failed with: the comment
\* in decode_step says a rebuilt scheduler un-sticks an exhausted entry.
ExhaustedAgainstCurrent ==
  (pc = "graph" /\ Exhausted) => Entry.failed_with = built
===============================================================================
