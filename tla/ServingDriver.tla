---------------------------- MODULE ServingDriver ----------------------------
(***************************************************************************)
(* The three drivers of the scheduler: online_serving_benchmark submits    *)
(* prompts as they arrive, offline_batch_benchmark and                     *)
(* prefix_caching_benchmark submit all of them and drain.  Each sizes its  *)
(* scheduler, warms it up with requests it must not report, opens a window *)
(* of measurement, steps the scheduler until it thinks it is done, and     *)
(* reads what became of the requests out of the finished history.          *)
(*                                                                         *)
(* The scheduler is what RequestLifecycle promises of it (Scheduler        *)
(* implements that module); one call of step() is the phases "admit",      *)
(* "forward" and "retire" or "abort" of turn.  Nothing yields: the pool is *)
(* the one KVManager sizes, where no growth fails.  Time is counted in     *)
(* ticks of a clock that runs on between any two steps of the driver.      *)
(***************************************************************************)
EXTENDS Integers, Sequences, FiniteSets

CONSTANTS
  Datasets,          \* sequences of prompts: "fits", or "refused" by add_request
  Durations,         \* lengths of the submission window, 0 for none
  Gaps,              \* intervals between two arrivals
  MaxTime,           \* bound on the clock
  MaxAnswer,         \* bound on the length of an answer
  Warmups,           \* requests of a warm-up round
  WarmupRounds,
  Cap,               \* the most sequences the driver asks for by itself
  Geometries,        \* shapes of a KV pool, see EstimatedBytes
  FreeMemory,        \* free device memory the driver may find
  Reserve            \* memory left to logits, scratch and graphs

ASSUME DriverConstants ==
  /\ Datasets \subseteq Seq({"fits", "refused"})
  /\ Durations \subseteq Nat /\ Gaps \subseteq Nat /\ FreeMemory \subseteq Nat
  /\ MaxTime \in Nat /\ MaxAnswer \in Nat /\ Warmups \in Nat /\ WarmupRounds \in Nat
  /\ Cap \in Nat \ {0} /\ Reserve \in Nat

\* A KV head has a channel at least.
ASSUME GeometriesGiven ==
  \A g \in Geometries :
    /\ {g.layers, g.kv_dim, g.heads, g.block_size, g.max_seq_len, g.group_size} \subseteq Nat \ {0}
    /\ g.quantized \in BOOLEAN
    /\ g.heads <= g.kv_dim

VARIABLES
  driver,            \* which driver: "online", "offline" or "prefix"
  unlimited,         \* all requests arrive when the window opens
  duration,          \* the submission window
  prompts,           \* the dataset
  mode,              \* what the driver does next
  round,             \* warm-up rounds done
  max_batch,         \* sequences the scheduler was built for
  fitted,            \* ghost: that number was fitted to the free memory
  clock,
  start,             \* when the window opened
  next_arrival,      \* when the next prompt arrives, from the window's start
  arrival_open,
  submitted, rejected,
  warm_ids,
  now,               \* the window's time as read at the top of the loop
  next_seq_id,
  arrival,           \* per request, its arrival stamp
  seq_to_index,      \* per request, the position of its prompt (prefix driver)
  completed, dropped,
  gen_tokens,        \* per prompt, the request whose tokens were recorded for it
  turn,              \* where the scheduler is in its step, "idle" between steps
  status, tokens, target,   \* what RequestLifecycle keeps of the requests
  behind             \* per request, its prompt's position, 0 for a warm-up

setting_vars == <<driver, unlimited, duration, prompts, max_batch, fitted>>
window_vars == <<start, now, next_arrival, arrival_open, submitted, rejected>>
ledger_vars == <<completed, dropped, gen_tokens>>
request_vars == <<next_seq_id, arrival, behind, status, tokens, target>>
vars == <<setting_vars, window_vars, ledger_vars, request_vars, mode, round, clock,
          warm_ids, seq_to_index, turn>>

N == Len(prompts)
Handed == submitted + rejected

Lifecycle == INSTANCE RequestLifecycle WITH
  Ids <- Nat, Answers <- 1 .. MaxAnswer, MaxBatch <- Cap, MayAbort <- TRUE

Requests == DOMAIN status
In(standing) == {id \in Requests : status[id] = standing}
Finished == In("done") \cup In("aborted")
AllFinished == Requests = Finished

-----------------------------------------------------------------------------
(* The size of the pool.                                                     *)

CeilDiv(n, d) == (n + d - 1) \div d

ChannelGroup(g) == IF (g.kv_dim \div g.heads) % 8 = 0 THEN 8 ELSE g.kv_dim \div g.heads

\* A bug: the residual window is left out.
NoWindow(g) == 0

\* A sequence's share of the residual window.
ResidualElements(g) == g.layers * g.group_size * g.kv_dim

\* What the driver expects one sequence to take: int4 rows, the scales and
\* zeros of keys and values, and its share of the residual window.
EstimatedBytes(g) ==
  LET blocks == CeilDiv(g.max_seq_len, g.block_size)
      k_elems == g.layers * blocks * g.block_size * g.kv_dim
      k_meta == g.layers * blocks * (g.block_size \div g.group_size)
                  * (g.kv_dim \div ChannelGroup(g))
      v_meta == g.layers * blocks * g.heads * g.block_size
  IN IF g.quantized THEN 2 * (k_elems \div 2) + (k_meta + v_meta) * 4 * 2 + ResidualElements(g) * 2
                    ELSE k_elems * 2 + k_elems * 2

\* What KVManager allocates for a batch.
PoolBytes(g, batch) ==
  LET num_blocks == batch * CeilDiv(g.max_seq_len, g.block_size)
      rows == g.layers * num_blocks * g.block_size
  IN IF g.quantized
     THEN 2 * rows * (g.kv_dim \div 2)
          + 2 * 4 * g.layers * num_blocks * (g.block_size \div g.group_size)
                * (g.kv_dim \div ChannelGroup(g))
          + 2 * 4 * g.layers * num_blocks * g.heads * g.block_size
          + 2 * g.layers * batch * g.group_size * g.kv_dim
     ELSE 2 * 2 * rows * g.kv_dim

Clamped(n) == IF n < 1 THEN 1 ELSE IF n > Cap THEN Cap ELSE n

\* 0 stands for a batch that was not asked for.
AutoBatch(requested, free, g) ==
  LET fit == (free - Reserve) \div EstimatedBytes(g)
  IN IF requested = 0 \/ requested > fit THEN Clamped(fit) ELSE requested

-----------------------------------------------------------------------------
Init ==
  /\ driver \in {"online", "offline", "prefix"}
  /\ unlimited \in BOOLEAN /\ (driver = "online" \/ unlimited)
  /\ duration \in Durations /\ (driver = "online" \/ duration = 0)
  /\ prompts \in Datasets
  /\ mode = "size" /\ turn = "idle"
  /\ round = 0
  /\ max_batch = 0 /\ fitted = FALSE
  /\ clock = 1 /\ start = 0 /\ now = 0 /\ next_arrival = 0 /\ arrival_open = TRUE
  /\ submitted = 0 /\ rejected = 0 /\ completed = 0 /\ dropped = 0
  /\ warm_ids = {}
  /\ next_seq_id = 0
  /\ arrival = <<>> /\ behind = <<>> /\ seq_to_index = <<>>
  /\ gen_tokens = [i \in DOMAIN prompts |-> -1]
  /\ Lifecycle!Init

\* The clock is read only while there are prompts to submit.
Tick ==
  /\ clock < MaxTime
  /\ mode \in {"submit", "loop", "arrive", "step"}
  /\ Handed < N
  /\ clock' = clock + 1
  /\ UNCHANGED <<setting_vars, window_vars, ledger_vars, request_vars, mode, round,
                 warm_ids, seq_to_index, turn>>

\* The pool is reserved as a whole when the scheduler is built, or the
\* process ends.  Only the online driver fits the batch to the memory, and only
\* if the device tells how much is free; otherwise it is the number asked for,
\* which has a default.
BuildScheduler ==
  /\ mode = "size"
  /\ \E g \in Geometries, free \in FreeMemory, requested \in 0 .. Cap, known \in BOOLEAN :
       LET fits == driver = "online" /\ known
           batch == IF fits THEN AutoBatch(requested, free, g) ELSE requested
       IN  /\ batch > 0
           /\ max_batch' = batch
           /\ fitted' = fits
           /\ mode' = IF PoolBytes(g, batch) <= free THEN "warm" ELSE "fatal"
  /\ UNCHANGED <<window_vars, ledger_vars, request_vars, driver, unlimited, duration, prompts,
                 round, clock, warm_ids, seq_to_index, turn>>

\* Scheduler::add_request: an id is used up even for a prompt it refuses.
AddRequest(prompt, position, arrived) ==
  /\ next_seq_id' = next_seq_id + 1
  /\ IF prompt = "refused"
     THEN UNCHANGED <<arrival, behind, status, tokens, target>>
     ELSE /\ \E n \in 1 .. MaxAnswer : Lifecycle!Submit(next_seq_id, n)
          /\ arrival' = Lifecycle!With(arrival, next_seq_id, arrived)
          /\ behind' = Lifecycle!With(behind, next_seq_id, position)

\* One request of a warm-up round; the last one of the round is drained.
WarmUp ==
  /\ mode = "warm"
  /\ AddRequest("fits", 0, clock)
  /\ warm_ids' = warm_ids \cup {next_seq_id}
  /\ mode' = IF Cardinality(warm_ids') = (round + 1) * Warmups THEN "drain" ELSE "warm"
  /\ UNCHANGED <<setting_vars, window_vars, ledger_vars, round, clock, seq_to_index, turn>>

\* The prefix driver fills the cache with one more request that is not
\* counted, unless it is told not to; it goes on cold when that is refused.
Prime ==
  /\ mode = "prime"
  /\ \/ /\ AddRequest("fits", 0, clock)
        /\ warm_ids' = warm_ids \cup {next_seq_id}
        /\ mode' = "drain"
     \/ /\ AddRequest("refused", 0, clock)
        /\ mode' = "open"
        /\ UNCHANGED warm_ids
     \/ /\ mode' = "open"
        /\ UNCHANGED <<request_vars, warm_ids>>
  /\ UNCHANGED <<setting_vars, window_vars, ledger_vars, round, clock, seq_to_index, turn>>

Drained ==
  /\ mode = "drain" /\ turn = "idle" /\ AllFinished
  /\ round' = round + 1
  /\ mode' = CASE round' < WarmupRounds -> "warm"
               [] round' = WarmupRounds /\ driver = "prefix" -> "prime"
               [] OTHER -> "open"
  /\ UNCHANGED <<setting_vars, window_vars, ledger_vars, request_vars, clock, warm_ids,
                 seq_to_index, turn>>

-----------------------------------------------------------------------------
(* The window.                                                               *)

OpenWindow ==
  /\ mode = "open"
  /\ start' = clock
  /\ IF unlimited THEN next_arrival' = 0 ELSE next_arrival' \in Gaps
  /\ mode' = IF unlimited THEN "submit" ELSE "loop"
  /\ UNCHANGED <<setting_vars, ledger_vars, request_vars, round, clock, warm_ids, turn,
                 seq_to_index, now, arrival_open, submitted, rejected>>

\* The next prompt of the dataset, and the count it goes into.
Submit(arrived) ==
  LET position == Handed + 1 IN
  /\ AddRequest(prompts[position], position, arrived)
  /\ IF prompts[position] = "refused"
     THEN rejected' = rejected + 1 /\ UNCHANGED submitted
     ELSE submitted' = submitted + 1 /\ UNCHANGED rejected

\* Where the prefix driver files the result of the prompt it submits.
SubmitIndex == Handed + 1

SubmitAll ==
  /\ mode = "submit"
  /\ IF Handed < N
     THEN /\ Submit(IF driver = "online" THEN start ELSE clock)
          /\ seq_to_index' = IF driver = "prefix" /\ prompts[Handed + 1] = "fits"
                             THEN Lifecycle!With(seq_to_index, next_seq_id, SubmitIndex)
                             ELSE seq_to_index
          /\ UNCHANGED <<mode, start>>
     ELSE /\ mode' = "loop"
          /\ start' = IF driver = "prefix" THEN clock ELSE start
          /\ UNCHANGED <<request_vars, seq_to_index, submitted, rejected>>
  /\ UNCHANGED <<setting_vars, ledger_vars, round, clock, warm_ids, turn, now, next_arrival,
                 arrival_open>>

\* A bug: the loop ends when nothing is in the scheduler.
MoreInScheduler == ~AllFinished

\* A bug: the loop waits for the rest of the dataset after the window closed.
MoreInDataset == ~AllFinished \/ Handed < N

\* The scheduler may be drained long before the last prompt has arrived.
MoreToDo == ~AllFinished \/ (arrival_open /\ Handed < N)

LoopTop ==
  /\ mode = "loop" /\ turn = "idle"
  /\ IF MoreToDo
     THEN IF unlimited
          THEN mode' = "step" /\ UNCHANGED <<now, arrival_open>>
          ELSE /\ mode' = "arrive"
               /\ now' = clock - start
               /\ arrival_open' = (arrival_open /\ ~(duration > 0 /\ clock - start >= duration))
     ELSE mode' = "report" /\ UNCHANGED <<now, arrival_open>>
  /\ UNCHANGED <<setting_vars, ledger_vars, request_vars, round, clock, warm_ids, turn,
                 seq_to_index, start, next_arrival, submitted, rejected>>

Due == arrival_open /\ Handed < N /\ now >= next_arrival

\* A bug: stamps count from the beginning of the process.
UnshiftedArrival == next_arrival

\* The stamp of what is due: the time it was due at.
ScheduledArrival == start + next_arrival

\* What is due is submitted with the time it was due at, and the interval to
\* the next one drawn.
Arrive ==
  /\ mode = "arrive" /\ Due
  /\ Submit(ScheduledArrival)
  /\ \E gap \in Gaps : next_arrival' = next_arrival + gap
  /\ UNCHANGED <<setting_vars, ledger_vars, mode, round, clock, warm_ids, turn, seq_to_index,
                 start, now, arrival_open>>

ArrivalsEnd ==
  /\ mode = "arrive" /\ ~Due
  /\ mode' = "step"
  /\ now' = 0
  /\ UNCHANGED <<setting_vars, ledger_vars, request_vars, round, clock, warm_ids, turn,
                 seq_to_index, start, next_arrival, arrival_open, submitted, rejected>>

CallStep ==
  /\ mode = "step" \/ (mode = "drain" /\ ~AllFinished)
  /\ turn = "idle"
  /\ turn' = "admit"
  /\ mode' = IF mode = "step" THEN "loop" ELSE mode
  /\ UNCHANGED <<setting_vars, window_vars, ledger_vars, request_vars, round, clock, warm_ids,
                 seq_to_index>>

\* Per-request statistics, out of the finished history: the warm-up requests
\* are passed over, a request without a token is dropped (the prefix driver
\* does not count those), any other is a completed one.
Report ==
  /\ mode = "report"
  /\ LET measured == Finished \ warm_ids IN
       /\ completed' = Cardinality({id \in measured : tokens[id] > 0})
       /\ dropped' = IF driver = "prefix" THEN 0 ELSE Cardinality({id \in measured : tokens[id] = 0})
       /\ gen_tokens' = [i \in DOMAIN prompts |->
            IF \E id \in measured \cap DOMAIN seq_to_index : seq_to_index[id] = i
            THEN CHOOSE id \in measured \cap DOMAIN seq_to_index : seq_to_index[id] = i
            ELSE -1]
  /\ mode' = "done"
  /\ UNCHANGED <<setting_vars, window_vars, request_vars, round, clock, warm_ids, turn, seq_to_index>>

-----------------------------------------------------------------------------
(* Scheduler::step, as far as a driver can tell.                             *)

Waits == UNCHANGED <<setting_vars, window_vars, ledger_vars, next_seq_id, arrival, behind, mode,
                     round, clock, warm_ids, seq_to_index>>

HasRoom == In("queued") # {} /\ Cardinality(In("running")) < max_batch

Admit ==
  /\ turn = "admit" /\ HasRoom
  /\ \E id \in In("queued") : Lifecycle!Admit(id)
  /\ UNCHANGED turn
  /\ Waits

AdmissionEnds ==
  /\ turn = "admit" /\ ~HasRoom
  /\ turn' = "forward"
  /\ UNCHANGED <<status, tokens, target>>
  /\ Waits

\* Some rows decode; a step may also do nothing but prefill.
Forward(ids) ==
  /\ turn = "forward"
  /\ IF ids = {} THEN UNCHANGED <<status, tokens, target>> ELSE Lifecycle!Generate(ids)
  /\ turn' = "retire"
  /\ Waits

ForwardFails ==
  /\ turn = "forward" /\ In("running") # {}
  /\ turn' = "abort"
  /\ UNCHANGED <<status, tokens, target>>
  /\ Waits

Ready == {id \in In("running") : tokens[id] = target[id]}

Retire ==
  /\ \/ turn = "retire" /\ \E id \in Ready : Lifecycle!Complete(id)
     \/ turn = "abort" /\ \E id \in In("running") : Lifecycle!Abort(id)
  /\ UNCHANGED turn
  /\ Waits

StepReturns ==
  /\ \/ turn = "retire" /\ Ready = {}
     \/ turn = "abort" /\ In("running") = {}
  /\ turn' = "idle"
  /\ UNCHANGED <<status, tokens, target>>
  /\ Waits

-----------------------------------------------------------------------------
Step ==
  \/ Admit \/ AdmissionEnds
  \/ \E ids \in SUBSET In("running") : Forward(ids)
  \/ ForwardFails \/ Retire \/ StepReturns

Drive ==
  \/ BuildScheduler \/ WarmUp \/ Prime \/ Drained
  \/ OpenWindow \/ SubmitAll \/ LoopTop \/ Arrive \/ ArrivalsEnd \/ CallStep \/ Report

Next == Tick \/ Drive \/ Step

\* Time passes, the driver's thread runs, and the scheduler, which promises
\* that every request ends, does not leave the running ones without a token
\* for ever.
Fairness ==
  /\ WF_vars(Tick)
  /\ WF_vars(Drive \/ Step)
  /\ SF_vars(\E ids \in SUBSET In("running") : ids # {} /\ Forward(ids))

Spec == Init /\ [][Next]_vars /\ Fairness

-----------------------------------------------------------------------------
Measured == Requests \ warm_ids

\* The tokens the prefix driver compares between its two rounds under a
\* position of the dataset were generated for the prompt at that position.
ResultsAligned ==
    \A i \in DOMAIN prompts :
      IF prompts[i] = "fits" THEN gen_tokens[i] \in Requests /\ behind[gen_tokens[i]] = i
                             ELSE gen_tokens[i] = -1

\* The driver's numbers are about the requests of its window and all of them:
\* every prompt of the dataset was handed in once, unless the window closed
\* before, every accepted one has ended, and each is in exactly one count, or,
\* for the prefix driver, filed under its own position.
LedgerOfWindow ==
  mode = "done" =>
    /\ Handed = N \/ ~arrival_open
    /\ rejected = Cardinality({i \in 1 .. Handed : prompts[i] = "refused"})
    /\ {behind[id] : id \in Measured} = {i \in 1 .. Handed : prompts[i] = "fits"}
    /\ Cardinality(Measured) = submitted
    /\ IF driver = "prefix" THEN ResultsAligned ELSE completed + dropped = submitted

\* What a report or a test prints of the ledger: submitted = completed +
\* rejected + dropped.
LedgerCloses ==
  mode = "done" /\ driver # "prefix" => submitted = completed + rejected + dropped

\* The stamp a latency is measured from is in the window and never in the
\* future, and stamps are in the order of the dataset.
ArrivalsCausal ==
  driver # "prefix" =>
    /\ \A id \in Measured : start <= arrival[id] /\ arrival[id] <= clock
    /\ \A id, other \in Measured : behind[id] < behind[other] => arrival[id] <= arrival[other]

\* A batch the online driver fitted to the memory it found is one KVManager
\* can allocate a pool for, unless not even one sequence fits.
FittedPoolFits == mode = "fatal" /\ fitted => max_batch = 1

\* A driver whose pool could be built reports in the end, also when its
\* scheduler ran empty between two arrivals or a forward pass failed.
RunEnds == <>(mode \in {"done", "fatal"})

=============================================================================
