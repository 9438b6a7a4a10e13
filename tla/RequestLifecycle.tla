--------------------------- MODULE RequestLifecycle ---------------------------
(***************************************************************************)
(* What the scheduler promises the driver about a request, whatever it     *)
(* does about blocks, batches and phases.  Requests are first admitted in  *)
(* the order they were accepted; one that had to yield goes back to work   *)
(* before any new one starts; and one that is done has exactly the tokens  *)
(* it was going to have, no matter how often it was set back.              *)
(*                                                                         *)
(* Scheduler implements this module (its property Lifecycle).              *)
(***************************************************************************)
EXTENDS Integers, FiniteSets

CONSTANTS
  Ids,        \* identities of requests, in the order they are submitted
  Answers,    \* lengths of full answers
  MaxBatch,   \* sequences in service at once
  MayAbort    \* requests may be ended before they are done

VARIABLES
  status,     \* per accepted request, where it stands
  tokens,     \* per accepted request, tokens generated and not discarded
  target      \* per accepted request, the tokens a full answer has

vars == <<status, tokens, target>>

Accepted == DOMAIN status
Are(standing) == {id \in Accepted : status[id] = standing}

Init ==
  /\ status = [id \in {} |-> "queued"]
  /\ tokens = [id \in {} |-> 0]
  /\ target = [id \in {} |-> 0]

\* A function with one more argument.
With(f, id, value) == [i \in DOMAIN f \cup {id} |-> IF i = id THEN value ELSE f[i]]

Submit(id, n) ==
  /\ \A other \in Accepted : other < id
  /\ status' = With(status, id, "queued")
  /\ tokens' = With(tokens, id, 0)
  /\ target' = With(target, id, n)

Moves(id, standing) ==
  /\ status' = [status EXCEPT ![id] = standing]
  /\ UNCHANGED target

Admit(id) ==
  /\ id \in Are("queued")
  /\ \A other \in Are("queued") : id <= other
  /\ Are("yielded") = {}
  /\ Cardinality(Are("running")) < MaxBatch
  /\ Moves(id, "running")
  /\ UNCHANGED tokens

Resume(id) ==
  /\ id \in Are("yielded")
  /\ Cardinality(Are("running")) < MaxBatch
  /\ Moves(id, "running")
  /\ UNCHANGED tokens

\* One step of the batch: some of the running requests get their next token.
Generate(ids) ==
  /\ ids # {}
  /\ \A id \in ids : tokens[id] < target[id]
  /\ tokens' = [id \in Accepted |-> tokens[id] + (IF id \in ids THEN 1 ELSE 0)]
  /\ UNCHANGED <<status, target>>

Yield(id, n) ==
  /\ id \in Are("running")
  /\ n <= tokens[id]
  /\ Moves(id, "yielded")
  /\ tokens' = [tokens EXCEPT ![id] = n]

Complete(id) ==
  /\ id \in Are("running")
  /\ tokens[id] = target[id]
  /\ Moves(id, "done")
  /\ UNCHANGED tokens

Abort(id) ==
  /\ MayAbort
  /\ id \in Are("running") \cup Are("yielded")
  /\ tokens[id] < target[id]
  /\ Moves(id, "aborted")
  /\ UNCHANGED tokens

Next ==
  \/ \E id \in Ids, n \in Answers : Submit(id, n)
  \/ \E ids \in SUBSET Are("running") : Generate(ids)
  \/ \E id \in Accepted :
       \/ Admit(id)
       \/ Resume(id)
       \/ \E n \in {0} \cup Answers : Yield(id, n)
       \/ Complete(id)
       \/ Abort(id)

Spec == Init /\ [][Next]_vars

=============================================================================
