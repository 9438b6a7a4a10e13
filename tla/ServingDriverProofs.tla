-------------------------- MODULE ServingDriverProofs --------------------------
(***************************************************************************)
(* What the drivers report is about the requests of their window, for      *)
(* every dataset, window, arrival process, warm-up and pool.               *)
(***************************************************************************)
EXTENDS ServingDriver, FiniteSetTheorems, TLAPS

-------------------------------------------------------------------------------
(* The inductive invariant.                                                  *)

\* Positions of the dataset, up to n, whose prompts add_request takes or refuses.
Taken(n) == {i \in 1 .. n : prompts[i] = "fits"}
Refused(n) == {i \in 1 .. n : prompts[i] = "refused"}

\* What a driver is run with.
Settings ==
  /\ driver \in {"online", "offline", "prefix"}
  /\ unlimited \in BOOLEAN /\ (driver = "online" \/ unlimited)
  /\ prompts \in Datasets

\* The requests there are, and what is kept of each.
Register ==
  /\ next_seq_id \in Nat
  /\ \A id \in Requests \cup warm_ids : id \in Nat /\ id < next_seq_id
  /\ IsFiniteSet(Requests)
  /\ DOMAIN tokens = Requests /\ DOMAIN arrival = Requests /\ DOMAIN behind = Requests
  /\ \A id \in Requests : tokens[id] \in Nat

\* The counts of what was handed in.
Books ==
  /\ submitted \in Nat /\ rejected \in Nat /\ Handed <= N
  /\ rejected = Cardinality(Refused(Handed))
  /\ {behind[id] : id \in Measured} = Taken(Handed)
  /\ submitted = Cardinality(Measured)

\* The modes before the first prompt of the dataset is handed in.
Early == {"size", "warm", "prime", "drain", "open", "fatal"}

\* Where a driver is.
Course ==
  /\ mode \in Early => Handed = 0 /\ Measured = {} /\ DOMAIN seq_to_index = {}
  /\ turn # "idle" => mode \in {"loop", "drain"}
  /\ mode = "arrive" => ~unlimited
  /\ mode = "submit" => unlimited
  /\ unlimited => arrival_open
  /\ mode \in {"report", "done"} => AllFinished /\ ~(arrival_open /\ Handed < N)
  /\ driver = "prefix" => /\ DOMAIN seq_to_index = Measured
                          /\ \A id \in Measured : seq_to_index[id] = behind[id]

\* The driver's times.
Times ==
  /\ clock \in Nat /\ start \in Nat /\ now \in Nat /\ next_arrival \in Nat
  /\ start <= clock
  /\ mode = "arrive" => start + now <= clock

\* Stamps: the next one is no earlier than any so far.
Stamps ==
  driver # "prefix" =>
    /\ \A id \in Measured :
         /\ arrival[id] \in Nat /\ start <= arrival[id] /\ arrival[id] <= clock
         /\ unlimited /\ driver = "online" => arrival[id] = start
         /\ ~unlimited => arrival[id] <= start + next_arrival
    /\ \A id, other \in Measured : behind[id] < behind[other] => arrival[id] <= arrival[other]

\* What a report says.
Reported ==
  mode = "done" => IF driver = "prefix" THEN ResultsAligned ELSE completed + dropped = submitted

IInv ==
  /\ Settings /\ Register /\ Books /\ Course /\ Times /\ Stamps /\ Reported /\ FittedPoolFits

-------------------------------------------------------------------------------
(* The size of the pool.                                                     *)

\* Products grow with their factors.
LEMMA Multiples ==
  ASSUME NEW m \in Int, NEW n \in Int, NEW d \in Nat, m <= n
  PROVE  d * m <= d * n
OBVIOUS

\* Half of a product is no less than the product with a half.
LEMMA Halves ==
  ASSUME NEW r \in Nat, NEW k \in Nat
  PROVE  /\ k \div 2 \in Nat /\ (r * k) \div 2 \in Nat
         /\ r * (k \div 2) <= (r * k) \div 2
<1>1. PICK h \in Nat : h = k \div 2 /\ 2 * h <= k
  OBVIOUS
<1>2. r * (2 * h) <= r * k
  BY <1>1, Multiples
<1>3. PICK p, q \in Nat : p = r * k /\ q = r * h
  BY <1>1
<1>4. 2 * q <= p
  BY <1>1, <1>2, <1>3
<1>5. q <= p \div 2 /\ p \div 2 \in Nat
  BY <1>3, <1>4
<1> QED
  BY <1>1, <1>3, <1>5

\* The shape of a pool, in numbers.
LEMMA Shape ==
  ASSUME NEW g \in Geometries
  PROVE  /\ g.layers \in Nat \ {0} /\ g.kv_dim \in Nat \ {0} /\ g.heads \in Nat \ {0}
         /\ g.block_size \in Nat \ {0} /\ g.group_size \in Nat \ {0}
         /\ CeilDiv(g.max_seq_len, g.block_size) \in Nat \ {0}
         /\ g.block_size \div g.group_size \in Nat /\ g.kv_dim \div ChannelGroup(g) \in Nat
         /\ g.quantized \in BOOLEAN
<1>1. /\ g.layers \in Nat \ {0} /\ g.kv_dim \in Nat \ {0} /\ g.heads \in Nat \ {0}
      /\ g.block_size \in Nat \ {0} /\ g.group_size \in Nat \ {0} /\ g.max_seq_len \in Nat \ {0}
      /\ g.heads <= g.kv_dim /\ g.quantized \in BOOLEAN
  BY GeometriesGiven
<1>2. PICK n, d, h, k, s \in Nat \ {0} :
        n = g.max_seq_len /\ d = g.block_size /\ h = g.heads /\ k = g.kv_dim /\ s = g.group_size
  BY <1>1
<1>3. h <= k
  BY <1>1, <1>2
<1>4. CeilDiv(n, d) \in Nat \ {0}
  <2>1. d <= n + d - 1 /\ n + d - 1 \in Nat
    OBVIOUS
  <2>2. (n + d - 1) \div d \in Nat \ {0}
    BY <2>1
  <2> QED
    BY <2>2 DEF CeilDiv
<1>5. k \div h \in Nat \ {0}
  BY <1>3
<1>6. ChannelGroup(g) \in Nat \ {0}
  BY <1>2, <1>5 DEF ChannelGroup
<1>7. k \div ChannelGroup(g) \in Nat
  <2>1. PICK c \in Nat \ {0} : c = ChannelGroup(g)
    BY <1>6
  <2> QED
    BY <2>1
<1>8. d \div s \in Nat
  OBVIOUS
<1> QED
  BY <1>1, <1>2, <1>4, <1>7, <1>8

\* The driver's estimate covers what KVManager allocates.
LEMMA EstimateCovers ==
  ASSUME NEW g \in Geometries, NEW batch \in Nat
  PROVE  /\ EstimatedBytes(g) \in Nat \ {0} /\ PoolBytes(g, batch) \in Nat
         /\ PoolBytes(g, batch) <= batch * EstimatedBytes(g)
<1>1. PICK L, K, H, B, G, C \in Nat \ {0} :
        /\ L = g.layers /\ K = g.kv_dim /\ H = g.heads /\ B = g.block_size /\ G = g.group_size
        /\ C = CeilDiv(g.max_seq_len, g.block_size)
  BY Shape
<1>2. PICK q, c \in Nat : q = g.block_size \div g.group_size /\ c = g.kv_dim \div ChannelGroup(g)
  BY Shape
<1>3. PICK r \in Nat \ {0} : r = L * C * B
  OBVIOUS
<1>4. L * (batch * C) * B = batch * r
  BY <1>3
<1>5. CASE ~g.quantized
  <2>1. EstimatedBytes(g) = r * K * 2 + r * K * 2
    BY <1>1, <1>3, <1>5 DEF EstimatedBytes
  <2>2. PoolBytes(g, batch) = 2 * 2 * (batch * r) * K
    BY <1>1, <1>4, <1>5 DEF PoolBytes
  <2>3. PICK e \in Nat \ {0} : e = r * K
    OBVIOUS
  <2>4. EstimatedBytes(g) = 4 * e /\ PoolBytes(g, batch) = 4 * (batch * e)
    BY <2>1, <2>2, <2>3
  <2> QED
    BY <2>3, <2>4
<1>6. CASE g.quantized
  <2>1. PICK half, whole \in Nat : half = K \div 2 /\ whole = (r * K) \div 2 /\ r * half <= whole
    BY Halves
  <2>2. PICK m, v \in Nat, w \in Nat \ {0} : m = L * C * q * c /\ v = L * C * H * B /\ w = L * G * K
    BY <1>2
  <2>3. EstimatedBytes(g) = 2 * whole + (m + v) * 4 * 2 + w * 2
    BY <1>1, <1>2, <1>3, <1>6, <2>1, <2>2 DEF EstimatedBytes, ResidualElements
  <2>4. PoolBytes(g, batch) = 2 * (batch * r) * half + 2 * 4 * L * (batch * C) * q * c
                              + 2 * 4 * L * (batch * C) * H * B + 2 * L * batch * G * K
    BY <1>1, <1>2, <1>4, <1>6, <2>1 DEF PoolBytes
  <2>5. /\ 2 * 4 * L * (batch * C) * q * c = 8 * (batch * m)
        /\ 2 * 4 * L * (batch * C) * H * B = 8 * (batch * v)
        /\ 2 * L * batch * G * K = 2 * (batch * w)
        /\ 2 * (batch * r) * half = 2 * (batch * (r * half))
    BY <1>2, <2>1, <2>2
  <2>6. batch * (r * half) <= batch * whole
    BY <2>1, Multiples
  <2>7. PICK kept, rows, ms, vs, ws \in Nat :
          /\ kept = batch * (r * half) /\ rows = batch * whole
          /\ ms = batch * m /\ vs = batch * v /\ ws = batch * w
    BY <2>1, <2>2
  <2>8. PoolBytes(g, batch) = 2 * kept + 8 * ms + 8 * vs + 2 * ws
    BY <2>4, <2>5, <2>7
  <2>9. batch * EstimatedBytes(g) = 2 * rows + 8 * ms + 8 * vs + 2 * ws
    BY <2>1, <2>2, <2>3, <2>7
  <2>10. EstimatedBytes(g) \in Nat \ {0}
    BY <2>1, <2>2, <2>3
  <2> QED
    BY <2>6, <2>7, <2>8, <2>9, <2>10
<1> QED
  BY <1>5, <1>6, Shape

\* A batch that was fitted to the memory has a pool that fits it, or is 1.
LEMMA FittedBatch ==
  ASSUME NEW g \in Geometries, NEW free \in FreeMemory, NEW requested \in 0 .. Cap
  PROVE  LET batch == AutoBatch(requested, free, g)
         IN  batch = 1 \/ PoolBytes(g, batch) <= free
<1>1. PICK e \in Nat \ {0} : e = EstimatedBytes(g)
  BY EstimateCovers
<1>2. free \in Nat /\ Reserve \in Nat /\ Cap \in Nat \ {0}
  BY DriverConstants
<1>3. PICK room \in Int, fit \in Int : room = free - Reserve /\ fit = room \div e /\ e * fit <= room
  BY <1>2
<1>4. PICK batch : batch = AutoBatch(requested, free, g)
  OBVIOUS
<1>5. batch = IF requested = 0 \/ requested > fit
                THEN IF fit < 1 THEN 1 ELSE IF fit > Cap THEN Cap ELSE fit
                ELSE requested
  BY <1>1, <1>3, <1>4 DEF AutoBatch, Clamped
<1>6. batch = 1 \/ (batch \in Nat /\ batch <= fit)
  BY <1>2, <1>3, <1>5
<1>7. ASSUME batch \in Nat, batch <= fit PROVE PoolBytes(g, batch) <= free
  <2>1. e * batch <= e * fit
    BY <1>3, <1>7, Multiples
  <2>2. PICK need \in Nat : need = PoolBytes(g, batch) /\ need <= batch * e
    BY <1>1, <1>7, EstimateCovers
  <2>3. batch * e = e * batch
    BY <1>7
  <2>4. PICK x, y \in Int : x = e * batch /\ y = e * fit
    BY <1>3, <1>7
  <2>5. need <= x /\ x <= y /\ y <= room
    BY <1>3, <2>1, <2>2, <2>3, <2>4
  <2> QED
    BY <1>2, <1>3, <2>2, <2>5
<1> QED
  BY <1>4, <1>6, <1>7

-------------------------------------------------------------------------------
(* Requests.                                                                 *)

\* What add_request does: an id is used up, and a prompt it takes is a request.
LEMMA AddFacts ==
  ASSUME Register, NEW prompt, NEW position, NEW arrived, AddRequest(prompt, position, arrived)
  PROVE  LET new == next_seq_id
         IN  /\ next_seq_id' = new + 1 /\ new \notin Requests \cup warm_ids
             /\ prompt = "refused" =>
                  /\ Requests' = Requests /\ tokens' = tokens
                  /\ arrival' = arrival /\ behind' = behind /\ status' = status
             /\ prompt # "refused" =>
                  /\ Requests' = Requests \cup {new} /\ DOMAIN tokens' = Requests \cup {new}
                  /\ DOMAIN arrival' = Requests \cup {new} /\ DOMAIN behind' = Requests \cup {new}
                  /\ tokens'[new] = 0 /\ arrival'[new] = arrived /\ behind'[new] = position
                  /\ \A id \in Requests : /\ tokens'[id] = tokens[id] /\ arrival'[id] = arrival[id]
                                          /\ behind'[id] = behind[id]
<1>1. PICK new : new = next_seq_id
  OBVIOUS
<1>2. next_seq_id' = new + 1 /\ new \notin Requests \cup warm_ids
  BY <1>1 DEF AddRequest, Register
<1>3. CASE prompt = "refused"
  BY <1>1, <1>2, <1>3 DEF AddRequest, Requests
<1>4. CASE prompt # "refused"
  <2>1. \E n \in 1 .. MaxAnswer : Lifecycle!Submit(new, n)
    BY <1>1, <1>4 DEF AddRequest
  <2>2. /\ status' = Lifecycle!With(status, new, "queued")
        /\ tokens' = Lifecycle!With(tokens, new, 0)
    BY <2>1 DEF Lifecycle!Submit
  <2>3. /\ arrival' = Lifecycle!With(arrival, new, arrived)
        /\ behind' = Lifecycle!With(behind, new, position)
    BY <1>1, <1>4 DEF AddRequest
  <2>4. /\ DOMAIN status = Requests /\ DOMAIN tokens = Requests
        /\ DOMAIN arrival = Requests /\ DOMAIN behind = Requests
    BY DEF Register, Requests
  <2>5. \A f, v : LET g == Lifecycle!With(f, new, v)
                  IN  /\ DOMAIN g = DOMAIN f \cup {new} /\ g[new] = v
                      /\ \A id \in DOMAIN f : id # new => g[id] = f[id]
    BY DEF Lifecycle!With
  <2>6. \A id \in Requests : id # new
    BY <1>2
  <2>7. /\ DOMAIN status' = Requests \cup {new} /\ DOMAIN tokens' = Requests \cup {new}
        /\ DOMAIN arrival' = Requests \cup {new} /\ DOMAIN behind' = Requests \cup {new}
    BY <2>2, <2>3, <2>4, <2>5
  <2>8. tokens'[new] = 0 /\ arrival'[new] = arrived /\ behind'[new] = position
    BY <2>2, <2>3, <2>5
  <2>9. \A id \in Requests : /\ tokens'[id] = tokens[id] /\ arrival'[id] = arrival[id]
                             /\ behind'[id] = behind[id]
    BY <2>2, <2>3, <2>4, <2>5, <2>6
  <2> QED
    BY <1>1, <1>2, <1>4, <2>7, <2>8, <2>9 DEF Requests
<1> QED
  BY <1>3, <1>4

\* The register goes on, and a request that joins the warm-up is not measured.
LEMMA RegisterGrows ==
  ASSUME Register, NEW prompt, NEW position, NEW arrived, AddRequest(prompt, position, arrived)
  PROVE  /\ warm_ids' \subseteq warm_ids \cup {next_seq_id} => Register'
         /\ warm_ids' = warm_ids \cup {next_seq_id} => Measured' = Measured
         /\ warm_ids' = warm_ids =>
              Measured' = IF prompt = "refused" THEN Measured ELSE Measured \cup {next_seq_id}
<1>1. PICK new : new = next_seq_id
  OBVIOUS
<1>2. /\ next_seq_id' = new + 1 /\ new \notin Requests \cup warm_ids /\ new \in Nat
      /\ \A id \in Requests \cup warm_ids : id \in Nat /\ id < new
  BY <1>1, AddFacts DEF Register
<1>3. CASE prompt = "refused"
  <2>1. Requests' = Requests /\ tokens' = tokens /\ arrival' = arrival /\ behind' = behind
    BY <1>3, AddFacts
  <2>2. warm_ids' \subseteq warm_ids \cup {new} => Register'
    BY <1>2, <2>1 DEF Register
  <2>3. warm_ids' = warm_ids \cup {new} => Measured' = Measured
    BY <1>2, <2>1 DEF Measured
  <2> QED
    BY <1>1, <1>3, <2>1, <2>2, <2>3 DEF Measured
<1>4. CASE prompt # "refused"
  <2>1. /\ Requests' = Requests \cup {new} /\ DOMAIN tokens' = Requests \cup {new}
        /\ DOMAIN arrival' = Requests \cup {new} /\ DOMAIN behind' = Requests \cup {new}
        /\ tokens'[new] = 0 /\ \A id \in Requests : tokens'[id] = tokens[id]
    <3>1. /\ Requests' = Requests \cup {new} /\ DOMAIN tokens' = Requests \cup {new}
          /\ tokens'[new] = 0
      BY <1>1, <1>4, AddFacts
    <3>2. DOMAIN arrival' = Requests \cup {new}
      BY <1>1, <1>4, AddFacts
    <3>4. DOMAIN behind' = Requests \cup {new}
      BY <1>1, <1>4, AddFacts
    <3>3. ASSUME NEW id \in Requests PROVE tokens'[id] = tokens[id]
      BY <1>4, AddFacts
    <3> QED
      BY <3>1, <3>2, <3>3, <3>4
  <2>2. IsFiniteSet(Requests')
    BY <2>1, FS_AddElement DEF Register
  <2>3. warm_ids' \subseteq warm_ids \cup {new} => Register'
    BY <1>2, <2>1, <2>2 DEF Register
  <2>4. warm_ids' = warm_ids \cup {new} => Measured' = Measured
    BY <1>2, <2>1 DEF Measured
  <2>5. warm_ids' = warm_ids => Measured' = Measured \cup {new}
    BY <1>2, <2>1 DEF Measured
  <2> QED
    BY <1>1, <1>4, <2>3, <2>4, <2>5
<1> QED
  BY <1>3, <1>4

\* Prompts are taken or refused.
LEMMA PromptKinds ==
  ASSUME Settings
  PROVE  /\ N \in Nat /\ \A i \in 1 .. N : prompts[i] \in {"fits", "refused"}
         /\ DOMAIN prompts = 1 .. N
<1>1. PICK list : list = prompts
  OBVIOUS
<1>2. list \in Seq({"fits", "refused"})
  BY <1>1, DriverConstants DEF Settings
<1> QED
  BY <1>1, <1>2 DEF N

\* The counts go with what was handed in.
LEMMA BooksStay ==
  ASSUME Books, prompts' = prompts, submitted' = submitted, rejected' = rejected,
         Measured' = Measured, \A id \in Measured : behind'[id] = behind[id]
  PROVE  Books' /\ Handed' = Handed /\ N' = N
<1>1. Handed' = Handed /\ N' = N
  BY DEF Handed, N
<1>2. Refused(Handed)' = Refused(Handed) /\ Taken(Handed)' = Taken(Handed)
  BY <1>1 DEF Refused, Taken
<1>3. {behind'[id] : id \in Measured'} = {behind[id] : id \in Measured}
  OBVIOUS
<1> QED
  BY <1>1, <1>2, <1>3 DEF Books

\* A prompt that is handed in goes into one of the counts.
LEMMA SubmitBooks ==
  ASSUME Settings, Register, Books, NEW arrived, Submit(arrived), Handed < N,
         warm_ids' = warm_ids, prompts' = prompts
  PROVE  /\ Register' /\ Books' /\ Handed' = Handed + 1 /\ N' = N
         /\ prompts[Handed + 1] \in {"fits", "refused"}
<1>1. PICK n, new : n = Handed /\ new = next_seq_id
  OBVIOUS
<1>2. PICK p : p = prompts[n + 1] /\ p \in {"fits", "refused"}
  <2>1. n + 1 \in 1 .. N
    BY <1>1, PromptKinds DEF Books, Handed
  <2> QED
    BY <2>1, PromptKinds
<1>3. /\ n \in Nat /\ N \in Nat /\ n < N /\ submitted \in Nat /\ rejected \in Nat
      /\ n = submitted + rejected
  BY <1>1, PromptKinds DEF Books, Handed
<1>4. AddRequest(p, n + 1, arrived)
  BY <1>1, <1>2 DEF Submit
<1>5. Register'
  BY <1>4, RegisterGrows
<1>6. /\ Measured' = IF p = "refused" THEN Measured ELSE Measured \cup {new}
      /\ new \notin Measured
  BY <1>1, <1>4, RegisterGrows, AddFacts DEF Measured
<1>7. IsFiniteSet(Measured)
  <2>1. Measured \in SUBSET Requests
    BY DEF Measured
  <2> QED
    BY <2>1, FS_Subset DEF Register
<1>8. IsFiniteSet(Refused(n))
  <2>1. IsFiniteSet(1 .. n) /\ Refused(n) \subseteq 1 .. n
    BY <1>3, FS_Interval DEF Refused
  <2> QED
    BY <2>1, FS_Subset
<1>9. 1 .. n + 1 = (1 .. n) \cup {n + 1} /\ n + 1 \notin 1 .. n
  BY <1>3
<1>10. N' = N
  BY DEF N
<1>11. CASE p = "refused"
  <2>1. submitted' = submitted /\ rejected' = rejected + 1 /\ Handed' = n + 1
    BY <1>1, <1>2, <1>3, <1>11 DEF Submit, Handed
  <2>2. Refused(Handed)' = Refused(n) \cup {n + 1} /\ Taken(Handed)' = Taken(n)
    BY <1>2, <1>9, <1>11, <2>1 DEF Refused, Taken
  <2>3. Cardinality(Refused(n) \cup {n + 1}) = Cardinality(Refused(n)) + 1
    BY <1>8, <1>9, FS_AddElement DEF Refused
  <2>4. Measured' = Measured /\ behind' = behind
    BY <1>4, <1>6, <1>11, AddFacts
  <2>5. {behind'[id] : id \in Measured'} = {behind[id] : id \in Measured}
    BY <2>4
  <2>6. rejected' = Cardinality(Refused(Handed)')
    BY <1>1, <2>1, <2>2, <2>3 DEF Books
  <2>7. {behind'[id] : id \in Measured'} = Taken(Handed)'
    BY <1>1, <2>2, <2>5 DEF Books
  <2>8. submitted' = Cardinality(Measured')
    BY <2>1, <2>4 DEF Books
  <2>9. submitted' \in Nat /\ rejected' \in Nat /\ Handed' <= N'
    BY <1>3, <1>10, <2>1
  <2>10. Books'
    BY <2>6, <2>7, <2>8, <2>9 DEF Books
  <2> QED
    BY <1>1, <1>2, <1>5, <1>10, <2>1, <2>10
<1>12. CASE p = "fits"
  <2>1. submitted' = submitted + 1 /\ rejected' = rejected /\ Handed' = n + 1
    BY <1>1, <1>2, <1>3, <1>12 DEF Submit, Handed
  <2>2. Refused(Handed)' = Refused(n) /\ Taken(Handed)' = Taken(n) \cup {n + 1}
    BY <1>2, <1>9, <1>12, <2>1 DEF Refused, Taken
  <2>3. Measured' = Measured \cup {new} /\ Cardinality(Measured') = Cardinality(Measured) + 1
    BY <1>6, <1>7, <1>12, FS_AddElement
  <2>4. behind'[new] = n + 1 /\ \A id \in Measured : behind'[id] = behind[id]
    BY <1>1, <1>4, <1>12, AddFacts DEF Measured
  <2>5. {behind'[id] : id \in Measured'} = {behind[id] : id \in Measured} \cup {n + 1}
    BY <2>3, <2>4
  <2>6. {behind'[id] : id \in Measured'} = Taken(Handed)'
    BY <1>1, <2>2, <2>5 DEF Books
  <2>7. submitted' = Cardinality(Measured')
    BY <2>1, <2>3 DEF Books
  <2>8. rejected' = Cardinality(Refused(Handed)')
    BY <1>1, <2>1, <2>2 DEF Books
  <2>9. submitted' \in Nat /\ rejected' \in Nat /\ Handed' <= N'
    BY <1>3, <1>10, <2>1
  <2>10. Books'
    BY <2>6, <2>7, <2>8, <2>9 DEF Books
  <2> QED
    BY <1>1, <1>2, <1>5, <1>10, <2>1, <2>10
<1> QED
  BY <1>2, <1>11, <1>12

-------------------------------------------------------------------------------
(* What a step leaves alone.                                                 *)

\* No request comes or goes, though one may change where it stands.
Quiet ==
  /\ UNCHANGED <<driver, unlimited, prompts, next_seq_id, arrival, behind, submitted, rejected,
                 warm_ids>>
  /\ Requests' = Requests /\ DOMAIN tokens' = Requests
  /\ \A id \in Requests : tokens'[id] \in Nat

\* The step of a driver is quiet when it touches none of this.
LEMMA Untouched ==
  ASSUME Register,
         UNCHANGED <<driver, unlimited, prompts, submitted, rejected, warm_ids, request_vars>>
  PROVE  Quiet
BY DEF Quiet, Register, Requests, request_vars

\* A quiet step keeps the counts and the register.
LEMMA QuietStep ==
  ASSUME Settings, Register, Books, Quiet
  PROVE  /\ Settings' /\ Register' /\ Books'
         /\ Measured' = Measured /\ Handed' = Handed /\ N' = N
<1>1. Measured' = Measured
  BY DEF Measured, Quiet
<1>2. /\ prompts' = prompts /\ submitted' = submitted /\ rejected' = rejected /\ behind' = behind
      /\ driver' = driver /\ unlimited' = unlimited
  BY DEF Quiet
<1>3. Books' /\ Handed' = Handed /\ N' = N
  BY <1>1, <1>2, BooksStay
<1>4. Settings'
  BY <1>2 DEF Settings
<1>5. Register'
  BY DEF Register, Quiet
<1> QED
  BY <1>1, <1>3, <1>4, <1>5

\* Stamps stay in their window as the clock goes on, or there are none.
LEMMA StampsStay ==
  ASSUME Stamps, Times, Quiet, clock' \in Nat, clock <= clock',
         next_arrival' \in Nat,
         \/ Measured = {}
         \/ driver = "prefix"
         \/ start' = start /\ next_arrival' = next_arrival
  PROVE  Stamps'
<1>1. Measured' = Measured /\ driver' = driver /\ unlimited' = unlimited
      /\ arrival' = arrival /\ behind' = behind
  BY DEF Measured, Quiet
<1>2. CASE Measured = {} \/ driver = "prefix"
  BY <1>1, <1>2 DEF Stamps
<1>3. CASE driver # "prefix" /\ start' = start /\ next_arrival' = next_arrival
  <2>1. \A id \in Measured : arrival[id] \in Nat /\ arrival[id] <= clock'
    BY <1>3 DEF Stamps, Times
  <2> QED
    BY <1>1, <1>3, <2>1 DEF Stamps
<1> QED
  BY <1>2, <1>3

\* What Course says of the requests outlives a quiet step.
LEMMA CourseKept ==
  ASSUME Settings, Register, Books, Course, Quiet, seq_to_index' = seq_to_index
  PROVE  /\ mode \in Early => Handed' = 0 /\ Measured' = {} /\ DOMAIN seq_to_index' = {}
         /\ driver' = "prefix" => /\ DOMAIN seq_to_index' = Measured'
                                  /\ \A id \in Measured' : seq_to_index'[id] = behind'[id]
<1>1. Measured' = Measured /\ Handed' = Handed
  BY QuietStep
<1>2. driver' = driver /\ behind' = behind
  BY DEF Quiet
<1> QED
  BY <1>1, <1>2 DEF Course

-------------------------------------------------------------------------------
(* The steps of a driver.                                                    *)

\* Time passes while there are prompts to submit.
LEMMA TickStep ==
  ASSUME IInv, Tick
  PROVE  IInv'
<1>1. /\ UNCHANGED <<driver, unlimited, prompts, submitted, rejected, warm_ids, request_vars>>
      /\ UNCHANGED <<mode, turn, start, now, next_arrival, arrival_open, seq_to_index, max_batch, fitted>>
      /\ mode \in {"submit", "loop", "arrive", "step"} /\ clock' = clock + 1 /\ Handed < N
  BY DEF Tick, setting_vars, window_vars
<1>2. Settings /\ Register /\ Books /\ Course /\ Times /\ Stamps
  BY DEF IInv
<1>3. Quiet
  BY <1>1, <1>2, Untouched
<1>4. Settings' /\ Register' /\ Books' /\ Handed' = Handed /\ N' = N
  BY <1>2, <1>3, QuietStep
<1>5. Times'
  BY <1>1, <1>2 DEF Times
<1>6. Stamps'
  BY <1>1, <1>2, <1>3, <1>5, StampsStay DEF Times
<1>7. Course'
  BY <1>1, <1>2, <1>3, <1>4, CourseKept DEF Course, Early, Quiet
<1>8. Reported' /\ FittedPoolFits'
  BY <1>1 DEF Reported, FittedPoolFits
<1> QED
  BY <1>4, <1>5, <1>6, <1>7, <1>8 DEF IInv

\* A scheduler is built, with a pool that fits or none.
LEMMA BuildStep ==
  ASSUME IInv, BuildScheduler
  PROVE  IInv'
<1>1. /\ UNCHANGED <<driver, unlimited, prompts, submitted, rejected, warm_ids, request_vars>>
      /\ UNCHANGED <<turn, start, now, next_arrival, arrival_open, seq_to_index, clock>>
      /\ mode = "size" /\ mode' \in {"warm", "fatal"}
  BY DEF BuildScheduler, window_vars
<1>2. Settings /\ Register /\ Books /\ Course /\ Times /\ Stamps
  BY DEF IInv
<1>3. Quiet
  BY <1>1, <1>2, Untouched
<1>4. Settings' /\ Register' /\ Books' /\ Handed' = Handed /\ N' = N
  BY <1>2, <1>3, QuietStep
<1>5. Times'
  BY <1>1, <1>2 DEF Times
<1>6. Stamps'
  BY <1>1, <1>2, <1>3, <1>5, StampsStay DEF Times
<1>7. Course'
  BY <1>1, <1>2, <1>3, <1>4, CourseKept DEF Course, Early, Quiet
<1>8. Reported'
  BY <1>1 DEF Reported
<1>9. FittedPoolFits'
  <2>1. SUFFICES ASSUME mode' = "fatal", fitted'
                 PROVE  max_batch' = 1
    BY DEF FittedPoolFits
  <2>2. PICK g \in Geometries, free \in FreeMemory, requested \in 0 .. Cap, known \in BOOLEAN :
          LET fits == driver = "online" /\ known
              batch == IF fits THEN AutoBatch(requested, free, g) ELSE requested
          IN  /\ max_batch' = batch
              /\ fitted' = fits
              /\ mode' = IF PoolBytes(g, batch) <= free THEN "warm" ELSE "fatal"
    BY DEF BuildScheduler
  <2>3. max_batch' = AutoBatch(requested, free, g)
    BY <2>1, <2>2
  <2>4. ~(PoolBytes(g, AutoBatch(requested, free, g)) <= free)
    BY <2>1, <2>2
  <2> QED
    BY <2>3, <2>4, FittedBatch
<1> QED
  BY <1>4, <1>5, <1>6, <1>7, <1>8, <1>9 DEF IInv

\* A request that is not reported is added before the window opens.
LEMMA WarmAdds ==
  ASSUME IInv, mode \in {"warm", "prime"}, mode' \in {"warm", "prime", "drain", "open"},
         NEW prompt, AddRequest(prompt, 0, clock),
         IF prompt = "refused" THEN warm_ids' = warm_ids ELSE warm_ids' = warm_ids \cup {next_seq_id},
         UNCHANGED <<setting_vars, window_vars, ledger_vars, clock, seq_to_index, turn>>
  PROVE  IInv'
<1>1. /\ UNCHANGED <<driver, unlimited, prompts, submitted, rejected>>
      /\ UNCHANGED <<turn, start, now, next_arrival, arrival_open, seq_to_index, clock>>
  BY DEF setting_vars, window_vars
<1>2. Settings /\ Register /\ Books /\ Course /\ Times /\ Stamps
  BY DEF IInv
<1>3. Handed = 0 /\ Measured = {} /\ DOMAIN seq_to_index = {} /\ turn = "idle"
  BY <1>2 DEF Course, Early
<1>4. Settings'
  BY <1>1, <1>2 DEF Settings
<1>5. Register' /\ Measured' = Measured
  BY <1>2, RegisterGrows
<1>6. Books' /\ Handed' = Handed /\ N' = N
  BY <1>1, <1>2, <1>3, <1>5, BooksStay
<1>7. Times'
  BY <1>1, <1>2 DEF Times
<1>8. Stamps'
  BY <1>3, <1>5 DEF Stamps
<1>9. Course'
  BY <1>1, <1>2, <1>3, <1>5, <1>6 DEF Course, Early
<1>10. Reported' /\ FittedPoolFits'
  BY DEF Reported, FittedPoolFits
<1> QED
  BY <1>4, <1>5, <1>6, <1>7, <1>8, <1>9, <1>10 DEF IInv

\* A round of the warm-up.
LEMMA WarmUpStep ==
  ASSUME IInv, WarmUp
  PROVE  IInv'
<1>1. /\ mode = "warm" /\ mode' \in {"warm", "drain"} /\ AddRequest("fits", 0, clock)
      /\ warm_ids' = warm_ids \cup {next_seq_id}
      /\ UNCHANGED <<setting_vars, window_vars, ledger_vars, clock, seq_to_index, turn>>
  BY DEF WarmUp
<1>2. PICK prompt : prompt = "fits"
  OBVIOUS
<1> QED
  BY <1>1, <1>2, WarmAdds

\* A step of a driver between its phases: nothing is handed in, and nothing
\* but its place in the run and the window's start change.
LEMMA Opens ==
  ASSUME IInv, mode \in {"prime", "drain", "open"}, turn = "idle",
         mode' \in {"warm", "prime", "open", "submit", "loop"},
         mode' = "submit" => unlimited,
         UNCHANGED <<setting_vars, ledger_vars, request_vars, clock, warm_ids, seq_to_index, turn>>,
         UNCHANGED <<now, arrival_open, submitted, rejected>>,
         start' \in {start, clock}, next_arrival' \in Nat
  PROVE  IInv'
<1>1. /\ UNCHANGED <<driver, unlimited, prompts, submitted, rejected, warm_ids, request_vars>>
      /\ UNCHANGED <<turn, now, arrival_open, seq_to_index, clock>>
  BY DEF setting_vars
<1>2. Settings /\ Register /\ Books /\ Course /\ Times /\ Stamps
  BY DEF IInv
<1>3. Quiet
  BY <1>1, <1>2, Untouched
<1>4. Settings' /\ Register' /\ Books' /\ Measured' = Measured /\ Handed' = Handed /\ N' = N
  BY <1>2, <1>3, QuietStep
<1>5. Measured = {}
  BY <1>2 DEF Course, Early
<1>6. Times'
  <2>1. start' = start \/ start' = clock
    OBVIOUS
  <2>2. start' \in Nat /\ start' <= clock /\ clock \in Nat /\ now \in Nat
    BY <1>2, <2>1 DEF Times
  <2>3. mode' # "arrive" /\ clock' = clock /\ now' = now
    BY <1>1
  <2> QED
    BY <2>2, <2>3 DEF Times
<1>7. Stamps'
  BY <1>4, <1>5 DEF Stamps
<1>8. Course'
  BY <1>1, <1>2, <1>3, <1>4, CourseKept DEF Course, Early, Quiet
<1>9. Reported' /\ FittedPoolFits'
  BY DEF Reported, FittedPoolFits
<1> QED
  BY <1>4, <1>6, <1>7, <1>8, <1>9 DEF IInv

\* The prefix driver's priming request is added, refused or left out.
LEMMA PrimeStep ==
  ASSUME IInv, Prime
  PROVE  IInv'
<1>1. /\ mode = "prime"
      /\ UNCHANGED <<setting_vars, window_vars, ledger_vars, clock, seq_to_index, turn>>
  BY DEF Prime
<1>2. CASE /\ AddRequest("fits", 0, clock)
           /\ warm_ids' = warm_ids \cup {next_seq_id}
           /\ mode' = "drain"
  <2>1. PICK prompt : prompt = "fits"
    OBVIOUS
  <2> QED
    BY <1>1, <1>2, <2>1, WarmAdds
<1>3. CASE AddRequest("refused", 0, clock) /\ mode' = "open" /\ UNCHANGED warm_ids
  <2>1. PICK prompt : prompt = "refused"
    OBVIOUS
  <2> QED
    BY <1>1, <1>3, <2>1, WarmAdds
<1>4. CASE mode' = "open" /\ UNCHANGED <<request_vars, warm_ids>>
  <2>1. turn = "idle" /\ next_arrival \in Nat
    BY <1>1 DEF IInv, Course, Times
  <2>2. UNCHANGED <<start, next_arrival, now, arrival_open, submitted, rejected>>
    BY <1>1 DEF window_vars
  <2> QED
    BY <1>1, <1>4, <2>1, <2>2, Opens
<1> QED
  BY <1>2, <1>3, <1>4 DEF Prime

\* A round has drained.
LEMMA DrainedStep ==
  ASSUME IInv, Drained
  PROVE  IInv'
<1>1. /\ mode = "drain" /\ turn = "idle" /\ mode' \in {"warm", "prime", "open"}
      /\ UNCHANGED <<setting_vars, window_vars, ledger_vars, request_vars, clock, warm_ids,
                     seq_to_index, turn>>
  BY DEF Drained
<1>2. next_arrival \in Nat
  BY DEF IInv, Times
<1>3. UNCHANGED <<start, next_arrival, now, arrival_open, submitted, rejected>>
  BY <1>1 DEF window_vars
<1> QED
  BY <1>1, <1>2, <1>3, Opens

\* The window opens.
LEMMA OpenStep ==
  ASSUME IInv, OpenWindow
  PROVE  IInv'
<1>1. /\ mode = "open" /\ start' = clock
      /\ mode' \in {"submit", "loop"} /\ (mode' = "submit" => unlimited)
      /\ UNCHANGED <<setting_vars, ledger_vars, request_vars, clock, warm_ids, seq_to_index, turn>>
      /\ UNCHANGED <<now, arrival_open, submitted, rejected>>
  BY DEF OpenWindow
<1>2. next_arrival' \in Nat
  <2>1. next_arrival' = 0 \/ next_arrival' \in Gaps
    BY DEF OpenWindow
  <2>2. \A gap \in Gaps : gap \in Nat
    BY DriverConstants
  <2>3. CASE next_arrival' = 0
    BY <2>3
  <2>4. CASE next_arrival' \in Gaps
    BY <2>2, <2>4
  <2> QED
    BY <2>1, <2>3, <2>4
<1>3. turn = "idle"
  BY <1>1 DEF IInv, Course
<1> QED
  BY <1>1, <1>2, <1>3, Opens

-------------------------------------------------------------------------------
(* Prompts are handed in.                                                    *)

\* A request's stamp is no earlier than those before it, and the next one's
\* will be no earlier than its own.
LEMMA StampsGrow ==
  ASSUME Settings, Register, Books, Times, Stamps, Handed < N, driver # "prefix",
         NEW arrived \in Nat, Submit(arrived), warm_ids' = warm_ids,
         start <= arrived, arrived <= clock,
         unlimited /\ driver = "online" => arrived = start,
         ~unlimited => arrived <= start + next_arrival',
         \A id \in Measured : arrival[id] <= arrived,
         next_arrival' \in Nat, next_arrival <= next_arrival',
         UNCHANGED <<driver, unlimited, start, clock, prompts>>
  PROVE  Stamps'
<1>1. PICK n, new, p : n = Handed /\ new = next_seq_id /\ p = prompts[n + 1]
  OBVIOUS
<1>2. /\ n \in Nat /\ AddRequest(p, n + 1, arrived)
  BY <1>1, PromptKinds DEF Books, Submit, Handed
<1>3. /\ Measured' = IF p = "refused" THEN Measured ELSE Measured \cup {new}
      /\ new \notin Measured
  BY <1>1, <1>2, RegisterGrows, AddFacts DEF Measured
<1>4. \A id \in Measured : arrival'[id] = arrival[id] /\ behind'[id] = behind[id]
  <2>1. CASE p = "refused"
    BY <1>2, <2>1, AddFacts
  <2>2. CASE p # "refused"
    BY <1>2, <2>2, AddFacts DEF Measured
  <2> QED
    BY <2>1, <2>2
<1>5. \A id \in Measured : behind[id] \in 1 .. n
  BY <1>1 DEF Books, Taken
<1>6. \A id \in Measured :
        /\ arrival[id] \in Nat /\ start <= arrival[id] /\ arrival[id] <= clock
        /\ unlimited /\ driver = "online" => arrival[id] = start
        /\ ~unlimited => arrival[id] <= start + next_arrival'
  BY DEF Stamps, Times
<1>7. \A id, other \in Measured : behind[id] < behind[other] => arrival[id] <= arrival[other]
  BY DEF Stamps
<1>8. CASE p = "refused"
  <2>1. Measured' = Measured
    BY <1>3, <1>8
  <2>2. \A id \in Measured' :
          /\ arrival'[id] \in Nat /\ start <= arrival'[id] /\ arrival'[id] <= clock
          /\ unlimited /\ driver = "online" => arrival'[id] = start
          /\ ~unlimited => arrival'[id] <= start + next_arrival'
    BY <1>4, <1>6, <2>1
  <2>3. \A id, other \in Measured' : behind'[id] < behind'[other] => arrival'[id] <= arrival'[other]
    BY <1>4, <1>7, <2>1
  <2> QED
    BY <2>2, <2>3 DEF Stamps
<1>9. CASE p # "refused"
  <2>1. Measured' = Measured \cup {new}
    BY <1>3, <1>9
  <2>2. arrival'[new] = arrived /\ behind'[new] = n + 1
    BY <1>1, <1>2, <1>9, AddFacts
  <2>3. \A id \in Measured' :
          /\ arrival'[id] \in Nat /\ start <= arrival'[id] /\ arrival'[id] <= clock
          /\ unlimited /\ driver = "online" => arrival'[id] = start
          /\ ~unlimited => arrival'[id] <= start + next_arrival'
    BY <1>4, <1>6, <2>1, <2>2
  <2>4. \A id, other \in Measured' : behind'[id] < behind'[other] => arrival'[id] <= arrival'[other]
    <3>1. SUFFICES ASSUME NEW id \in Measured', NEW other \in Measured', behind'[id] < behind'[other]
                   PROVE  arrival'[id] <= arrival'[other]
      OBVIOUS
    <3>2. CASE id = new /\ other = new
      BY <2>2, <3>1, <3>2
    <3>3. CASE id = new /\ other \in Measured
      BY <1>2, <1>4, <1>5, <2>2, <3>1, <3>3
    <3>4. CASE id \in Measured /\ other = new
      BY <1>4, <2>2, <3>4
    <3>5. CASE id \in Measured /\ other \in Measured
      BY <1>4, <1>7, <3>1, <3>5
    <3> QED
      BY <2>1, <3>2, <3>3, <3>4, <3>5
  <2> QED
    BY <2>3, <2>4 DEF Stamps
<1> QED
  BY <1>8, <1>9

\* All prompts are submitted at once, one after the other.
LEMMA SubmitAllStep ==
  ASSUME IInv, SubmitAll
  PROVE  IInv'
<1>1. /\ mode = "submit"
      /\ UNCHANGED <<driver, unlimited, prompts, warm_ids>>
      /\ UNCHANGED <<turn, now, next_arrival, arrival_open, clock>>
  BY DEF SubmitAll, setting_vars
<1>2. Settings /\ Register /\ Books /\ Course /\ Times /\ Stamps
  BY DEF IInv
<1>3. Settings'
  BY <1>1, <1>2 DEF Settings
<1>4. unlimited /\ turn = "idle"
  BY <1>1, <1>2 DEF Course
<1>5. start \in Nat /\ clock \in Nat /\ start <= clock /\ next_arrival \in Nat
  BY <1>2 DEF Times
<1>6. CASE Handed < N
  <2>1. /\ Submit(IF driver = "online" THEN start ELSE clock)
        /\ seq_to_index' = IF driver = "prefix" /\ prompts[Handed + 1] = "fits"
                           THEN Lifecycle!With(seq_to_index, next_seq_id, SubmitIndex)
                           ELSE seq_to_index
        /\ mode' = mode /\ start' = start
    BY <1>6 DEF SubmitAll
  <2>2. PICK arrived \in Nat : arrived = IF driver = "online" THEN start ELSE clock
    BY <1>5
  <2>3. Submit(arrived)
    BY <2>1, <2>2
  <2>4. Register' /\ Books' /\ N' = N /\ prompts[Handed + 1] \in {"fits", "refused"}
    BY <1>1, <1>2, <1>6, <2>3, SubmitBooks
  <2>5. Times'
    BY <1>1, <1>2, <2>1 DEF Times
  <2>6. Stamps'
    <3>1. CASE driver = "prefix"
      BY <1>1, <3>1 DEF Stamps
    <3>2. CASE driver # "prefix"
      <4>1. \A id \in Measured : arrival[id] <= arrived
        <5>1. CASE driver = "online"
          BY <1>2, <1>4, <1>5, <2>2, <3>2, <5>1 DEF Stamps
        <5>2. CASE driver # "online"
          BY <1>2, <2>2, <3>2, <5>2 DEF Stamps
        <5> QED
          BY <5>1, <5>2
      <4>2. start <= arrived /\ arrived <= clock /\ (driver = "online" => arrived = start)
        BY <1>5, <2>2
      <4>3. next_arrival' \in Nat /\ next_arrival <= next_arrival'
        BY <1>1, <1>5
      <4> QED
        BY <1>1, <1>2, <1>4, <1>6, <2>1, <2>3, <3>2, <4>1, <4>2, <4>3, StampsGrow
    <3> QED
      BY <3>1, <3>2
  <2>7. driver = "prefix" =>
          DOMAIN seq_to_index' = Measured' /\ \A id \in Measured' : seq_to_index'[id] = behind'[id]
    <3>1. PICK p, new, n : p = prompts[Handed + 1] /\ new = next_seq_id /\ n = Handed + 1
      OBVIOUS
    <3>2. AddRequest(p, n, arrived)
      BY <2>3, <3>1 DEF Submit
    <3>3. /\ Measured' = IF p = "refused" THEN Measured ELSE Measured \cup {new}
          /\ new \notin Measured
      BY <1>1, <1>2, <3>1, <3>2, RegisterGrows, AddFacts DEF Measured
    <3>4. SUFFICES ASSUME driver = "prefix"
                   PROVE  /\ DOMAIN seq_to_index' = Measured'
                          /\ \A id \in Measured' : seq_to_index'[id] = behind'[id]
      OBVIOUS
    <3>5. DOMAIN seq_to_index = Measured /\ \A id \in Measured : seq_to_index[id] = behind[id]
      BY <1>2, <3>4 DEF Course
    <3>6. CASE p = "refused"
      <4>1. behind' = behind /\ seq_to_index' = seq_to_index
        BY <1>2, <2>1, <3>1, <3>2, <3>6, AddFacts
      <4> QED
        BY <3>3, <3>5, <3>6, <4>1
    <3>7. CASE p = "fits"
      <4>1. behind'[new] = n /\ \A id \in Measured : behind'[id] = behind[id]
        BY <1>2, <3>1, <3>2, <3>7, AddFacts DEF Measured
      <4>2. seq_to_index' = Lifecycle!With(seq_to_index, new, n)
        BY <2>1, <3>1, <3>4, <3>7 DEF SubmitIndex
      <4>3. /\ DOMAIN seq_to_index' = Measured \cup {new} /\ seq_to_index'[new] = n
            /\ \A id \in Measured : seq_to_index'[id] = seq_to_index[id]
        BY <3>3, <3>5, <4>2 DEF Lifecycle!With
      <4> QED
        BY <3>3, <3>5, <3>7, <4>1, <4>3
    <3> QED
      BY <2>4, <3>1, <3>6, <3>7
  <2>8. Course'
    BY <1>1, <1>2, <1>4, <2>1, <2>7 DEF Course, Early
  <2>9. Reported' /\ FittedPoolFits'
    BY <1>1, <2>1 DEF Reported, FittedPoolFits
  <2> QED
    BY <1>3, <2>4, <2>5, <2>6, <2>8, <2>9 DEF IInv
<1>7. CASE ~(Handed < N)
  <2>1. /\ mode' = "loop" /\ start' = IF driver = "prefix" THEN clock ELSE start
        /\ UNCHANGED <<request_vars, seq_to_index, submitted, rejected>>
    BY <1>7 DEF SubmitAll
  <2>2. Quiet
    BY <1>1, <1>2, <2>1, Untouched
  <2>3. Register' /\ Books' /\ Handed' = Handed /\ N' = N
    BY <1>2, <2>2, QuietStep
  <2>4. Times'
    BY <1>1, <1>2, <2>1 DEF Times
  <2>5. Stamps'
    BY <1>1, <1>2, <1>5, <2>1, <2>2, StampsStay
  <2>6. Course'
    BY <1>1, <1>2, <1>4, <2>1, <2>2, <2>3, CourseKept DEF Course, Early, Quiet
  <2>7. Reported' /\ FittedPoolFits'
    BY <2>1 DEF Reported, FittedPoolFits
  <2> QED
    BY <1>3, <2>3, <2>4, <2>5, <2>6, <2>7 DEF IInv
<1> QED
  BY <1>6, <1>7

\* What is due is submitted with the time it was due at.
LEMMA ArriveStep ==
  ASSUME IInv, Arrive
  PROVE  IInv'
<1>1. /\ mode = "arrive" /\ mode' = mode /\ Due /\ Submit(ScheduledArrival)
      /\ UNCHANGED <<driver, unlimited, prompts, warm_ids>>
      /\ UNCHANGED <<turn, now, start, seq_to_index, arrival_open, clock>>
  BY DEF Arrive, setting_vars
<1>2. Settings /\ Register /\ Books /\ Course /\ Times /\ Stamps
  BY DEF IInv
<1>3. Settings'
  BY <1>1, <1>2 DEF Settings
<1>4. ~unlimited /\ turn = "idle" /\ driver = "online"
  BY <1>1, <1>2 DEF Course, Settings
<1>5. Handed < N /\ now >= next_arrival
  BY <1>1 DEF Due
<1>6. /\ start \in Nat /\ clock \in Nat /\ next_arrival \in Nat /\ now \in Nat
      /\ start + now <= clock
  BY <1>1, <1>2 DEF Times
<1>7. PICK arrived \in Nat : arrived = start + next_arrival
  BY <1>6
<1>8. Submit(arrived)
  BY <1>1, <1>7 DEF ScheduledArrival
<1>9. next_arrival' \in Nat /\ next_arrival <= next_arrival'
  <2>1. PICK gap \in Gaps : next_arrival' = next_arrival + gap
    BY DEF Arrive
  <2>2. gap \in Nat
    BY DriverConstants
  <2> QED
    BY <1>6, <2>1, <2>2
<1>10. Register' /\ Books' /\ N' = N
  BY <1>1, <1>2, <1>5, <1>8, SubmitBooks
<1>11. Times'
  BY <1>1, <1>2, <1>9 DEF Times
<1>12. Stamps'
  <2>1. start <= arrived /\ arrived <= clock /\ arrived <= start + next_arrival'
    <3>1. PICK s, a, w, c, b \in Nat :
            s = start /\ a = next_arrival /\ w = now /\ c = clock /\ b = next_arrival'
      BY <1>6, <1>9
    <3>2. arrived = s + a /\ a <= w /\ s + w <= c /\ a <= b
      BY <1>5, <1>6, <1>7, <1>9, <3>1
    <3>3. s <= arrived /\ arrived <= c /\ arrived <= s + b
      BY <3>2
    <3> QED
      BY <3>1, <3>3
  <2>2. \A id \in Measured : arrival[id] <= arrived
    BY <1>2, <1>4, <1>7 DEF Stamps
  <2>3. driver # "prefix"
    BY <1>4
  <2> QED
    BY <1>1, <1>2, <1>4, <1>5, <1>8, <1>9, <2>1, <2>2, <2>3, StampsGrow
<1>13. Course'
  BY <1>1, <1>2, <1>4 DEF Course, Early
<1>14. Reported' /\ FittedPoolFits'
  BY <1>1 DEF Reported, FittedPoolFits
<1> QED
  BY <1>3, <1>10, <1>11, <1>12, <1>13, <1>14 DEF IInv

-------------------------------------------------------------------------------
(* The measured loop, and the report.                                        *)

\* The top of the loop reads the clock, or finds nothing more to do.
LEMMA LoopTopStep ==
  ASSUME IInv, LoopTop
  PROVE  IInv'
<1>1. /\ mode = "loop" /\ turn = "idle" /\ mode' \in {"step", "arrive", "report"}
      /\ UNCHANGED <<driver, unlimited, prompts, submitted, rejected, warm_ids, request_vars>>
      /\ UNCHANGED <<turn, clock, start, next_arrival, seq_to_index>>
  BY DEF LoopTop, setting_vars
<1>2. Settings /\ Register /\ Books /\ Course /\ Times /\ Stamps
  BY DEF IInv
<1>3. Quiet
  BY <1>1, <1>2, Untouched
<1>4. Settings' /\ Register' /\ Books' /\ Handed' = Handed /\ N' = N
  BY <1>2, <1>3, QuietStep
<1>5. /\ mode' = "arrive" => ~unlimited /\ now' = clock - start
      /\ mode' # "arrive" => now' = now /\ arrival_open' = arrival_open
      /\ mode' = "report" => ~MoreToDo
      /\ unlimited => arrival_open' = arrival_open
  BY DEF LoopTop
<1>6. Times'
  <2>1. now' \in Nat /\ (mode' = "arrive" => start + now' <= clock)
    <3>1. CASE mode' = "arrive"
      <4>1. PICK s, c \in Nat : s = start /\ c = clock /\ s <= c
        BY <1>2 DEF Times
      <4>2. now' = c - s
        BY <1>5, <3>1, <4>1
      <4> QED
        BY <4>1, <4>2
    <3>2. CASE mode' # "arrive"
      BY <1>2, <1>5, <3>2 DEF Times
    <3> QED
      BY <3>1, <3>2
  <2> QED
    BY <1>1, <1>2, <2>1 DEF Times
<1>7. Stamps'
  <2>1. clock' \in Nat /\ clock <= clock' /\ next_arrival' \in Nat
    BY <1>1, <1>2 DEF Times
  <2> QED
    BY <1>1, <1>2, <1>3, <2>1, StampsStay
<1>8. Course'
  <2>1. mode' = "report" => AllFinished' /\ ~(arrival_open' /\ Handed' < N')
    <3>1. AllFinished' = AllFinished
      BY <1>1 DEF AllFinished, Finished, In, Requests, request_vars
    <3> QED
      BY <1>4, <1>5, <3>1 DEF MoreToDo
  <2> QED
    BY <1>1, <1>2, <1>3, <1>4, <1>5, <2>1, CourseKept DEF Course, Early, Quiet
<1>9. Reported' /\ FittedPoolFits'
  BY <1>1 DEF Reported, FittedPoolFits
<1> QED
  BY <1>4, <1>6, <1>7, <1>8, <1>9 DEF IInv

\* Nothing more is due.
LEMMA ArrivalsEndStep ==
  ASSUME IInv, ArrivalsEnd
  PROVE  IInv'
<1>1. /\ mode = "arrive" /\ mode' = "step" /\ now' = 0
      /\ UNCHANGED <<driver, unlimited, prompts, submitted, rejected, warm_ids, request_vars>>
      /\ UNCHANGED <<turn, clock, start, next_arrival, arrival_open, seq_to_index>>
  BY DEF ArrivalsEnd, setting_vars
<1>2. Settings /\ Register /\ Books /\ Course /\ Times /\ Stamps
  BY DEF IInv
<1>3. Quiet
  BY <1>1, <1>2, Untouched
<1>4. Settings' /\ Register' /\ Books' /\ Handed' = Handed /\ N' = N
  BY <1>2, <1>3, QuietStep
<1>5. Times'
  BY <1>1, <1>2 DEF Times
<1>6. Stamps'
  BY <1>1, <1>2, <1>3, <1>5, StampsStay DEF Times
<1>7. Course'
  BY <1>1, <1>2, <1>3, <1>4, CourseKept DEF Course, Early, Quiet
<1>8. Reported' /\ FittedPoolFits'
  BY <1>1 DEF Reported, FittedPoolFits
<1> QED
  BY <1>4, <1>5, <1>6, <1>7, <1>8 DEF IInv

\* The scheduler takes a turn of its own: the driver stays where it is, in
\* its loop or draining a round of the warm-up.
LEMMA Turns ==
  ASSUME IInv, Quiet, mode \in {"loop", "drain", "step"},
         IF mode = "step" THEN mode' = "loop" ELSE mode' = mode,
         UNCHANGED <<clock, start, now, next_arrival, arrival_open, seq_to_index>>
  PROVE  IInv'
<1>1. Settings /\ Register /\ Books /\ Course /\ Times /\ Stamps
  BY DEF IInv
<1>2. Settings' /\ Register' /\ Books' /\ Handed' = Handed /\ N' = N
  BY <1>1, QuietStep
<1>3. mode' \in {"loop", "drain"} /\ (mode' \in Early => mode \in Early)
  BY DEF Early
<1>4. Times'
  BY <1>1, <1>3 DEF Times
<1>5. Stamps'
  BY <1>1, <1>4, StampsStay DEF Times
<1>6. Course'
  BY <1>1, <1>2, <1>3, CourseKept DEF Course, Quiet
<1>7. Reported' /\ FittedPoolFits'
  BY <1>3 DEF Reported, FittedPoolFits
<1> QED
  BY <1>2, <1>4, <1>5, <1>6, <1>7 DEF IInv

\* The driver calls step().
LEMMA CallStepStep ==
  ASSUME IInv, CallStep
  PROVE  IInv'
<1>1. /\ mode \in {"step", "drain"} /\ mode' = IF mode = "step" THEN "loop" ELSE mode
      /\ UNCHANGED <<driver, unlimited, prompts, submitted, rejected, warm_ids, request_vars>>
      /\ UNCHANGED <<clock, start, now, next_arrival, arrival_open, seq_to_index>>
  BY DEF CallStep, setting_vars, window_vars
<1>2. Quiet
  BY <1>1, Untouched DEF IInv
<1> QED
  BY <1>1, <1>2, Turns

\* A step of the scheduler: requests change where they stand, and how many
\* tokens they have.
LEMMA SchedulerStep ==
  ASSUME IInv, Step
  PROVE  IInv'
<1>1. Register /\ Course
  BY DEF IInv
<1>2. /\ UNCHANGED <<driver, unlimited, prompts, submitted, rejected, warm_ids, next_seq_id,
                     arrival, behind, mode>>
      /\ UNCHANGED <<clock, start, now, next_arrival, arrival_open, seq_to_index>>
      /\ turn # "idle"
  BY DEF Step, Admit, AdmissionEnds, Forward, ForwardFails, Retire, StepReturns, Waits,
         setting_vars, window_vars
<1>3. mode \in {"loop", "drain"} /\ mode' = mode
  BY <1>1, <1>2 DEF Course
<1>4. DOMAIN status = Requests /\ DOMAIN tokens = Requests /\ \A id \in Requests : tokens[id] \in Nat
  BY <1>1 DEF Register, Requests
<1>5. /\ DOMAIN status' = Requests /\ DOMAIN tokens' = Requests
      /\ \A id \in Requests : tokens'[id] \in Nat
  <2>1. CASE UNCHANGED <<status, tokens>>
    BY <1>4, <2>1
  <2>2. CASE \E id, standing : Lifecycle!Moves(id, standing) /\ UNCHANGED tokens
    BY <1>4, <2>2 DEF Lifecycle!Moves
  <2>3. CASE \E ids : Lifecycle!Generate(ids)
    <3>1. PICK ids : Lifecycle!Generate(ids)
      BY <2>3
    <3>2. /\ status' = status
          /\ tokens' = [id \in Requests |-> tokens[id] + (IF id \in ids THEN 1 ELSE 0)]
      BY <3>1 DEF Lifecycle!Generate, Lifecycle!Accepted, Requests
    <3>3. ASSUME NEW id \in Requests PROVE tokens'[id] \in Nat
      BY <1>4, <3>2
    <3> QED
      BY <1>4, <3>2, <3>3
  <2>4. \/ UNCHANGED <<status, tokens>>
        \/ \E id, standing : Lifecycle!Moves(id, standing) /\ UNCHANGED tokens
        \/ \E ids : Lifecycle!Generate(ids)
    <3>1. CASE Admit
      BY <3>1 DEF Admit, Lifecycle!Admit
    <3>2. CASE AdmissionEnds \/ ForwardFails \/ StepReturns
      BY <3>2 DEF AdmissionEnds, ForwardFails, StepReturns
    <3>3. CASE \E ids \in SUBSET In("running") : Forward(ids)
      BY <3>3 DEF Forward
    <3>4. CASE Retire
      BY <3>4 DEF Retire, Lifecycle!Complete, Lifecycle!Abort
    <3> QED
      BY <3>1, <3>2, <3>3, <3>4 DEF Step
  <2> QED
    BY <2>1, <2>2, <2>3, <2>4
<1>6. Quiet
  BY <1>2, <1>5 DEF Quiet, Requests
<1> QED
  BY <1>2, <1>3, <1>6, Turns

\* All requests of the window have ended, and each is in one count or filed
\* under the position of its prompt.
LEMMA ReportStep ==
  ASSUME IInv, Report
  PROVE  IInv'
<1>1. /\ mode = "report" /\ mode' = "done"
      /\ UNCHANGED <<driver, unlimited, prompts, submitted, rejected, warm_ids, request_vars>>
      /\ UNCHANGED <<turn, clock, start, now, next_arrival, arrival_open, seq_to_index>>
  BY DEF Report, setting_vars, window_vars
<1>2. Settings /\ Register /\ Books /\ Course /\ Times /\ Stamps
  BY DEF IInv
<1>3. Quiet
  BY <1>1, <1>2, Untouched
<1>4. /\ Settings' /\ Register' /\ Books' /\ Handed' = Handed /\ N' = N /\ Measured' = Measured
  BY <1>2, <1>3, QuietStep
<1>5. Times'
  BY <1>1, <1>2 DEF Times
<1>6. Stamps'
  BY <1>1, <1>2, <1>3, <1>5, StampsStay DEF Times
<1>7. AllFinished /\ ~(arrival_open /\ Handed < N)
  BY <1>1, <1>2 DEF Course
<1>8. Course'
  <2>1. AllFinished' = AllFinished
    BY <1>1 DEF AllFinished, Finished, In, Requests, request_vars
  <2> QED
    BY <1>1, <1>2, <1>3, <1>4, <1>7, <2>1, CourseKept DEF Course, Early, Quiet
<1>9. Finished \ warm_ids = Measured
  BY <1>7 DEF AllFinished, Measured
<1>10. Reported'
  <2>1. CASE driver # "prefix"
    <3>1. PICK some, none : /\ some = {id \in Measured : tokens[id] > 0}
                            /\ none = {id \in Measured : tokens[id] = 0}
      OBVIOUS
    <3>2. completed' = Cardinality(some) /\ dropped' = Cardinality(none)
      BY <1>9, <2>1, <3>1 DEF Report
    <3>3. IsFiniteSet(Measured)
      <4>1. Measured \in SUBSET Requests
        BY DEF Measured
      <4> QED
        BY <1>2, <4>1, FS_Subset DEF Register
    <3>4. some \cup none = Measured /\ some \cap none = {}
      <4>1. \A id \in Measured : tokens[id] \in Nat
        BY <1>2 DEF Register, Measured
      <4> QED
        BY <3>1, <4>1
    <3>5. IsFiniteSet(some) /\ IsFiniteSet(none)
      BY <3>3, <3>4, FS_Subset
    <3>6. Cardinality(Measured) = Cardinality(some) + Cardinality(none) - Cardinality(some \cap none)
      BY <3>4, <3>5, FS_Union
    <3>7. /\ Cardinality(some \cap none) = 0
          /\ Cardinality(some) \in Nat /\ Cardinality(none) \in Nat
      BY <3>4, <3>5, FS_EmptySet, FS_CardinalityType
    <3>8. completed' + dropped' = Cardinality(Measured)
      BY <3>2, <3>6, <3>7
    <3> QED
      BY <1>1, <1>2, <2>1, <3>8 DEF Reported, Books
  <2>2. CASE driver = "prefix"
    <3>1. arrival_open
      BY <1>2, <2>2 DEF Settings, Course
    <3>2. Handed = N
      <4>1. PICK n, m \in Nat : n = Handed /\ m = N /\ n <= m
        BY <1>2, PromptKinds DEF Books, Handed
      <4> QED
        BY <1>7, <3>1, <4>1
    <3>3. DOMAIN seq_to_index = Measured /\ \A id \in Measured : seq_to_index[id] = behind[id]
      BY <1>2, <2>2 DEF Course
    <3>4. gen_tokens' = [i \in DOMAIN prompts |->
            IF \E id \in Measured : seq_to_index[id] = i
            THEN CHOOSE id \in Measured : seq_to_index[id] = i ELSE -1]
      <4>1. (Finished \ warm_ids) \cap DOMAIN seq_to_index = Measured
        BY <1>9, <3>3
      <4> QED
        BY <4>1 DEF Report
    <3>5. \A i \in DOMAIN prompts :
            /\ prompts[i] \in {"fits", "refused"}
            /\ (\E id \in Measured : seq_to_index[id] = i) <=> prompts[i] = "fits"
      <4>1. DOMAIN prompts = 1 .. Handed
        BY <1>2, <3>2, PromptKinds
      <4>2. {behind[id] : id \in Measured} = {i \in DOMAIN prompts : prompts[i] = "fits"}
        BY <1>2, <4>1 DEF Books, Taken
      <4>3. \A i \in DOMAIN prompts : prompts[i] \in {"fits", "refused"}
        BY <1>2, PromptKinds
      <4> QED
        BY <3>3, <4>2, <4>3
    <3>6. ASSUME NEW i \in DOMAIN prompts
          PROVE  IF prompts[i] = "fits" THEN gen_tokens'[i] \in Measured /\ behind[gen_tokens'[i]] = i
                                        ELSE gen_tokens'[i] = -1
      <4>1. CASE prompts[i] = "fits"
        <5>1. gen_tokens'[i] = CHOOSE id \in Measured : seq_to_index[id] = i
          BY <3>4, <3>5, <4>1
        <5>2. gen_tokens'[i] \in Measured /\ seq_to_index[gen_tokens'[i]] = i
          BY <3>5, <4>1, <5>1
        <5> QED
          BY <3>3, <4>1, <5>2
      <4>2. CASE prompts[i] # "fits"
        BY <3>4, <3>5, <4>2
      <4> QED
        BY <4>1, <4>2
    <3>7. ResultsAligned'
      <4>1. Measured \subseteq Requests /\ Requests' = Requests /\ behind' = behind /\ prompts' = prompts
        BY <1>3 DEF Measured, Quiet
      <4> QED
        BY <3>6, <4>1 DEF ResultsAligned
    <3> QED
      BY <1>1, <2>2, <3>7 DEF Reported
  <2> QED
    BY <2>1, <2>2
<1>11. FittedPoolFits'
  BY <1>1 DEF FittedPoolFits
<1> QED
  BY <1>4, <1>5, <1>6, <1>8, <1>10, <1>11 DEF IInv

-------------------------------------------------------------------------------
(* Runs.                                                                     *)

\* The invariant holds as the process starts.
LEMMA InitOK ==
  ASSUME Init
  PROVE  IInv
<1>1. /\ status = [id \in {} |-> "queued"] /\ tokens = [id \in {} |-> 0]
      /\ arrival = <<>> /\ behind = <<>> /\ seq_to_index = <<>> /\ warm_ids = {}
  BY DEF Init, Lifecycle!Init
<1>2. /\ Requests = {} /\ Measured = {} /\ DOMAIN tokens = {} /\ DOMAIN arrival = {}
      /\ DOMAIN behind = {} /\ DOMAIN seq_to_index = {}
  BY <1>1 DEF Requests, Measured
<1>3. /\ mode = "size" /\ turn = "idle" /\ clock = 1 /\ start = 0 /\ now = 0 /\ next_arrival = 0
      /\ arrival_open = TRUE /\ submitted = 0 /\ rejected = 0 /\ next_seq_id = 0
  BY DEF Init
<1>4. Settings
  BY DEF Init, Settings
<1>5. Register
  BY <1>1, <1>2, <1>3, FS_EmptySet DEF Register
<1>6. Handed = 0
  BY <1>3 DEF Handed
<1>7. Books
  <2>1. Taken(0) = {} /\ Refused(0) = {}
    BY DEF Taken, Refused
  <2>2. Cardinality({}) = 0
    BY FS_EmptySet
  <2>3. N \in Nat
    BY <1>4, PromptKinds
  <2>4. {behind[id] : id \in Measured} = {}
    BY <1>2
  <2>5. submitted = Cardinality(Measured) /\ rejected = Cardinality(Refused(Handed))
    BY <1>2, <1>3, <1>6, <2>1, <2>2
  <2> QED
    BY <1>3, <1>6, <2>1, <2>3, <2>4, <2>5 DEF Books
<1>8. Course
  BY <1>2, <1>3, <1>6 DEF Course, Early
<1>9. Times
  BY <1>3 DEF Times
<1>10. Stamps
  BY <1>2 DEF Stamps
<1>11. Reported /\ FittedPoolFits
  BY <1>3 DEF Reported, FittedPoolFits
<1> QED
  BY <1>4, <1>5, <1>7, <1>8, <1>9, <1>10, <1>11 DEF IInv

\* It outlives a step that changes nothing.
LEMMA Stutter ==
  ASSUME IInv, UNCHANGED vars
  PROVE  IInv'
<1>1. /\ UNCHANGED <<setting_vars, window_vars, ledger_vars, request_vars, mode, round, clock,
                     warm_ids, seq_to_index, turn>>
  BY DEF vars
<1>2. Requests' = Requests /\ Measured' = Measured /\ Handed' = Handed /\ N' = N
  BY <1>1 DEF Requests, Measured, Handed, N, request_vars, window_vars, setting_vars
<1>3. Settings' /\ Register' /\ Times'
  BY <1>1, <1>2 DEF IInv, Settings, Register, Times, request_vars, window_vars, setting_vars
<1>4. Books'
  BY <1>1, <1>2 DEF IInv, Books, Refused, Taken, request_vars, window_vars, setting_vars
<1>5. Course' /\ Stamps'
  BY <1>1, <1>2 DEF IInv, Course, Stamps, AllFinished, Finished, In, request_vars, window_vars,
                    setting_vars
<1>6. Reported' /\ FittedPoolFits'
  BY <1>1, <1>2 DEF IInv, Reported, ResultsAligned, FittedPoolFits, request_vars, window_vars,
                    setting_vars, ledger_vars
<1> QED
  BY <1>3, <1>4, <1>5, <1>6 DEF IInv

\* Every step keeps the invariant.
LEMMA StepOK ==
  ASSUME IInv, [Next]_vars
  PROVE  IInv'
<1>1. CASE Tick
  BY <1>1, TickStep
<1>2. CASE Drive
  BY <1>2, BuildStep, WarmUpStep, PrimeStep, DrainedStep, OpenStep, SubmitAllStep, LoopTopStep,
     ArriveStep, ArrivalsEndStep, CallStepStep, ReportStep DEF Drive
<1>3. CASE Step
  BY <1>3, SchedulerStep
<1>4. CASE UNCHANGED vars
  BY <1>4, Stutter
<1> QED
  BY <1>1, <1>2, <1>3, <1>4 DEF Next

\* The drivers keep their books as IInv says.
THEOREM DriverInvariant == Spec => []IInv
<1>1. Init => IInv
  BY InitOK
<1>2. IInv /\ [Next]_vars => IInv'
  BY StepOK
<1> QED
  BY <1>1, <1>2, PTL DEF Spec

\* The numbers of a report are about the requests of its window and all of
\* them: the warm-up is not among them, every prompt was handed in unless the
\* window closed, and every accepted one is in one count or under its position.
THEOREM LedgerIsOfWindow == Spec => []LedgerOfWindow
<1>1. ASSUME IInv PROVE LedgerOfWindow
  <2>1. SUFFICES ASSUME mode = "done"
                 PROVE  /\ Handed = N \/ ~arrival_open
                        /\ rejected = Cardinality({i \in 1 .. Handed : prompts[i] = "refused"})
                        /\ {behind[id] : id \in Measured} = {i \in 1 .. Handed : prompts[i] = "fits"}
                        /\ Cardinality(Measured) = submitted
                        /\ IF driver = "prefix" THEN ResultsAligned ELSE completed + dropped = submitted
    BY DEF LedgerOfWindow
  <2>2. Settings /\ Books /\ Course /\ Reported
    BY <1>1 DEF IInv
  <2>3. Handed = N \/ ~arrival_open
    <3>1. PICK n, m \in Nat : n = Handed /\ m = N /\ n <= m
      BY <2>2, PromptKinds DEF Books, Handed
    <3>2. ~(arrival_open /\ n < m)
      BY <2>1, <2>2, <3>1 DEF Course
    <3> QED
      BY <3>1, <3>2
  <2>4. /\ rejected = Cardinality({i \in 1 .. Handed : prompts[i] = "refused"})
        /\ {behind[id] : id \in Measured} = {i \in 1 .. Handed : prompts[i] = "fits"}
        /\ Cardinality(Measured) = submitted
    BY <2>2 DEF Books, Refused, Taken
  <2> QED
    BY <2>1, <2>2, <2>3, <2>4 DEF Reported
<1>2. IInv => LedgerOfWindow
  BY <1>1
<1> QED
  BY <1>2, DriverInvariant, PTL

\* The stamps latencies are measured from lie in the window, not in the
\* future, and in the order of the dataset.
THEOREM StampsCausal == Spec => []ArrivalsCausal
<1>1. IInv => ArrivalsCausal
  BY DEF IInv, Stamps, ArrivalsCausal
<1> QED
  BY <1>1, DriverInvariant, PTL

\* The batch the online driver fits to the memory it finds is one KVManager
\* can allocate a pool for, unless it is the least there is.
THEOREM PoolFits == Spec => []FittedPoolFits
<1>1. IInv => FittedPoolFits
  BY DEF IInv
<1> QED
  BY <1>1, DriverInvariant, PTL
===============================================================================
