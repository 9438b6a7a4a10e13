------------------------ MODULE SchedulerBooksProofs ------------------------
(***************************************************************************)
(* The books of the scheduler, for every pool, budget and set of requests: *)
(* what every sequence, row and block is at every point of a step, and     *)
(* that every action keeps it so; and the rows it keeps are rows of        *)
(* PrefixSharing, step by step.  SchedulerProofs puts the steps together   *)
(* and states the theorems.                                                *)
(***************************************************************************)
EXTENDS Scheduler, PrefixCacheProofs

-------------------------------------------------------------------------------
(* Blocks and positions.                                                     *)

\* Rounding down to blocks.
LEMMA Quotient ==
  ASSUME NEW n \in Nat, NEW d \in Nat \ {0}
  PROVE  /\ n \div d \in Nat
         /\ (n \div d) * d <= n
         /\ n < (n \div d) * d + d
OBVIOUS

\* Products grow with their factors.
LEMMA Multiples ==
  ASSUME NEW m \in Int, NEW n \in Int, NEW d \in Nat \ {0}
  PROVE  m <= n <=> m * d <= n * d
OBVIOUS

\* m full blocks are among the first n tokens.
LEMMA FullBlocks ==
  ASSUME NEW n \in Nat, NEW m \in Int, NEW d \in Nat \ {0}
  PROVE  m * d <= n <=> m <= n \div d
<1>1. PICK q \in Nat : q = n \div d /\ q * d <= n /\ n < q * d + d
  BY Quotient
<1>2. CASE m <= q
  BY <1>1, <1>2, Multiples
<1>3. CASE q + 1 <= m
  <2>1. (q + 1) * d <= m * d
    BY <1>1, <1>3, Multiples
  <2>2. (q + 1) * d = q * d + d
    BY <1>1
  <2> QED
    BY <1>1, <1>3, <2>1, <2>2
<1> QED
  BY <1>1, <1>2, <1>3

\* A position is in the first m blocks.
LEMMA InBlocks ==
  ASSUME NEW p \in Nat, NEW m \in Int, NEW d \in Nat \ {0}
  PROVE  p \div d + 1 <= m <=> p < m * d
<1>1. p \div d \in Nat
  BY Quotient
<1>2. m * d \in Int
  OBVIOUS
<1>3. m * d <= p <=> m <= p \div d
  BY FullBlocks
<1> QED
  BY <1>1, <1>2, <1>3

\* n tokens fit in m blocks.
LEMMA FitInBlocks ==
  ASSUME NEW n \in Nat, NEW m \in Int, NEW d \in Nat \ {0}
  PROVE  /\ CeilDiv(n, d) \in Nat
         /\ CeilDiv(n, d) <= m <=> n <= m * d
<1>1. n + d - 1 \in Nat /\ CeilDiv(n, d) = (n + d - 1) \div d
  BY DEF CeilDiv
<1>2. CeilDiv(n, d) \in Nat
  BY <1>1, Quotient
<1>3. (m + 1) * d <= n + d - 1 <=> m + 1 <= CeilDiv(n, d)
  BY <1>1, FullBlocks
<1>4. (m + 1) * d = m * d + d /\ m * d \in Int
  OBVIOUS
<1> QED
  BY <1>2, <1>3, <1>4


-------------------------------------------------------------------------------
(* Filtered lists.                                                           *)

\* One more place of the list.
Extended(found, x, keep) == IF x \in keep THEN Append(found, x) ELSE found

\* f is what Filtered computes, place by place.
Filters(f, list, keep) ==
  /\ f[0] = <<>>
  /\ \A n \in 1 .. Len(list) : f[n] = Extended(f[n - 1], list[n], keep)

\* What it has found of the first n places.
FoundIn(found, list, keep, n) ==
  /\ Len(found) <= n
  /\ \A x : x \in Range(found) <=> x \in keep /\ \E i \in 1 .. n : x = list[i]
  /\ \A i, j \in 1 .. Len(found) : i < j =>
       \E k, m \in 1 .. n : k < m /\ found[i] = list[k] /\ found[j] = list[m]
  /\ IF found = <<>>
       THEN \A i \in 1 .. n : list[i] \notin keep
       ELSE \E i \in 1 .. n : /\ found[1] = list[i] /\ list[i] \in keep
                              /\ \A j \in 1 .. i - 1 : list[j] \notin keep

\* The recursion has a solution, and Filtered is its last value.
LEMMA FilterExists ==
  ASSUME NEW S, NEW list \in Seq(S), NEW keep
  PROVE  \E f : Filters(f, list, keep) /\ Filtered(list, keep) = f[Len(list)]
<1> DEFINE N == Len(list)
           P(g) == g = [n \in 0 .. N |->
                          IF n = 0 THEN <<>> ELSE Extended(g[n - 1], list[n], keep)]
           step == [p \in (1 .. N) \X Seq(S) |-> Extended(p[2], list[p[1]], keep)]
<1>1. N \in Nat /\ \A n \in 1 .. N : list[n] \in S
  OBVIOUS
<1>2. \A t \in Seq(S), x \in S : Extended(t, x, keep) \in Seq(S)
  BY DEF Extended
<1>3. \A n \in 1 .. N : \A t \in Seq(S) : step[<<n, t>>] = Extended(t, list[n], keep)
  OBVIOUS
<1>4. <<>> \in Seq(S) /\ \A n \in 1 .. N : \A t \in Seq(S) : step[<<n, t>>] \in Seq(S)
  <2> HIDE DEF step, N
  <2>1. ASSUME NEW n \in 1 .. N, NEW t \in Seq(S) PROVE step[<<n, t>>] \in Seq(S)
    <3>1. list[n] \in S
      BY <1>1
    <3>2. Extended(t, list[n], keep) \in Seq(S)
      BY <1>2, <3>1
    <3> QED
      BY <1>3, <3>2
  <2>2. <<>> \in Seq(S)
    OBVIOUS
  <2> QED
    BY <2>1, <2>2
<1>5. \E f \in [0 .. N -> Seq(S)] : f[0] = <<>> /\ \A n \in 1 .. N : f[n] = step[<<n, f[n - 1]>>]
  <2> HIDE DEF step, N
  <2>1. PICK Q, first, n, st : Q = Seq(S) /\ first = <<>> /\ n = N /\ st = step
    OBVIOUS
  <2>2. first \in Q /\ n \in Nat /\ Maintains(st, n, Q)
    BY <1>1, <1>4, <2>1 DEF Maintains
  <2>3. \E f \in [0 .. n -> Q] : Follows(f, first, st, n)
    BY <2>2, Recursion
  <2> QED
    BY <2>1, <2>3 DEF Follows
<1>6. PICK f \in [0 .. N -> Seq(S)] : f[0] = <<>> /\ \A n \in 1 .. N : f[n] = step[<<n, f[n - 1]>>]
  BY <1>5
<1>7. \A n \in 1 .. N : f[n] = Extended(f[n - 1], list[n], keep)
  <2> HIDE DEF step, N
  <2>1. \A n \in 1 .. N : f[n - 1] \in Seq(S)
    BY <1>1, <1>6
  <2> QED
    BY <1>3, <1>6, <2>1
<1>8. P(f)
  <2> HIDE DEF step, N
  <2> DEFINE g == [n \in 0 .. N |-> IF n = 0 THEN <<>> ELSE Extended(f[n - 1], list[n], keep)]
  <2>1. \A n \in 0 .. N : f[n] = g[n]
    BY <1>1, <1>6, <1>7
  <2>2. DOMAIN f = 0 .. N /\ f = [n \in 0 .. N |-> f[n]]
    BY <1>6
  <2>3. f = g
    BY <2>1, <2>2
  <2> QED
    BY <2>3
<1> DEFINE h == CHOOSE g : P(g)
<1>9. Filtered(list, keep) = h[N]
  BY DEF Filtered, Extended
<1>10. P(h)
  <2> HIDE DEF P
  <2> QED
    BY <1>8 DEF h
<1> HIDE DEF h
<1>11. Filters(h, list, keep)
  <2>1. h[0] = <<>>
    BY <1>1, <1>10
  <2>2. \A n \in 1 .. N : h[n] = Extended(h[n - 1], list[n], keep)
    BY <1>1, <1>10
  <2> QED
    BY <2>1, <2>2 DEF Filters
<1> QED
  BY <1>9, <1>11

\* Filtered finds the members of keep, in the order of the list.
LEMMA FilteredFound ==
  ASSUME NEW S, NEW list \in Seq(S), NEW keep
  PROVE  /\ Filtered(list, keep) \in Seq(S)
         /\ FoundIn(Filtered(list, keep), list, keep, Len(list))
<1>1. PICK f : Filters(f, list, keep) /\ Filtered(list, keep) = f[Len(list)]
  BY FilterExists
<1> DEFINE N == Len(list)
           T == {n \in 0 .. N : f[n] \in Seq(S) /\ FoundIn(f[n], list, keep, n)}
<1>2. N \in Nat /\ \A n \in 1 .. N : list[n] \in S
  OBVIOUS
<1>3. 0 \in T
  <2>1. f[0] = <<>> /\ Range(<<>>) = {} /\ Len(<<>>) = 0
    BY <1>1 DEF Filters, Range
  <2>2. FoundIn(<<>>, list, keep, 0)
    BY <2>1 DEF FoundIn
  <2>3. f[0] \in Seq(S) /\ 0 \in 0 .. N
    BY <1>2, <2>1
  <2>4. FoundIn(f[0], list, keep, 0)
    BY <2>1, <2>2, Zenon
  <2> QED
    BY <2>3, <2>4
<1>4. ASSUME NEW n \in 1 .. N, n - 1 \in T
      PROVE  n \in T
  <2>1. n - 1 \in Nat /\ f[n - 1] \in Seq(S) /\ FoundIn(f[n - 1], list, keep, n - 1)
    BY <1>2, <1>4
  <2>2. PICK was \in Seq(S) : was = f[n - 1]
    BY <2>1
  <2>3. /\ Len(was) \in Nat /\ Len(was) <= n - 1
        /\ \A x : x \in Range(was) <=> x \in keep /\ \E i \in 1 .. n - 1 : x = list[i]
        /\ \A i, j \in 1 .. Len(was) : i < j =>
             \E k, m \in 1 .. n - 1 : k < m /\ was[i] = list[k] /\ was[j] = list[m]
    BY <2>1, <2>2 DEF FoundIn
  <2>4. was = <<>> => \A i \in 1 .. n - 1 : list[i] \notin keep
    BY <2>1, <2>2 DEF FoundIn
  <2>5. was # <<>> => \E i \in 1 .. n - 1 : /\ was[1] = list[i] /\ list[i] \in keep
                                            /\ \A j \in 1 .. i - 1 : list[j] \notin keep
    BY <2>1, <2>2 DEF FoundIn
  <2>6. CASE list[n] \notin keep
    <3>1. f[n] = was
      BY <1>1, <2>2, <2>6 DEF Filters, Extended
    <3>2. \A x : x \in Range(was) <=> x \in keep /\ \E i \in 1 .. n : x = list[i]
      BY <1>2, <2>3, <2>6
    <3>3. \A i, j \in 1 .. Len(was) : i < j =>
            \E k, m \in 1 .. n : k < m /\ was[i] = list[k] /\ was[j] = list[m]
      BY <1>2, <2>3
    <3>4. IF was = <<>> THEN \A i \in 1 .. n : list[i] \notin keep
          ELSE \E i \in 1 .. n : /\ was[1] = list[i] /\ list[i] \in keep
                                 /\ \A j \in 1 .. i - 1 : list[j] \notin keep
      BY <1>2, <2>4, <2>5, <2>6
    <3>5. Len(was) <= n
      BY <1>2, <2>3
    <3>6. FoundIn(was, list, keep, n)
      BY <3>2, <3>3, <3>4, <3>5 DEF FoundIn
    <3> QED
      BY <3>1, <3>6
  <2>7. CASE list[n] \in keep
    <3>1. PICK is : is = Append(was, list[n])
      OBVIOUS
    <3>0. list[n] \in S
      BY <1>2
    <3>2. f[n] = is
      BY <1>1, <2>2, <2>7, <3>1 DEF Filters, Extended
    <3>3. /\ is \in Seq(S) /\ Len(is) = Len(was) + 1 /\ is # <<>>
          /\ Range(is) = Range(was) \cup {list[n]}
      <4>1. PICK x : x = list[n]
        OBVIOUS
      <4>2. x \in S /\ was \in Seq(S) /\ is = Append(was, x)
        BY <2>2, <3>0, <3>1, <4>1
      <4>3. PICK longer : longer = Append(was, x)
        OBVIOUS
      <4>4. /\ longer \in Seq(S) /\ Len(longer) = Len(was) + 1 /\ longer # <<>>
            /\ Range(longer) = Range(was) \cup {x}
        BY <4>2, <4>3, Appended
      <4> QED
        BY <4>1, <4>2, <4>3, <4>4
    <3>4. is[Len(was) + 1] = list[n] /\ \A i \in 1 .. Len(was) : is[i] = was[i]
      BY <3>1
    <3>5. \A x : x \in Range(is) <=> x \in keep /\ \E i \in 1 .. n : x = list[i]
      BY <1>2, <2>3, <2>7, <3>3
    <3>6. ASSUME NEW i \in 1 .. Len(is), NEW j \in 1 .. Len(is), i < j
          PROVE  \E k, m \in 1 .. n : k < m /\ is[i] = list[k] /\ is[j] = list[m]
      <4>1. i \in 1 .. Len(was) /\ is[i] = was[i]
        BY <2>3, <3>3, <3>4, <3>6
      <4>2. CASE j \in 1 .. Len(was)
        <5>1. PICK k, m \in 1 .. n - 1 : k < m /\ was[i] = list[k] /\ was[j] = list[m]
          BY <2>3, <3>6, <4>1, <4>2
        <5> QED
          BY <1>2, <3>4, <4>1, <4>2, <5>1
      <4>3. CASE j = Len(was) + 1
        <5>1. was[i] \in Range(was)
          BY <2>3, <4>1 DEF Range
        <5>2. PICK k \in 1 .. n - 1 : was[i] = list[k]
          BY <2>3, <5>1
        <5>3. k \in 1 .. n /\ n \in 1 .. n /\ k < n
          BY <1>2, <5>2
        <5> QED
          BY <3>4, <4>1, <4>3, <5>2, <5>3
      <4> QED
        BY <2>3, <3>3, <4>2, <4>3
    <3>7. \E i \in 1 .. n : /\ is[1] = list[i] /\ list[i] \in keep
                            /\ \A j \in 1 .. i - 1 : list[j] \notin keep
      <4>1. CASE was = <<>>
        <5>1. is[1] = list[n]
          BY <3>4, <4>1
        <5> QED
          BY <1>2, <2>4, <2>7, <4>1, <5>1
      <4>2. CASE was # <<>>
        <5>1. is[1] = was[1]
          BY <3>4, <4>2
        <5> QED
          BY <1>2, <2>5, <4>2, <5>1
      <4> QED
        BY <4>1, <4>2
    <3>8. Len(is) <= n
      BY <1>2, <2>3, <3>3
    <3>9. FoundIn(is, list, keep, n)
      BY <3>3, <3>5, <3>6, <3>7, <3>8 DEF FoundIn
    <3> QED
      BY <3>2, <3>3, <3>9
  <2> QED
    BY <2>6, <2>7
<1>5. N \in T
  <2> HIDE DEF T
  <2>1. 0 .. N \subseteq T
    BY <1>2, <1>3, <1>4, UpwardClosed
  <2> QED
    BY <1>2, <2>1
<1> QED
  BY <1>1, <1>5

\* A filtered list is a part of the list.
LEMMA FilteredFacts ==
  ASSUME NEW S, NEW list \in Seq(S), NEW keep
  PROVE  LET found == Filtered(list, keep)
         IN  /\ found \in Seq(S) /\ Len(found) \in Nat /\ Len(found) <= Len(list)
             /\ Range(found) = Range(list) \cap keep
             /\ IsInjective(list) => IsInjective(found)
             /\ found # <<>> => Head(found) \in Range(list) \cap keep
             /\ found = <<>> => Range(list) \cap keep = {}
<1>1. PICK found : found = Filtered(list, keep)
  OBVIOUS
<1>2. found \in Seq(S) /\ FoundIn(found, list, keep, Len(list))
  BY <1>1, FilteredFound
<1>3. /\ Len(list) \in Nat /\ DOMAIN list = 1 .. Len(list)
      /\ Len(found) \in Nat /\ DOMAIN found = 1 .. Len(found)
  BY <1>2
<1>4. Range(list) = {list[i] : i \in 1 .. Len(list)}
  BY <1>3 DEF Range
<1>5. Range(found) = Range(list) \cap keep
  BY <1>2, <1>4 DEF FoundIn
<1>6. ASSUME IsInjective(list) PROVE IsInjective(found)
  <2>1. \A k, m \in 1 .. Len(list) : list[k] = list[m] => k = m
    BY <1>3, <1>6 DEF IsInjective
  <2>2. ASSUME NEW i \in 1 .. Len(found), NEW j \in 1 .. Len(found), i < j PROVE found[i] # found[j]
    <3>1. PICK k, m \in 1 .. Len(list) : k < m /\ found[i] = list[k] /\ found[j] = list[m]
      BY <1>2, <2>2 DEF FoundIn
    <3> QED
      BY <1>3, <2>1, <3>1
  <2>3. \A i, j \in 1 .. Len(found) : found[i] = found[j] => i = j
    BY <1>3, <2>2
  <2> QED
    BY <1>3, <2>3 DEF IsInjective
<1>7. found # <<>> => Head(found) \in Range(found)
  BY <1>2, Headed
<1>8. found = <<>> => Range(found) = {}
  BY DEF Range
<1>9. Len(found) <= Len(list)
  BY <1>2 DEF FoundIn
<1> QED
  BY <1>1, <1>2, <1>3, <1>5, <1>6, <1>7, <1>8, <1>9

\* As long as its head stays, a filtered list may lose others.
LEMMA SameHead ==
  ASSUME NEW S, NEW list \in Seq(S), NEW keep, NEW fewer \in SUBSET keep,
         Filtered(list, keep) # <<>>, Head(Filtered(list, keep)) \in fewer
  PROVE  Filtered(list, fewer) # <<>> /\ Head(Filtered(list, fewer)) = Head(Filtered(list, keep))
<1>1. PICK found, left : found = Filtered(list, keep) /\ left = Filtered(list, fewer)
  OBVIOUS
<1>2. /\ found \in Seq(S) /\ FoundIn(found, list, keep, Len(list))
      /\ left \in Seq(S) /\ FoundIn(left, list, fewer, Len(list))
  BY <1>1, FilteredFound
<1>3. found # <<>> /\ Head(found) = found[1] /\ found[1] \in fewer
  BY <1>1, <1>2
<1>4. Len(list) \in Nat
  OBVIOUS
<1>5. PICK i \in 1 .. Len(list) : /\ found[1] = list[i] /\ list[i] \in keep
                                  /\ \A j \in 1 .. i - 1 : list[j] \notin keep
  BY <1>2, <1>3 DEF FoundIn
<1>6. left # <<>>
  BY <1>2, <1>3, <1>5 DEF FoundIn
<1>7. PICK k \in 1 .. Len(list) : /\ left[1] = list[k] /\ list[k] \in fewer
                                  /\ \A j \in 1 .. k - 1 : list[j] \notin fewer
  BY <1>2, <1>6 DEF FoundIn
<1>8. ~(i < k) /\ ~(k < i)
  BY <1>3, <1>4, <1>5, <1>7
<1>9. left[1] = found[1]
  BY <1>4, <1>5, <1>7, <1>8
<1>10. Head(left) = left[1]
  BY <1>2, <1>6
<1> QED
  BY <1>1, <1>3, <1>6, <1>9, <1>10

-------------------------------------------------------------------------------
(* Counting rows.                                                            *)

Runs == [id : Nat, decode : BOOLEAN, start : Nat, len : Nat \ {0}]

\* f counts the rows of the first n entries of a batch.
Counts(f, chunks, decode) ==
  /\ f[0] = 0
  /\ \A n \in 1 .. Len(chunks) :
       f[n] = f[n - 1] + (IF chunks[n].decode \in decode THEN chunks[n].len ELSE 0)

\* The recursion has a solution, and RowsOf is its last value.
LEMMA CountExists ==
  ASSUME NEW chunks \in Seq(Runs), NEW decode
  PROVE  \E f : /\ Counts(f, chunks, decode) /\ RowsOf(chunks, decode) = f[Len(chunks)]
                /\ \A n \in 0 .. Len(chunks) : f[n] \in Nat
<1> DEFINE N == Len(chunks)
           rows(n) == IF chunks[n].decode \in decode THEN chunks[n].len ELSE 0
           P(g) == g = [n \in 0 .. N |-> IF n = 0 THEN 0 ELSE g[n - 1] + rows(n)]
           step == [p \in (1 .. N) \X Nat |-> p[2] + rows(p[1])]
<1>1. N \in Nat /\ \A n \in 1 .. N : chunks[n] \in Runs
  OBVIOUS
<1>2. \A n \in 1 .. N : rows(n) \in Nat
  BY <1>1 DEF Runs
<1> HIDE DEF N, rows
<1>3. \A n \in 1 .. N : \A x \in Nat : step[<<n, x>>] = x + rows(n)
  OBVIOUS
<1> HIDE DEF step
<1>4. Maintains(step, N, Nat)
  <2>1. ASSUME NEW n \in 1 .. N, NEW x \in Nat PROVE step[<<n, x>>] \in Nat
    <3>1. step[<<n, x>>] = x + rows(n) /\ rows(n) \in Nat
      BY <1>2, <1>3
    <3> QED
      BY <3>1
  <2> QED
    BY <2>1 DEF Maintains
<1>5. PICK f \in [0 .. N -> Nat] : Follows(f, 0, step, N)
  BY <1>1, <1>4, Recursion
<1>6. f[0] = 0 /\ \A n \in 1 .. N : f[n] = f[n - 1] + rows(n)
  <2>1. \A n \in 1 .. N : f[n - 1] \in Nat
    BY <1>1, <1>5
  <2> QED
    BY <1>3, <1>5, <2>1 DEF Follows
<1>7. P(f)
  <2> DEFINE g == [n \in 0 .. N |-> IF n = 0 THEN 0 ELSE f[n - 1] + rows(n)]
  <2>1. \A n \in 0 .. N : f[n] = g[n]
    BY <1>1, <1>6
  <2>2. DOMAIN f = 0 .. N /\ f = [n \in 0 .. N |-> f[n]]
    BY <1>5
  <2>3. f = g
    BY <2>1, <2>2
  <2> QED
    BY <2>3
<1> DEFINE h == CHOOSE g : P(g)
<1>8. RowsOf(chunks, decode) = h[N]
  BY DEF RowsOf, N, rows
<1>9. P(h)
  <2> HIDE DEF P
  <2> QED
    BY <1>7 DEF h
<1> HIDE DEF h
<1>10. h[0] = 0 /\ \A n \in 1 .. N : h[n] = h[n - 1] + rows(n)
  BY <1>1, <1>9
<1>11. \A n \in 0 .. N : h[n] \in Nat
  <2> DEFINE T == {n \in 0 .. N : h[n] \in Nat}
  <2>1. 0 \in T
    BY <1>1, <1>10
  <2>2. \A n \in 1 .. N : n - 1 \in T => n \in T
    BY <1>1, <1>2, <1>10
  <2>3. 0 .. N \subseteq T
    <3> HIDE DEF T
    <3> QED
      BY <1>1, <2>1, <2>2, UpwardClosed
  <2> QED
    BY <2>3
<1> QED
  BY <1>8, <1>10, <1>11 DEF Counts, N, rows

\* Rows of no batch, and of a batch with one more entry.
LEMMA RowsFacts ==
  ASSUME NEW chunks \in Seq(Runs), NEW decode
  PROVE  /\ RowsOf(chunks, decode) \in Nat
         /\ chunks = <<>> => RowsOf(chunks, decode) = 0
         /\ \A chunk \in Runs :
              RowsOf(Append(chunks, chunk), decode)
                = RowsOf(chunks, decode) + (IF chunk.decode \in decode THEN chunk.len ELSE 0)
<1>1. PICK f : /\ Counts(f, chunks, decode) /\ RowsOf(chunks, decode) = f[Len(chunks)]
               /\ \A n \in 0 .. Len(chunks) : f[n] \in Nat
  BY CountExists
<1>2. Len(chunks) \in Nat
  OBVIOUS
<1>3. ASSUME NEW chunk \in Runs
      PROVE  RowsOf(Append(chunks, chunk), decode)
               = RowsOf(chunks, decode) + (IF chunk.decode \in decode THEN chunk.len ELSE 0)
  <2>1. PICK more : more = Append(chunks, chunk)
    OBVIOUS
  <2>2. /\ more \in Seq(Runs) /\ Len(more) = Len(chunks) + 1
        /\ \A n \in 1 .. Len(chunks) : more[n] = chunks[n]
        /\ more[Len(chunks) + 1] = chunk
    BY <2>1
  <2>3. PICK g : /\ Counts(g, more, decode) /\ RowsOf(more, decode) = g[Len(more)]
                 /\ \A n \in 0 .. Len(more) : g[n] \in Nat
    BY <2>2, CountExists
  <2> DEFINE N == Len(chunks)
             T == {n \in 0 .. N : f[n] = g[n]}
  <2>4. 0 \in T
    BY <1>1, <1>2, <2>3 DEF Counts
  <2>5. ASSUME NEW n \in 1 .. N, n - 1 \in T PROVE n \in T
    <3>1. f[n - 1] = g[n - 1] /\ n \in 1 .. Len(more) /\ more[n] = chunks[n]
      BY <1>2, <2>2, <2>5
    <3>2. f[n] = f[n - 1] + (IF chunks[n].decode \in decode THEN chunks[n].len ELSE 0)
      BY <1>1 DEF Counts
    <3>3. g[n] = g[n - 1] + (IF more[n].decode \in decode THEN more[n].len ELSE 0)
      BY <2>3, <3>1 DEF Counts
    <3> QED
      BY <1>2, <3>1, <3>2, <3>3
  <2>6. N \in T
    <3>1. 0 .. N \subseteq T
      <4> HIDE DEF T
      <4> QED
        BY <1>2, <2>4, <2>5, UpwardClosed
    <3> QED
      BY <1>2, <3>1
  <2>7. g[Len(more)] = g[N] + (IF chunk.decode \in decode THEN chunk.len ELSE 0)
    BY <1>2, <2>2, <2>3 DEF Counts
  <2> QED
    BY <1>1, <2>1, <2>3, <2>6, <2>7
<1>4. chunks = <<>> => RowsOf(chunks, decode) = 0
  BY <1>1 DEF Counts
<1> QED
  BY <1>1, <1>2, <1>3, <1>4

-------------------------------------------------------------------------------
(* The invariant.                                                            *)

\* The requests add_request accepts.
Accepted == {q \in Requests : Len(q.prompt) \in 1 .. MaxSeqLen - 1}

States == {"WAITING", "RUNNING", "PREEMPTED", "FINISHED"}
Passes == {"decode", "prefill"}
Phases == {"idle", "admit", "mount", "execute", "abort", "record", "update", "flush"} \cup Passes

Records(S) ==
  [prompt : {q.prompt : q \in Accepted}, eos : Nat \ {0}, max_gen : 1 .. MaxGenLen, state : States,
   row : Rows \cup {-1}, blocks : Nat, prefilled : Nat, generated : Nat, preempts : Nat,
   chain : Seq(S)]

Typed ==
  /\ next_seq_id \in Nat
  /\ \E S : seqs \in [DOMAIN seqs -> Records(S)]
  /\ \A id \in DOMAIN seqs : id \in Nat /\ id < next_seq_id
  /\ \A id \in DOMAIN seqs : NumPrompt(seqs[id]) + seqs[id].max_gen <= MaxSeqLen
  /\ waiting \in Seq(Nat) /\ running \in Seq(Nat) /\ todo \in Seq(Nat)
  /\ batch \in Seq(Runs)
  /\ victims \in Seq(Nat \X Nat)
  /\ phase \in Phases
  /\ phase \notin Passes => todo = <<>> /\ victims = <<>>
  /\ phase \notin Passes \cup {"execute"} => batch = <<>>

\* The lists of the scheduler.
Queues ==
  /\ IsInjective(waiting) /\ IsInjective(running) /\ IsInjective(todo)
  /\ Range(waiting) \subseteq DOMAIN seqs /\ Range(running) \subseteq DOMAIN seqs
  /\ Range(waiting) \cap Range(running) = {}
  /\ Range(todo) \subseteq Range(running)
  /\ Len(running) <= MaxBatch
  /\ \A id \in DOMAIN seqs : id \in Live \/ seqs[id].state = "FINISHED"
  /\ \A id \in Range(waiting) : seqs[id].state \in {"WAITING", "PREEMPTED"}
  /\ \A id \in Range(running) : seqs[id].state # "WAITING"
  /\ phase \in {"idle", "admit", "mount"} =>
       \A id \in Range(running) : seqs[id].state = "RUNNING"
  /\ phase = "flush" => \A id \in Range(running) : seqs[id].state # "FINISHED"
  /\ phase = "mount" =>
       waiting # <<>> /\ seqs[Head(waiting)].state = "WAITING" /\ Len(running) < MaxBatch

\* Those that had to yield wait in front, the others in the order they came.
Ordered ==
  \A i, j \in 1 .. Len(waiting) : i < j =>
    /\ seqs[waiting[j]].state = "PREEMPTED" => seqs[waiting[i]].state = "PREEMPTED"
    /\ seqs[waiting[i]].state = "WAITING" => waiting[i] < waiting[j]

\* The admission has claimed a row for the head of the queue.
Mounting(id) == phase = "mount" /\ id = Head(waiting)

\* Who holds which row.
Holdings ==
  /\ \A id, other \in Live :
       seqs[id].row # -1 /\ seqs[id].row = seqs[other].row => id = other
  /\ \A r \in Rows : row_busy[r] <=> \E id \in Live : seqs[id].row = r
  /\ \A id \in Live :
       /\ seqs[id].row = -1 <=> seqs[id].state = "WAITING" /\ ~Mounting(id)
       /\ seqs[id].row # -1 => seqs[id].blocks = Len(Table(id))
       /\ seqs[id].state = "WAITING" =>
            /\ seqs[id].blocks = 0 /\ seqs[id].prefilled = 0
            /\ seqs[id].generated = 0 /\ seqs[id].chain = <<>>

\* The pass is at a sequence.
AtSequence == phase \in Passes /\ Serving # <<>> /\ BatchHasRoom
Served(id) == AtSequence /\ id = Head(Serving)

\* How far a sequence has come.
Measured ==
  \A id \in DOMAIN seqs :
    LET s == seqs[id]
    IN  /\ s.prefilled <= NumPrompt(s)
        /\ s.generated > 0 => Complete(s)
        /\ s.generated <= Target(s)
        /\ Len(s.chain) * BlockSize <= s.prefilled
        /\ s.state \in {"WAITING", "PREEMPTED"} => s.generated < Target(s)
        /\ s.state = "RUNNING" /\ phase \notin {"record", "update"} => s.generated < Target(s)

\* A sequence has the blocks for what it has prefilled, and no block it does
\* not need, but for those the pass has just given it.
Provided ==
  \A id \in Live :
    LET s == seqs[id]
    IN  /\ s.prefilled <= s.blocks * BlockSize
        /\ ~Complete(s) /\ s.state # "FINISHED" =>
             s.blocks * BlockSize <=
               s.prefilled + BlockSize + (IF Served(id) THEN ChunkLen(s) - 1 ELSE 0)

\* The rows placed so far.
Batched ==
  /\ \A i, j \in 1 .. Len(batch) : batch[i].id = batch[j].id => i = j
  /\ \A i \in 1 .. Len(batch) :
       LET chunk == batch[i]
           s == seqs[chunk.id]
       IN  /\ chunk.id \in Range(running) \ Range(todo)
           /\ s.state = "RUNNING"
           /\ chunk.decode =>
                /\ Complete(s)
                /\ chunk.start = DecodePosition(s) /\ chunk.len = 1
                /\ chunk.start < s.blocks * BlockSize
           /\ ~chunk.decode => chunk.start + chunk.len = s.prefilled
  /\ \A i, j \in 1 .. Len(batch) : i < j /\ batch[j].decode => batch[i].decode
  /\ phase = "decode" => \A i \in 1 .. Len(batch) : batch[i].decode
  /\ BatchRows <= RowCap

\* The cuts that are planned.
Planned ==
  /\ victims # <<>> => AtSequence
  /\ \A i, j \in 1 .. Len(victims) : victims[i][1] = victims[j][1] => i = j
  /\ \A i \in 1 .. Len(victims) :
       LET id == victims[i][1]
       IN  /\ id \in Range(running) /\ seqs[id].state = "RUNNING"
           /\ ~InBatch(id) /\ id # Head(Serving)
           /\ victims[i][2] \in 1 .. seqs[id].blocks - 1

\* In a pool with a full table's worth of blocks per row.
Roomy == NumBlocks >= NumRows * MaxBlocksPerSeq
Unhurried ==
  Roomy => /\ victims = <<>>
           /\ \A id \in DOMAIN seqs : seqs[id].preempts = 0
           /\ \A id \in Live : seqs[id].state \in {"WAITING", "RUNNING"}

\* A forward pass fails only where no sequence is finished for want of a block:
\* force_finish_all would drop that one with its row.  KVManager's pool is Roomy.
AbortsClean == ForwardMayFail => Roomy
Aborting == phase = "abort" => ForwardMayFail

\* Without the cache nothing is ever recorded.
Uncached == ~CacheOn => DOMAIN entries = {}

Base ==
  /\ Typed /\ Queues /\ Ordered /\ Holdings /\ Measured /\ Provided /\ Batched
  /\ Planned /\ Unhurried /\ Aborting /\ Uncached

-------------------------------------------------------------------------------
(* Sizes and records.                                                        *)

\* The smaller of two numbers.
LEMMA MinOfTwo ==
  ASSUME NEW a \in Int, NEW b \in Int
  PROVE  Min({a, b}) = IF a <= b THEN a ELSE b
BY DEF Min

\* The larger of two numbers.
LEMMA MaxOfTwo ==
  ASSUME NEW a \in Int, NEW b \in Int
  PROVE  Max({a, b}) = IF a >= b THEN a ELSE b
BY DEF Max

\* The smallest of three numbers.
LEMMA MinOfThree ==
  ASSUME NEW a \in Int, NEW b \in Int, NEW c \in Int
  PROVE  LET m == Min({a, b, c})
         IN  m \in {a, b, c} /\ m <= a /\ m <= b /\ m <= c
<1>1. \E x \in {a, b, c} : \A y \in {a, b, c} : x <= y
  OBVIOUS
<1> QED
  BY <1>1 DEF Min

\* What the configuration gives.
LEMMA Sizes ==
  /\ BlockSize \in Nat /\ BlockSize > 0
  /\ MaxBatch \in Nat /\ MaxBatch > 0 /\ NumRows = MaxBatch
  /\ MaxSeqLen \in Nat /\ MaxSeqLen > 0 /\ MaxGenLen \in Nat /\ MaxGenLen > 0
  /\ PrefillReserve \in Nat /\ PrefillReserve > 0 /\ HistoryLimit \in Nat
  /\ MaxBlocksPerSeq \in Nat /\ NumBlocks \in Nat
  /\ RowCap \in Nat /\ RowCap = MaxBatch + PrefillReserve
  /\ \A n \in Nat : n <= MaxSeqLen => n <= MaxBlocksPerSeq * BlockSize
<1>1. MaxBlocksPerSeq = CeilDiv(MaxSeqLen, BlockSize)
  BY SchedulerSizes DEF CeilDiv
<1>2. MaxBlocksPerSeq \in Nat
  BY <1>1, SchedulerSizes, FitInBlocks
<1>3. MaxSeqLen <= MaxBlocksPerSeq * BlockSize
  BY <1>1, <1>2, SchedulerSizes, FitInBlocks
<1>4. MaxBlocksPerSeq * BlockSize \in Nat
  BY <1>2, SchedulerSizes
<1>5. NumBlocks \in Nat
  BY PoolSized DEF PP!PoolSizes
<1> QED
  BY <1>2, <1>3, <1>4, <1>5, SchedulerSizes DEF RowCap

\* A sequence's record.
LEMMA RecordFacts ==
  ASSUME NEW S, NEW s \in Records(S)
  PROVE  /\ s.eos \in Nat \ {0} /\ s.max_gen \in 1 .. MaxGenLen /\ s.state \in States
         /\ s.row \in Rows \cup {-1} /\ s.blocks \in Nat /\ s.prefilled \in Nat
         /\ s.generated \in Nat /\ s.preempts \in Nat
         /\ s.chain \in Seq(S) /\ Len(s.chain) \in Nat
         /\ NumPrompt(s) \in 1 .. MaxSeqLen - 1
         /\ Target(s) \in 1 .. MaxGenLen
         /\ Target(s) = IF s.max_gen <= s.eos THEN s.max_gen ELSE s.eos
         /\ Complete(s) <=> s.prefilled >= NumPrompt(s)
<1>1. /\ s.eos \in Nat \ {0} /\ s.max_gen \in 1 .. MaxGenLen /\ s.state \in States
      /\ s.row \in Rows \cup {-1} /\ s.blocks \in Nat /\ s.prefilled \in Nat
      /\ s.generated \in Nat /\ s.preempts \in Nat
      /\ s.chain \in Seq(S) /\ s.prompt \in {q.prompt : q \in Accepted}
  BY DEF Records
<1>2. NumPrompt(s) \in 1 .. MaxSeqLen - 1
  BY <1>1 DEF Accepted, NumPrompt
<1>3. Target(s) = IF s.max_gen <= s.eos THEN s.max_gen ELSE s.eos
  BY <1>1, MinOfTwo DEF Target
<1>4. Target(s) \in 1 .. MaxGenLen
  BY <1>1, <1>3, Sizes
<1> QED
  BY <1>1, <1>2, <1>3, <1>4 DEF Complete

\* What the invariant gives for a sequence.
Sound(s) ==
  /\ s.eos \in Nat \ {0} /\ s.max_gen \in 1 .. MaxGenLen /\ s.state \in States
  /\ s.row \in Rows \cup {-1} /\ s.blocks \in Nat /\ s.prefilled \in Nat
  /\ s.generated \in Nat /\ s.preempts \in Nat /\ Len(s.chain) \in Nat
  /\ NumPrompt(s) \in 1 .. MaxSeqLen - 1
  /\ Target(s) \in 1 .. MaxGenLen
  /\ Target(s) = IF s.max_gen <= s.eos THEN s.max_gen ELSE s.eos
  /\ Complete(s) <=> s.prefilled >= NumPrompt(s)
  /\ s.blocks * BlockSize \in Nat

\* Every sequence is sound, and the counts of rows are numbers.
LEMMA TypedFacts ==
  ASSUME Typed
  PROVE  /\ \A id \in DOMAIN seqs : /\ Sound(seqs[id]) /\ id \in Nat
                                    /\ NumPrompt(seqs[id]) + seqs[id].max_gen <= MaxSeqLen
         /\ BatchRows \in Nat /\ PrefillTaken \in Nat
         /\ batch = <<>> => BatchRows = 0
<1>1. PICK S : seqs \in [DOMAIN seqs -> Records(S)]
  BY DEF Typed
<1>2. ASSUME NEW id \in DOMAIN seqs
      PROVE  Sound(seqs[id])
  <2>1. PICK s \in Records(S) : s = seqs[id]
    BY <1>1
  <2>2. Sound(s)
    BY RecordFacts, Sizes DEF Sound
  <2> QED
    BY <2>1, <2>2
<1>3. BatchRows \in Nat /\ PrefillTaken \in Nat /\ (batch = <<>> => BatchRows = 0)
  BY RowsFacts DEF Typed, BatchRows, PrefillTaken
<1> QED
  BY <1>2, <1>3 DEF Typed

\* The sequence a pass is at is running, and the budget leaves it a chunk.
LEMMA ServedFacts ==
  ASSUME Typed, Queues, AtSequence
  PROVE  LET id == Head(Serving)
         IN  /\ id \in Range(todo) /\ id \in Range(running) /\ id \in DOMAIN seqs /\ id \in Live
             /\ seqs[id].state = "RUNNING"
             /\ Complete(seqs[id]) <=> phase = "decode"
             /\ phase = "prefill" =>
                  /\ ChunkLen(seqs[id]) \in 1 .. NumPrompt(seqs[id]) - seqs[id].prefilled
                  /\ ChunkLen(seqs[id]) <= RowCap - BatchRows
             /\ phase = "decode" => BatchRows < MaxBatch
             /\ Tail(Serving) \in Seq(Nat) /\ IsInjective(Tail(Serving))
             /\ Range(Tail(Serving)) = Range(Serving) \ {id}
             /\ Range(Serving) \subseteq Range(todo)
<1> DEFINE keep == {id \in DOMAIN seqs : /\ seqs[id].state = "RUNNING"
                                         /\ Complete(seqs[id]) <=> phase = "decode"}
<1>1. Serving = Filtered(todo, keep) /\ Serving # <<>>
  BY DEF Serving, AtSequence
<1>2. todo \in Seq(Nat) /\ IsInjective(todo) /\ Range(todo) \subseteq Range(running)
  BY DEF Typed, Queues
<1>3. PICK list : list = Serving
  OBVIOUS
<1>4. /\ list \in Seq(Nat) /\ IsInjective(list) /\ Range(list) = Range(todo) \cap keep
      /\ Head(list) \in Range(todo) \cap keep
  <2> HIDE DEF keep
  <2> QED
    BY <1>1, <1>2, <1>3, FilteredFacts
<1>5. /\ Tail(list) \in Seq(Nat) /\ IsInjective(Tail(list))
      /\ Range(Tail(list)) = Range(list) \ {Head(list)}
  BY <1>1, <1>3, <1>4, Headed
<1>6. PICK id : id = Head(list)
  OBVIOUS
<1>7. /\ id \in Range(todo) /\ id \in Range(running) /\ id \in DOMAIN seqs /\ id \in Live
      /\ seqs[id].state = "RUNNING" /\ (Complete(seqs[id]) <=> phase = "decode")
  <2>1. id \in Range(todo) /\ id \in keep
    BY <1>4, <1>6, Zenon
  <2>2. id \in DOMAIN seqs /\ seqs[id].state = "RUNNING"
    BY <2>1, Zenon
  <2>3. Complete(seqs[id]) <=> phase = "decode"
    BY <2>1, Zenon
  <2> QED
    BY <1>2, <2>1, <2>2, <2>3 DEF Live
<1>8. Sound(seqs[id]) /\ BatchRows \in Nat /\ PrefillTaken \in Nat
  BY <1>7, TypedFacts
<1>9. ASSUME phase = "prefill"
      PROVE  /\ ChunkLen(seqs[id]) \in 1 .. NumPrompt(seqs[id]) - seqs[id].prefilled
             /\ ChunkLen(seqs[id]) <= RowCap - BatchRows
  <2>1. PrefillTaken < PrefillReserve /\ BatchRows < RowCap
    BY <1>9 DEF AtSequence, BatchHasRoom
  <2>2. seqs[id].prefilled < NumPrompt(seqs[id])
    BY <1>7, <1>8, <1>9 DEF Sound
  <2> DEFINE a == Remaining(seqs[id])
             b == PrefillReserve - PrefillTaken
             c == RowCap - BatchRows
  <2>3. a \in Int /\ b \in Int /\ c \in Int /\ a >= 1 /\ b >= 1 /\ c >= 1
    BY <1>8, <2>1, <2>2, Sizes DEF Sound, Remaining
  <2>4. ChunkLen(seqs[id]) = Min({a, b, c})
    BY DEF ChunkLen
  <2>5. Min({a, b, c}) \in {a, b, c} /\ Min({a, b, c}) <= a /\ Min({a, b, c}) <= c
    <3> HIDE DEF a, b, c
    <3> QED
      BY <2>3, MinOfThree
  <2> QED
    BY <1>8, <2>3, <2>4, <2>5 DEF Remaining, Sound
<1>10. phase = "decode" => BatchRows < MaxBatch
  BY DEF AtSequence, BatchHasRoom
<1> QED
  BY <1>3, <1>4, <1>5, <1>6, <1>7, <1>9, <1>10

\* The same after a step.
LEMMA TypedFactsNext ==
  Typed' => /\ \A id \in DOMAIN seqs' : /\ Sound(seqs'[id]) /\ id \in Nat
                                        /\ NumPrompt(seqs'[id]) + seqs'[id].max_gen <= MaxSeqLen
            /\ BatchRows' \in Nat /\ PrefillTaken' \in Nat
            /\ batch' = <<>> => BatchRows' = 0
<1> DEFINE P == /\ \A id \in DOMAIN seqs : /\ Sound(seqs[id]) /\ id \in Nat
                                           /\ NumPrompt(seqs[id]) + seqs[id].max_gen <= MaxSeqLen
                /\ BatchRows \in Nat /\ PrefillTaken \in Nat
                /\ batch = <<>> => BatchRows = 0
<1>1. Typed => P
  BY TypedFacts
<1>2. Typed' => P'
  BY <1>1, PTL
<1> QED
  BY <1>2

\* The sequence a pass is at has a chunk to prefill, or decodes.
ServedRoom ==
  \A id \in DOMAIN seqs : Served(id) /\ ~Complete(seqs[id]) =>
    ChunkLen(seqs[id]) >= 1 /\ ChunkLen(seqs[id]) \in Int

\* The invariant sees to that.
LEMMA RoomForServed == Typed /\ Queues => ServedRoom
<1> SUFFICES ASSUME Typed, Queues, NEW id \in DOMAIN seqs, Served(id), ~Complete(seqs[id])
             PROVE  ChunkLen(seqs[id]) >= 1 /\ ChunkLen(seqs[id]) \in Int
  BY DEF ServedRoom
<1>1. AtSequence /\ id = Head(Serving) /\ phase \in Passes
  BY DEF Served, AtSequence
<1>2. phase = "prefill"
  BY <1>1, ServedFacts DEF Passes
<1>3. Sound(seqs[id])
  BY TypedFacts
<1> QED
  BY <1>1, <1>2, <1>3, ServedFacts DEF Sound

\* The same after a step.
LEMMA RoomForServedNext == Typed' /\ Queues' => ServedRoom'
BY RoomForServed, PTL

-------------------------------------------------------------------------------
(* Parts of the invariant that a step leaves alone.                          *)

\* The queue's order depends on the states of those in it.
LEMMA OrderedStill ==
  ASSUME Ordered, waiting \in Seq(Nat), waiting' = waiting,
         \A id \in Range(waiting) : seqs'[id].state = seqs[id].state
  PROVE  Ordered'
<1>1. \A i \in 1 .. Len(waiting) : waiting[i] \in Range(waiting)
  BY DEF Range
<1> QED
  BY <1>1 DEF Ordered

\* Nobody's row moves.
LEMMA HoldingsStill ==
  ASSUME Holdings, Live' = Live, block_tables' = block_tables, row_busy' = row_busy,
         phase # "mount", phase' # "mount",
         \A id \in Live : /\ seqs'[id].row = seqs[id].row
                          /\ seqs'[id].blocks = seqs[id].blocks
                          /\ seqs'[id] = seqs[id]
                               \/ (seqs[id].state # "WAITING" /\ seqs'[id].state # "WAITING")
  PROVE  Holdings'
<1>1. \A id \in Live : ~Mounting(id) /\ ~Mounting(id)'
  BY DEF Mounting
<1>2. \A id \in Live : seqs[id].row = -1 <=> seqs[id].state = "WAITING"
  BY <1>1 DEF Holdings
<1>3. Rows' = Rows
  BY DEF Rows, Pool!Rows
<1>4. \A id \in Live : Table(id)' = Table(id)
  BY DEF Table
<1>5. \A id \in Live : seqs'[id].row = -1 <=> seqs'[id].state = "WAITING"
  BY <1>2
<1>6. \A id, other \in Live :
        seqs'[id].row # -1 /\ seqs'[id].row = seqs'[other].row => id = other
  BY DEF Holdings
<1>7. \A r \in Rows : row_busy[r] <=> \E id \in Live : seqs'[id].row = r
  BY DEF Holdings
<1>8. \A id \in Live : seqs'[id].row # -1 => seqs'[id].blocks = Len(Table(id))
  BY DEF Holdings
<1>9. \A id \in Live : seqs'[id].state = "WAITING" =>
            /\ seqs'[id].blocks = 0 /\ seqs'[id].prefilled = 0
            /\ seqs'[id].generated = 0 /\ seqs'[id].chain = <<>>
  BY DEF Holdings
<1> QED
  BY <1>1, <1>3, <1>4, <1>5, <1>6, <1>7, <1>8, <1>9 DEF Holdings

\* No sequence moves.
LEMMA MeasuredStill ==
  ASSUME Measured, seqs' = seqs, phase' \notin {"record", "update"} => phase \notin {"record", "update"}
  PROVE  Measured'
BY DEF Measured, NumPrompt, Complete, Target

\* A sequence that needs all its blocks, or is being served, may keep them.
LEMMA ProvidedNext ==
  ASSUME Typed', Queues',
         \A id \in Live' : seqs'[id].prefilled <= seqs'[id].blocks * BlockSize,
         \A id \in Live' : ~Complete(seqs'[id]) /\ seqs'[id].state # "FINISHED" =>
           \/ seqs'[id].blocks * BlockSize <= seqs'[id].prefilled + BlockSize
           \/ /\ Served(id)'
              /\ seqs'[id].blocks * BlockSize
                   <= seqs'[id].prefilled + BlockSize + (ChunkLen(seqs[id])' - 1)
  PROVE  Provided'
<1> SUFFICES ASSUME NEW id \in Live', ~Complete(seqs'[id]), seqs'[id].state # "FINISHED"
             PROVE  seqs'[id].blocks * BlockSize <= seqs'[id].prefilled + BlockSize
                      + (IF Served(id)' THEN ChunkLen(seqs[id])' - 1 ELSE 0)
  BY DEF Provided, Complete, NumPrompt
<1>1. id \in DOMAIN seqs'
  BY DEF Queues, Live
<1>2. Served(id)' => ChunkLen(seqs[id])' >= 1 /\ ChunkLen(seqs[id])' \in Int
  BY <1>1, RoomForServedNext DEF ServedRoom, Complete, NumPrompt
<1>3. /\ seqs'[id].blocks * BlockSize \in Nat /\ seqs'[id].prefilled \in Nat /\ BlockSize \in Nat
  BY <1>1, TypedFactsNext, Sizes DEF Sound
<1> QED
  BY <1>2, <1>3

\* Without a batch there is nothing to ask of it.
LEMMA BatchEmpty ==
  ASSUME Typed', batch' = <<>>
  PROVE  Batched'
<1>1. BatchRows' = 0
  BY TypedFactsNext
<1>2. RowCap' = RowCap /\ 0 <= RowCap
  BY Sizes DEF RowCap
<1>3. Len(batch') = 0
  OBVIOUS
<1> QED
  BY <1>1, <1>2, <1>3 DEF Batched

\* The batch stays, and so do the sequences in it.
LEMMA BatchStill ==
  ASSUME Batched, batch' = batch, batch \in Seq(Runs), phase' = "decode" => phase = "decode",
         \A i \in 1 .. Len(batch) :
           /\ seqs'[batch[i].id] = seqs[batch[i].id]
           /\ batch[i].id \in Range(running') \ Range(todo')
  PROVE  Batched'
<1>1. BatchRows' = BatchRows /\ RowCap' = RowCap
  BY DEF BatchRows, RowCap
<1>2. \A i \in 1 .. Len(batch) :
        /\ Complete(seqs'[batch[i].id]) <=> Complete(seqs[batch[i].id])
        /\ DecodePosition(seqs'[batch[i].id]) = DecodePosition(seqs[batch[i].id])
  BY DEF Complete, DecodePosition, NumPrompt
<1>3. \A i, j \in 1 .. Len(batch) : batch[i].id = batch[j].id => i = j
  BY DEF Batched
<1>4. ASSUME NEW i \in 1 .. Len(batch)
      PROVE  LET chunk == batch[i]
                 s == seqs'[chunk.id]
             IN  /\ chunk.id \in Range(running') \ Range(todo')
                 /\ s.state = "RUNNING"
                 /\ chunk.decode =>
                      /\ Complete(s)
                      /\ chunk.start = DecodePosition(s) /\ chunk.len = 1
                      /\ chunk.start < s.blocks * BlockSize
                 /\ ~chunk.decode => chunk.start + chunk.len = s.prefilled
  BY <1>2 DEF Batched
<1>5. \A i, j \in 1 .. Len(batch) : i < j /\ batch[j].decode => batch[i].decode
  BY DEF Batched
<1>6. phase' = "decode" => \A i \in 1 .. Len(batch) : batch[i].decode
  BY DEF Batched
<1>7. BatchRows' <= RowCap'
  BY <1>1 DEF Batched
<1> QED
  BY <1>3, <1>4, <1>5, <1>6, <1>7 DEF Batched, Complete, DecodePosition, NumPrompt

\* Nothing is planned.
LEMMA PlannedNone ==
  ASSUME victims' = <<>>
  PROVE  Planned'
<1>1. Len(victims') = 0
  OBVIOUS
<1> QED
  BY <1>1 DEF Planned

\* Nobody is hurried.
LEMMA UnhurriedStill ==
  ASSUME Unhurried, victims' = victims \/ victims' = <<>>,
         \A id \in DOMAIN seqs' : id \in DOMAIN seqs /\ seqs'[id].preempts = seqs[id].preempts,
         \A id \in Live' : id \in Live /\ seqs'[id].state \in {seqs[id].state, "RUNNING"}
  PROVE  Unhurried'
BY DEF Unhurried, Roomy

-------------------------------------------------------------------------------
(* Steps that leave the sequences and their rows alone.                      *)

\* Those steps keep the queue's order, the rows and the cache's use.
LEMMA StillFacts ==
  ASSUME Base, UNCHANGED cache_vars, seqs' = seqs, waiting' = waiting, running' = running,
         phase # "mount", phase' # "mount"
  PROVE  Live' = Live /\ Ordered' /\ Holdings' /\ Uncached'
<1>1. Live' = Live
  BY DEF Live
<1>2. Ordered'
  BY OrderedStill DEF Base, Typed
<1>3. block_tables' = block_tables /\ row_busy' = row_busy /\ entries' = entries
  BY DEF cache_vars, pool_vars
<1>4. \A id \in Live : /\ seqs'[id].row = seqs[id].row
                       /\ seqs'[id].blocks = seqs[id].blocks
                       /\ seqs'[id] = seqs[id]
                            \/ (seqs[id].state # "WAITING" /\ seqs'[id].state # "WAITING")
  OBVIOUS
<1>5. Holdings
  BY DEF Base
<1>6. Holdings'
  BY <1>1, <1>3, <1>4, <1>5, HoldingsStill, Zenon
<1> QED
  BY <1>1, <1>2, <1>3, <1>6 DEF Uncached, Base

\* What a sequence has is what it needs, unless the pass is at it.
LEMMA ProvidedFacts ==
  ASSUME Base, NEW id \in Live
  PROVE  /\ Sound(seqs[id]) /\ id \in DOMAIN seqs
         /\ seqs[id].prefilled <= seqs[id].blocks * BlockSize
         /\ ~Complete(seqs[id]) /\ seqs[id].state # "FINISHED" /\ ~Served(id) =>
              seqs[id].blocks * BlockSize <= seqs[id].prefilled + BlockSize
         /\ ~Complete(seqs[id]) /\ Served(id) =>
              seqs[id].blocks * BlockSize
                <= seqs[id].prefilled + BlockSize + (ChunkLen(seqs[id]) - 1)
<1>1. id \in DOMAIN seqs
  BY DEF Base, Queues, Live
<1>2. Sound(seqs[id])
  BY <1>1, TypedFacts DEF Base
<1>3. Served(id) => seqs[id].state # "FINISHED"
  BY ServedFacts DEF Served, Base
<1>4. seqs[id].prefilled \in Nat /\ BlockSize \in Nat
  BY <1>2, Sizes DEF Sound
<1> QED
  BY <1>1, <1>2, <1>3, <1>4 DEF Base, Provided

\* Nobody is being served between passes, nor when one ends.
LEMMA NotServed ==
  ASSUME phase \notin Passes \/ ~(Serving # <<>> /\ BatchHasRoom)
  PROVE  \A id : ~Served(id)
BY DEF Served, AtSequence

\* A step from one phase to the next: what it has to see to.
LEMMA PhaseKeeps ==
  ASSUME Base, UNCHANGED cache_vars, seqs' = seqs, waiting' = waiting, running' = running,
         phase # "mount", phase' # "mount", \A id : ~Served(id),
         phase' = "abort" => ForwardMayFail, Typed', Queues', Measured', victims' = <<>>,
         batch' = <<>> \/ Batched'
  PROVE  Base'
<1>1. Live' = Live /\ Ordered' /\ Holdings' /\ Uncached'
  BY StillFacts
<1>2. Provided'
  BY <1>1, ProvidedFacts, ProvidedNext DEF Complete, NumPrompt
<1>3. Unhurried'
  BY <1>1, UnhurriedStill DEF Base
<1>4. Batched'
  BY BatchEmpty
<1> QED
  BY <1>1, <1>2, <1>3, <1>4, PlannedNone DEF Base, Aborting

\* What the invariant says of the lists, one by one.
LEMMA ListFacts ==
  ASSUME Base
  PROVE  /\ waiting \in Seq(Nat) /\ running \in Seq(Nat) /\ todo \in Seq(Nat)
         /\ batch \in Seq(Runs) /\ victims \in Seq(Nat \X Nat)
         /\ IsInjective(waiting) /\ IsInjective(running) /\ IsInjective(todo)
         /\ Range(waiting) \subseteq DOMAIN seqs /\ Range(running) \subseteq DOMAIN seqs
         /\ Range(waiting) \cap Range(running) = {}
         /\ Live = Range(waiting) \cup Range(running)
         /\ Range(todo) \subseteq Range(running)
         /\ Len(running) <= MaxBatch
         /\ phase \notin Passes => todo = <<>> /\ victims = <<>>
         /\ phase \notin Passes \cup {"execute"} => batch = <<>>
         /\ Range(<<>>) = {} /\ IsInjective(<<>>)
         /\ <<>> \in Seq(Nat) /\ <<>> \in Seq(Runs)
<1>1. Range(<<>>) = {} /\ IsInjective(<<>>)
  BY DEF Range, IsInjective
<1> QED
  BY <1>1 DEF Base, Typed, Queues, Live

\* A step starts.
LEMMA BeginStepKeeps == ASSUME Base, BeginStep PROVE Base'
<1>1. /\ phase = "idle" /\ phase' = "admit" /\ UNCHANGED cache_vars
      /\ next_seq_id' = next_seq_id /\ seqs' = seqs /\ waiting' = waiting /\ running' = running
      /\ todo' = todo /\ batch' = batch /\ victims' = victims
  BY DEF BeginStep, queue_vars
<1>2. Typed' /\ batch' = <<>> /\ victims' = <<>>
  BY <1>1 DEF Base, Typed, Phases, Passes
<1>3. Queues'
  BY <1>1 DEF Base, Queues, Live
<1>4. Measured'
  BY <1>1, MeasuredStill DEF Base
<1> QED
  BY <1>1, <1>2, <1>3, <1>4, NotServed, PhaseKeeps DEF Passes

\* Admission is over: the decode rows come first.
LEMMA EndAdmissionKeeps == ASSUME Base, EndAdmission PROVE Base'
<1>1. /\ phase = "admit" /\ phase' = "decode" /\ UNCHANGED cache_vars
      /\ next_seq_id' = next_seq_id /\ seqs' = seqs /\ waiting' = waiting /\ running' = running
      /\ todo' = running /\ batch' = <<>> /\ victims' = victims
  BY DEF EndAdmission, queue_vars
<1>2. Typed' /\ victims' = <<>>
  BY <1>1 DEF Base, Typed, Phases, Passes
<1>3. Queues'
  BY <1>1 DEF Base, Queues, Live
<1>4. Measured'
  BY <1>1, MeasuredStill DEF Base
<1> QED
  BY <1>1, <1>2, <1>3, <1>4, NotServed, PhaseKeeps DEF Passes

\* The decode rows are placed: those with prompt tokens left come next.
LEMMA EndDecodeRowsKeeps == ASSUME Base, EndDecodeRows PROVE Base'
<1>1. /\ phase = "decode" /\ phase' = "prefill" /\ UNCHANGED cache_vars
      /\ next_seq_id' = next_seq_id /\ seqs' = seqs /\ waiting' = waiting /\ running' = running
      /\ batch' = batch /\ victims' = victims /\ victims = <<>>
      /\ ~(Serving # <<>> /\ BatchHasRoom) /\ todo' = PrefillOrder
  BY DEF EndDecodeRows, PassEnds, queue_vars
<1> DEFINE pending == {id \in DOMAIN seqs : seqs[id].state = "RUNNING" /\ ~Complete(seqs[id])}
           few == {id \in pending : Remaining(seqs[id]) <= PrefillReserve}
           many == {id \in pending : Remaining(seqs[id]) > PrefillReserve}
<1>2. PICK short, long : /\ short = Filtered(running, few) /\ long = Filtered(running, many)
                         /\ todo' = short \o long
  BY <1>1 DEF PrefillOrder
<1>3. few \cap many = {}
  <2>1. \A id \in pending : Remaining(seqs[id]) \in Int
    BY TypedFacts DEF Remaining, Sound, Base
  <2> QED
    BY <2>1, Sizes
<1>4. /\ short \in Seq(Nat) /\ long \in Seq(Nat) /\ IsInjective(short) /\ IsInjective(long)
      /\ Range(short) = Range(running) \cap few /\ Range(long) = Range(running) \cap many
  <2> HIDE DEF few, many
  <2> QED
    BY <1>2, FilteredFacts, ListFacts
<1>5. todo' \in Seq(Nat)
  BY <1>2, <1>4
<1>6. IsInjective(todo') /\ Range(todo') = Range(short) \cup Range(long)
  <2>1. Range(short) \cap Range(long) = {}
    BY <1>3, <1>4
  <2>2. IsInjective(short \o long)
    BY <1>4, <2>1, ConcatInjective
  <2>3. Range(short \o long) = Range(short) \cup Range(long)
    BY <1>4, ConcatRange
  <2> QED
    BY <1>2, <2>2, <2>3, Zenon
<1>7. Range(todo') \subseteq Range(running) \cap pending
  BY <1>4, <1>6
<1>8. Typed'
  BY <1>1, <1>5 DEF Base, Typed, Phases, Passes
<1>9. Queues'
  BY <1>1, <1>6, <1>7 DEF Base, Queues, Live
<1>10. Measured'
  BY <1>1, MeasuredStill DEF Base
<1>11. Batched'
  <2>1. ASSUME NEW i \in 1 .. Len(batch)
        PROVE  batch[i].id \in Range(running) \ Range(todo')
    <3>1. Complete(seqs[batch[i].id]) /\ batch[i].id \in Range(running)
      BY <1>1 DEF Base, Batched
    <3> QED
      BY <1>7, <3>1
  <2> QED
    BY <1>1, <2>1, BatchStill, ListFacts DEF Base
<1> QED
  BY <1>1, <1>8, <1>9, <1>10, <1>11, NotServed, PhaseKeeps

\* The batch is built.
LEMMA EndPrefillRowsKeeps == ASSUME Base, EndPrefillRows PROVE Base'
<1>1. /\ phase = "prefill" /\ phase' \in {"update", "execute"} /\ UNCHANGED cache_vars
      /\ phase' = "update" => batch = <<>>
      /\ next_seq_id' = next_seq_id /\ seqs' = seqs /\ waiting' = waiting /\ running' = running
      /\ batch' = batch /\ victims' = victims /\ victims = <<>>
      /\ ~(Serving # <<>> /\ BatchHasRoom) /\ todo' = <<>>
  BY DEF EndPrefillRows, PassEnds, queue_vars
<1>2. Typed'
  BY <1>1, ListFacts DEF Base, Typed, Phases, Passes
<1>3. IsInjective(<<>>) /\ Range(<<>>) = {}
  BY ListFacts
<1>4. Queues'
  BY <1>1, <1>3 DEF Base, Queues, Live
<1>5. Measured'
  BY <1>1, MeasuredStill DEF Base
<1>6. Batched'
  BY <1>1, <1>3, BatchStill, ListFacts DEF Base, Batched
<1> QED
  BY <1>1, <1>2, <1>4, <1>5, <1>6, NotServed, PhaseKeeps

\* The forward pass fails.
LEMMA ForwardFailsKeeps == ASSUME Base, ForwardFails PROVE Base'
<1>1. /\ phase = "execute" /\ phase' = "abort" /\ UNCHANGED cache_vars /\ ForwardMayFail
      /\ next_seq_id' = next_seq_id /\ seqs' = seqs /\ waiting' = waiting /\ running' = running
      /\ batch' = <<>> /\ victims' = victims /\ todo' = todo
  BY DEF ForwardFails, queue_vars
<1>2. Typed' /\ victims' = <<>>
  BY <1>1, ListFacts DEF Base, Typed, Phases, Passes
<1>3. Queues'
  BY <1>1 DEF Base, Queues, Live
<1>4. Measured'
  BY <1>1, MeasuredStill DEF Base
<1> QED
  BY <1>1, <1>2, <1>3, <1>4, NotServed, PhaseKeeps DEF Passes

\* The running sequences are finished.
LEMMA EndRecordKeeps == ASSUME Base, EndRecord PROVE Base'
<1>1. /\ phase = "record" /\ phase' = "update" /\ UNCHANGED cache_vars
      /\ next_seq_id' = next_seq_id /\ seqs' = seqs /\ waiting' = waiting /\ running' = running
      /\ batch' = batch /\ victims' = victims /\ todo' = todo
  BY DEF EndRecord, queue_vars
<1>2. Typed' /\ victims' = <<>> /\ batch' = <<>>
  BY <1>1 DEF Base, Typed, Phases, Passes
<1>3. Queues'
  BY <1>1 DEF Base, Queues, Live
<1>4. Measured'
  BY <1>1, MeasuredStill DEF Base
<1> QED
  BY <1>1, <1>2, <1>3, <1>4, NotServed, PhaseKeeps DEF Passes

\* A sequence whose state is running is on the running list.
LEMMA RunningListed ==
  ASSUME Base, NEW id \in DOMAIN seqs, seqs[id].state = "RUNNING"
  PROVE  id \in Range(running)
BY DEF Base, Queues, Live

\* The finished ones are retired: the others have tokens to come.
LEMMA EndUpdateKeeps == ASSUME Base, EndUpdate PROVE Base'
<1>1. /\ phase = "update" /\ phase' = "flush" /\ UNCHANGED cache_vars /\ DoneSequences = <<>>
      /\ next_seq_id' = next_seq_id /\ seqs' = seqs /\ waiting' = waiting /\ running' = running
      /\ batch' = batch /\ victims' = victims /\ todo' = todo
  BY DEF EndUpdate, queue_vars
<1>2. Typed' /\ victims' = <<>> /\ batch' = <<>>
  BY <1>1 DEF Base, Typed, Phases, Passes
<1>3. \A id \in Range(running) : ~Done(seqs[id])
  <2> DEFINE done == {id \in DOMAIN seqs : Done(seqs[id])}
  <2>1. Range(running) \cap done = {}
    <3> HIDE DEF done
    <3>1. DoneSequences = Filtered(running, done)
      BY DEF DoneSequences, done
    <3> QED
      BY <1>1, <3>1, FilteredFacts, ListFacts
  <2> QED
    BY <2>1, ListFacts
<1>4. Queues'
  BY <1>1, <1>3 DEF Base, Queues, Live, Done
<1>5. Measured'
  <2>1. ASSUME NEW id \in DOMAIN seqs, seqs[id].state = "RUNNING"
        PROVE  seqs[id].generated < Target(seqs[id])
    <3>1. Sound(seqs[id]) /\ ~Done(seqs[id])
      BY <1>3, <2>1, RunningListed, TypedFacts DEF Base
    <3>2. seqs[id].generated <= Target(seqs[id]) /\ (seqs[id].generated > 0 => Complete(seqs[id]))
      BY DEF Base, Measured
    <3> QED
      BY <3>1, <3>2 DEF Sound, Done
  <2> QED
    BY <1>1, <2>1 DEF Base, Measured, Target, Complete, NumPrompt
<1> QED
  BY <1>1, <1>2, <1>4, <1>5, NotServed, PhaseKeeps DEF Passes

\* An aborted step ends with nobody running.
LEMMA EndAbortKeeps == ASSUME AbortsClean, Base, EndAbort PROVE Base' /\ running' = running
<1>1. /\ phase = "abort" /\ phase' = "record" /\ UNCHANGED cache_vars /\ Unfinished = <<>>
      /\ next_seq_id' = next_seq_id /\ seqs' = seqs /\ waiting' = waiting /\ running' = <<>>
      /\ batch' = batch /\ victims' = victims /\ todo' = todo
  BY DEF EndAbort
<1>2. \A id \in Range(running) : seqs[id].state = "FINISHED"
  <2> DEFINE left == {id \in DOMAIN seqs : seqs[id].state # "FINISHED"}
  <2>1. Range(running) \cap left = {}
    <3> HIDE DEF left
    <3>1. Unfinished = Filtered(running, left)
      BY DEF Unfinished, left
    <3> QED
      BY <1>1, <3>1, FilteredFacts, ListFacts
  <2> QED
    BY <2>1, ListFacts
<1>3. \A id \in Range(running) : seqs[id].state \in {"WAITING", "RUNNING"}
  BY <1>1 DEF Base, Aborting, AbortsClean, Unhurried, Live
<1>4. running = <<>>
  <2>1. running \in Seq(Nat) /\ Range(running) = {}
    BY <1>2, <1>3, ListFacts
  <2>2. running # <<>> => Head(running) \in Range(running)
    BY <2>1, Headed
  <2> QED
    BY <2>1, <2>2
<1>5. running' = running
  BY <1>1, <1>4
<1>6. Typed' /\ victims' = <<>> /\ batch' = <<>>
  BY <1>1, <1>5 DEF Base, Typed, Phases, Passes
<1>7. Queues'
  BY <1>1, <1>5 DEF Base, Queues, Live
<1>8. Measured'
  BY <1>1, MeasuredStill DEF Base
<1> QED
  BY <1>1, <1>5, <1>6, <1>7, <1>8, NotServed, PhaseKeeps DEF Passes

\* Those that had to yield go back to the head of the queue.
LEMMA FlushKeeps == ASSUME Base, FlushPreempted PROVE Base' /\ Live' = Live
<1> DEFINE preempted == {id \in DOMAIN seqs : seqs[id].state = "PREEMPTED"}
           stay == DOMAIN seqs \ preempted
<1>1. /\ phase = "flush" /\ phase' = "idle" /\ UNCHANGED cache_vars
      /\ next_seq_id' = next_seq_id /\ seqs' = seqs
      /\ batch' = batch /\ victims' = victims /\ todo' = todo
  BY DEF FlushPreempted
<1>2. PICK front : front = Filtered(running, preempted)
  OBVIOUS
<1>3. waiting' = front \o waiting /\ running' = Filtered(running, stay)
  BY <1>2 DEF FlushPreempted, Requeued
<1>4. /\ front \in Seq(Nat) /\ IsInjective(front) /\ Range(front) = Range(running) \cap preempted
      /\ running' \in Seq(Nat) /\ IsInjective(running')
      /\ Range(running') = Range(running) \cap stay
      /\ Len(running') \in Nat /\ Len(running') <= Len(running)
  <2> HIDE DEF preempted, stay
  <2> QED
    BY <1>2, <1>3, FilteredFacts, ListFacts
<1>5. PICK queue : queue = front \o waiting
  OBVIOUS
<1>6. Range(front) \cap Range(waiting) = {}
  BY <1>4, ListFacts
<1>7. /\ queue \in Seq(Nat) /\ IsInjective(queue)
      /\ Range(queue) = Range(front) \cup Range(waiting)
      /\ Len(front) \in Nat /\ Len(queue) = Len(front) + Len(waiting)
      /\ \A i \in 1 .. Len(queue) :
           queue[i] = IF i <= Len(front) THEN front[i] ELSE waiting[i - Len(front)]
  <2>1. front \in Seq(Nat) /\ waiting \in Seq(Nat)
    BY <1>4, ListFacts
  <2>2. IsInjective(front \o waiting)
    BY <1>4, <1>6, <2>1, ConcatInjective, ListFacts
  <2>3. Range(front \o waiting) = Range(front) \cup Range(waiting)
    BY <2>1, ConcatRange
  <2> QED
    BY <1>5, <2>1, <2>2, <2>3
<1>8. waiting' = queue
  BY <1>3, <1>5
<1>9. Live' = Live
  BY <1>4, <1>7, <1>8, ListFacts DEF Live
<1>10. Typed'
  BY <1>1, <1>4, <1>7, <1>8 DEF Base, Typed, Phases, Passes
<1>11. \A id \in Range(running) : seqs[id].state # "FINISHED" /\ seqs[id].state # "WAITING"
  BY <1>1 DEF Base, Queues
<1>12. Queues'
  <2>1. Range(waiting') \subseteq DOMAIN seqs /\ Range(running') \subseteq DOMAIN seqs
    BY <1>4, <1>7, <1>8, ListFacts
  <2>2. Range(waiting') \cap Range(running') = {}
    BY <1>4, <1>7, <1>8, ListFacts
  <2>3. Range(todo') = {} /\ IsInjective(todo')
    BY <1>1, ListFacts DEF Passes
  <2>4. Len(running') <= MaxBatch
    BY <1>4, ListFacts, Sizes
  <2>5. \A id \in DOMAIN seqs : id \in Live \/ seqs[id].state = "FINISHED"
    BY DEF Base, Queues
  <2>6. \A id \in Range(waiting') : seqs[id].state \in {"WAITING", "PREEMPTED"}
    BY <1>4, <1>7, <1>8 DEF Base, Queues
  <2>7. \A id \in Range(running') : seqs[id].state = "RUNNING"
    <3>1. \A id \in Range(running') : seqs[id].state \in States /\ seqs[id].state # "PREEMPTED"
      BY <1>4, TypedFacts DEF Base, Sound
    <3> QED
      BY <1>4, <1>11, <3>1 DEF States
  <2> QED
    BY <1>1, <1>4, <1>7, <1>8, <1>9, <2>1, <2>2, <2>3, <2>4, <2>5, <2>6, <2>7 DEF Queues
<1>13. Ordered'
  <2>1. \A i \in 1 .. Len(front) : seqs[front[i]].state = "PREEMPTED"
    <3>1. \A i \in 1 .. Len(front) : front[i] \in Range(front)
      BY <1>4 DEF Range
    <3> QED
      BY <1>4, <3>1
  <2> SUFFICES ASSUME NEW i \in 1 .. Len(queue), NEW j \in 1 .. Len(queue), i < j
               PROVE  /\ seqs[queue[j]].state = "PREEMPTED" => seqs[queue[i]].state = "PREEMPTED"
                      /\ seqs[queue[i]].state = "WAITING" => queue[i] < queue[j]
    BY <1>1, <1>8 DEF Ordered
  <2>2. CASE i <= Len(front)
    BY <1>7, <2>1, <2>2
  <2>3. CASE i > Len(front)
    <3>1. Len(waiting) \in Nat
      BY ListFacts
    <3>2. PICK a, b : a = i - Len(front) /\ b = j - Len(front)
      OBVIOUS
    <3>3. a \in 1 .. Len(waiting) /\ b \in 1 .. Len(waiting) /\ a < b /\ ~(j <= Len(front))
      BY <1>7, <2>3, <3>1, <3>2
    <3>4. queue[i] = waiting[a] /\ queue[j] = waiting[b]
      BY <1>7, <2>3, <3>2, <3>3
    <3> QED
      BY <3>3, <3>4 DEF Base, Ordered
  <2> QED
    BY <1>7, <2>2, <2>3
<1>14. Holdings'
  <2>1. block_tables' = block_tables /\ row_busy' = row_busy
    BY <1>1 DEF cache_vars, pool_vars
  <2>2. \A id \in Live : /\ seqs'[id].row = seqs[id].row
                         /\ seqs'[id].blocks = seqs[id].blocks
                         /\ seqs'[id] = seqs[id]
                              \/ (seqs[id].state # "WAITING" /\ seqs'[id].state # "WAITING")
    BY <1>1
  <2>3. Holdings
    BY DEF Base
  <2> QED
    BY <1>1, <1>9, <2>1, <2>2, <2>3, HoldingsStill, Zenon
<1>15. Measured'
  BY <1>1, MeasuredStill DEF Base
<1>16. Provided'
  BY <1>1, <1>9, <1>10, <1>12, NotServed, ProvidedFacts, ProvidedNext DEF Passes, Complete, NumPrompt
<1>17. batch' = <<>> /\ victims' = <<>>
  BY <1>1, ListFacts DEF Passes
<1>18. Unhurried'
  BY <1>1, <1>9, UnhurriedStill DEF Base
<1>19. Uncached' /\ Aborting'
  BY <1>1 DEF Base, Uncached, Aborting, cache_vars
<1> QED
  BY <1>9, <1>10, <1>12, <1>13, <1>14, <1>15, <1>16, <1>17, <1>18, <1>19,
     BatchEmpty, PlannedNone DEF Base

-------------------------------------------------------------------------------
(* Steps of one running sequence.                                            *)

\* A sequence that has started holds a row, with the blocks it counts.
LEMMA RowOf ==
  ASSUME Base, NEW id \in Live, seqs[id].state # "WAITING"
  PROVE  /\ seqs[id].row \in Rows /\ seqs[id].row # -1 /\ row_busy[seqs[id].row]
         /\ seqs[id].blocks = Len(block_tables[seqs[id].row])
         /\ \A other \in Live : seqs[other].row = seqs[id].row => other = id
<1>1. Sound(seqs[id])
  BY ProvidedFacts
<1>2. seqs[id].row # -1
  BY DEF Base, Holdings
<1>3. seqs[id].row \in Rows
  BY <1>1, <1>2 DEF Sound
<1>4. row_busy[seqs[id].row]
  BY <1>3 DEF Base, Holdings
<1> QED
  BY <1>2, <1>3, <1>4 DEF Base, Holdings, Table

\* One record changes.
LEMMA SeqsUpdated ==
  ASSUME NEW R, seqs \in [DOMAIN seqs -> R], NEW id \in DOMAIN seqs, NEW s \in R,
         seqs' = [seqs EXCEPT ![id] = s]
  PROVE  /\ DOMAIN seqs' = DOMAIN seqs /\ seqs' \in [DOMAIN seqs' -> R] /\ seqs'[id] = s
         /\ \A other \in DOMAIN seqs \ {id} : seqs'[other] = seqs[other]
OBVIOUS

\* Only the sequence id moves, and it is running.
OnlyMoves(id) ==
  /\ id \in Range(running)
  /\ DOMAIN seqs' = DOMAIN seqs
  /\ \A other \in DOMAIN seqs \ {id} : seqs'[other] = seqs[other]
  /\ seqs'[id].state \in {"RUNNING", "PREEMPTED", "FINISHED"}
  /\ seqs'[id].row = seqs[id].row
  /\ waiting' = waiting /\ running' = running
  /\ phase' = phase /\ phase \notin {"idle", "admit", "mount", "flush"}

\* The lists do not mind.
LEMMA OneMoves ==
  ASSUME Base, NEW id, OnlyMoves(id), IsInjective(todo'), Range(todo') \subseteq Range(running)
  PROVE  Live' = Live /\ Queues' /\ Ordered'
<1>0. id \in Range(running) /\ waiting \in Seq(Nat)
  BY DEF OnlyMoves, Base, Typed
<1>1. Live' = Live /\ id \in Live
  BY DEF Live, OnlyMoves
<1>2. \A other \in Range(waiting) : seqs'[other] = seqs[other]
  BY <1>0 DEF OnlyMoves, Base, Queues
<1>3. Ordered'
  <2>1. Ordered /\ waiting' = waiting /\ \A other \in Range(waiting) : seqs'[other].state = seqs[other].state
    BY <1>2 DEF Base, OnlyMoves
  <2> QED
    BY <1>0, <2>1, OrderedStill
<1>4. \A other \in Range(running) : seqs'[other].state # "WAITING"
  BY DEF OnlyMoves, Base, Queues
<1>5. \A other \in DOMAIN seqs : other \in Live \/ seqs'[other].state = "FINISHED"
  BY <1>1 DEF OnlyMoves, Base, Queues
<1>6. Queues'
  BY <1>1, <1>2, <1>4, <1>5 DEF OnlyMoves, Base, Queues
<1> QED
  BY <1>1, <1>3, <1>6

\* Its table may change, and no other.
LEMMA OneHolds ==
  ASSUME Base, NEW id, OnlyMoves(id), Live' = Live,
         \A r \in Rows \ {seqs[id].row} : block_tables'[r] = block_tables[r],
         \A r \in Rows : row_busy'[r] <=> row_busy[r],
         seqs'[id].blocks = Len(block_tables'[seqs[id].row])
  PROVE  Holdings'
<1>1. id \in Live /\ seqs[id].state # "WAITING" /\ seqs'[id].state # "WAITING"
      /\ seqs'[id].row = seqs[id].row /\ phase # "mount" /\ phase' # "mount"
  BY DEF OnlyMoves, Live, Base, Queues
<1>2. \A other \in Live \ {id} : seqs'[other] = seqs[other]
  BY DEF OnlyMoves, Base, Queues, Live
<1>3. Rows' = Rows
  BY DEF Rows, Pool!Rows
<1>4. \A other : ~Mounting(other) /\ ~Mounting(other)'
  BY <1>1 DEF Mounting
<1>5. \A other \in Live : seqs'[other].row = seqs[other].row
  BY <1>1, <1>2
<1>6. \A other \in Live : seqs[other].row = -1 <=> seqs[other].state = "WAITING"
  BY <1>4 DEF Base, Holdings
<1>7. \A other \in Live : seqs'[other].row = -1 <=> seqs'[other].state = "WAITING"
  BY <1>1, <1>2, <1>6
<1>8. \A other, another \in Live :
        seqs'[other].row # -1 /\ seqs'[other].row = seqs'[another].row => other = another
  BY <1>5 DEF Base, Holdings
<1>9. \A r \in Rows : row_busy'[r] <=> \E other \in Live : seqs'[other].row = r
  BY <1>5 DEF Base, Holdings
<1>10. ASSUME NEW other \in Live, seqs'[other].row # -1
       PROVE  seqs'[other].blocks = Len(block_tables'[seqs'[other].row])
  <2>1. CASE other = id
    BY <1>1, <2>1
  <2>2. CASE other # id
    <3>1. seqs[other].row # seqs[id].row /\ seqs'[other] = seqs[other]
      BY <1>1, <1>2, <1>10, <2>2, RowOf
    <3>2. seqs[other].row \in Rows /\ seqs[other].blocks = Len(block_tables[seqs[other].row])
      BY <1>6, <1>10, <3>1, RowOf
    <3> QED
      BY <3>1, <3>2
  <2> QED
    BY <2>1, <2>2
<1>11. \A other \in Live : seqs'[other].state = "WAITING" =>
         /\ seqs'[other].blocks = 0 /\ seqs'[other].prefilled = 0
         /\ seqs'[other].generated = 0 /\ seqs'[other].chain = <<>>
  BY <1>1, <1>2 DEF Base, Holdings
<1> QED
  BY <1>3, <1>4, <1>7, <1>8, <1>9, <1>10, <1>11 DEF Holdings, Table

\* It has not gone too far.
LEMMA OneMeasured ==
  ASSUME Base, NEW id, OnlyMoves(id),
         LET s == seqs'[id]
         IN  /\ s.prefilled <= NumPrompt(s)
             /\ s.generated > 0 => Complete(s)
             /\ s.generated <= Target(s)
             /\ Len(s.chain) * BlockSize <= s.prefilled
             /\ s.state # "FINISHED" => s.generated < Target(s)
  PROVE  Measured'
BY DEF Base, Measured, OnlyMoves, NumPrompt, Complete, Target

\* It is not in the batch, and the batch stays.
LEMMA OneBatched ==
  ASSUME Base, NEW id, OnlyMoves(id), batch' = batch, Range(todo') \subseteq Range(todo), ~InBatch(id)
  PROVE  Batched'
<1>1. batch \in Seq(Runs) /\ Batched /\ Range(running) \subseteq DOMAIN seqs
  BY ListFacts DEF Base
<1>2. DOMAIN batch = 1 .. Len(batch)
  BY <1>1
<1>3. ASSUME NEW i \in 1 .. Len(batch)
      PROVE  /\ seqs'[batch[i].id] = seqs[batch[i].id]
             /\ batch[i].id \in Range(running') \ Range(todo')
  <2>1. batch[i].id \in Range(running) \ Range(todo) /\ batch[i].id # id
    BY <1>1, <1>2 DEF Batched, InBatch
  <2> QED
    BY <1>1, <2>1 DEF OnlyMoves
<1> QED
  BY <1>1, <1>3, BatchStill DEF OnlyMoves

\* Nobody is hurried who was not.
LEMMA OneUnhurried ==
  ASSUME Base, NEW id, OnlyMoves(id), Live' = Live, victims' = victims \/ victims' = <<>>,
         seqs'[id].preempts = seqs[id].preempts, seqs'[id].state \in {seqs[id].state, "RUNNING"}
  PROVE  Unhurried'
<1>1. Unhurried /\ Live \subseteq DOMAIN seqs
  BY ListFacts DEF Base
<1>2. \A other \in DOMAIN seqs' : other \in DOMAIN seqs /\ seqs'[other].preempts = seqs[other].preempts
  BY DEF OnlyMoves
<1>3. \A other \in Live' : other \in Live /\ seqs'[other].state \in {seqs[other].state, "RUNNING"}
  BY <1>1 DEF OnlyMoves
<1> QED
  BY <1>1, <1>2, <1>3, UnhurriedStill

-------------------------------------------------------------------------------
(* The sequence a pass is at.                                                *)

\* The last position it is to have a block for.
LastPosition(s) == IF phase = "decode" THEN DecodePosition(s) ELSE s.prefilled + ChunkLen(s) - 1

\* It is within a table, and short when it is past the blocks.
LEMMA ShortFacts ==
  ASSUME Base, AtSequence, NEW id, id = Head(Serving)
  PROVE  LET s == seqs[id]
         IN  /\ LastPosition(s) \in Nat /\ LastPosition(s) < MaxSeqLen
             /\ ShortBlocks(s) \in Int
             /\ ShortBlocks(s) > 0 <=> s.blocks * BlockSize <= LastPosition(s)
             /\ ShortBlocks(s) > 0 => s.blocks < MaxBlocksPerSeq
<1>1. /\ id \in Live /\ id \in DOMAIN seqs /\ seqs[id].state = "RUNNING"
      /\ Complete(seqs[id]) <=> phase = "decode"
      /\ phase = "prefill" => ChunkLen(seqs[id]) \in 1 .. NumPrompt(seqs[id]) - seqs[id].prefilled
  BY ServedFacts DEF Base
<1>2. Sound(seqs[id]) /\ NumPrompt(seqs[id]) + seqs[id].max_gen <= MaxSeqLen
  BY <1>1, TypedFacts DEF Base
<1>3. phase \in Passes
  BY DEF AtSequence
<1>4. seqs[id].generated < Target(seqs[id])
  BY <1>1, <1>3 DEF Base, Measured, Passes
<1>5. PICK last : last = LastPosition(seqs[id])
  OBVIOUS
<1>6. last \in Nat /\ last < MaxSeqLen
  <2>1. CASE phase = "decode"
    <3>1. PICK n, g, m, t : n = NumPrompt(seqs[id]) /\ g = seqs[id].generated
                              /\ m = seqs[id].max_gen /\ t = Target(seqs[id])
      OBVIOUS
    <3>2. n \in Nat /\ n >= 1 /\ g \in Nat /\ m \in Nat /\ t \in Nat /\ t <= m
      <4>1. /\ n \in 1 .. MaxSeqLen - 1 /\ g \in Nat /\ m \in 1 .. MaxGenLen
            /\ t \in 1 .. MaxGenLen /\ (t = IF m <= seqs[id].eos THEN m ELSE seqs[id].eos)
            /\ seqs[id].eos \in Nat
        BY <1>2, <3>1 DEF Sound
      <4>2. PICK e : e = seqs[id].eos
        OBVIOUS
      <4> QED
        BY <4>1, <4>2, Sizes
    <3>3. g < t /\ n + m <= MaxSeqLen
      BY <1>2, <1>4, <3>1
    <3>4. last = n + g - 1
      BY <1>5, <2>1, <3>1 DEF LastPosition, DecodePosition
    <3> QED
      BY <3>2, <3>3, <3>4, Sizes
  <2>2. CASE phase = "prefill"
    <3>1. PICK n, p, c : n = NumPrompt(seqs[id]) /\ p = seqs[id].prefilled /\ c = ChunkLen(seqs[id])
      OBVIOUS
    <3>2. n \in 1 .. MaxSeqLen - 1 /\ p \in Nat
      BY <1>2, <3>1 DEF Sound
    <3>3. c \in 1 .. n - p
      BY <1>1, <2>2, <3>1
    <3>4. last = p + c - 1
      BY <1>5, <2>2, <3>1 DEF LastPosition
    <3> QED
      BY <3>2, <3>3, <3>4, Sizes
  <2> QED
    BY <1>3, <2>1, <2>2 DEF Passes
<1>7. PICK n \in Nat : n = seqs[id].blocks
  BY <1>2 DEF Sound
<1>8. PICK q \in Nat : q = last \div BlockSize
  BY <1>6, Sizes, Quotient
<1>9. ShortBlocks(seqs[id]) = q + 1 - n
  BY <1>5, <1>7, <1>8 DEF ShortBlocks, LastPosition, BlockIndex
<1>10. q + 1 <= n <=> last < n * BlockSize
  BY <1>6, <1>8, Sizes, InBlocks
<1>11. q + 1 <= MaxBlocksPerSeq
  <2>1. last < MaxBlocksPerSeq * BlockSize
    <3>1. last + 1 \in Nat /\ last + 1 <= MaxSeqLen
      BY <1>6, Sizes
    <3>2. last + 1 <= MaxBlocksPerSeq * BlockSize
      BY <3>1, Sizes
    <3>3. MaxBlocksPerSeq * BlockSize \in Nat
      BY Sizes
    <3> QED
      BY <1>6, <3>2, <3>3
  <2> QED
    BY <1>6, <1>8, <2>1, Sizes, InBlocks
<1>12. n * BlockSize \in Nat
  BY Sizes
<1> QED
  BY <1>5, <1>6, <1>7, <1>9, <1>10, <1>11, <1>12, Sizes

\* A parked block is one the LRU walk finds.
LEMMA ParkedIsFound ==
  ASSUME CacheInv, NEW b \in Blocks, cached[b], ref_counts[b] = 0
  PROVE  EvictLRU # <<>>
<1>1. PICK h \in DOMAIN entries : entries[h].block = b
  BY CacheFacts
<1>2. Range(lru) = DOMAIN entries
  BY CacheFacts
<1>3. PICK i \in DOMAIN lru : lru[i] = h
  BY <1>1, <1>2 DEF Range
<1> DEFINE idle == {k \in DOMAIN lru : ref_counts[entries[lru[k]].block] = 0}
<1>4. idle # {}
  BY <1>1, <1>3
<1>5. EvictLRU = <<lru[Max(idle)]>>
  BY <1>4 DEF EvictLRU
<1> QED
  BY <1>5

\* In a roomy pool a row whose table is not full gets its block.
LEMMA RoomyAppends ==
  ASSUME CacheInv, Roomy, NEW row \in Rows, Len(block_tables[row]) < MaxBlocksPerSeq
  PROVE  CanAppend(row)
<1>1. PP!IInv /\ PP!RowsOwned
  BY SameInv DEF CacheInv
<1>2. PP!RoomToGrow
  BY <1>1, PoolSized, PP!EnoughForEveryRow
<1>3. row \in PP!Rows /\ PP!InUseWith(row) \subseteq PP!Rows
  BY SameSets DEF PP!InUseWith
<1>4. NumBlocks >= Cardinality(PP!InUseWith(row)) * MaxBlocksPerSeq
  <2>1. PP!Rows = 0 .. NumRows - 1 /\ NumRows \in Nat
    BY SchedulerSizes DEF PP!Rows
  <2>2. IsFiniteSet(PP!Rows) /\ Cardinality(PP!Rows) = NumRows
    BY <2>1, FS_Interval
  <2>3. PICK m \in Nat : m = Cardinality(PP!InUseWith(row)) /\ m <= NumRows
    BY <1>3, <2>2, FS_Subset, FS_CardinalityType
  <2>4. m * MaxBlocksPerSeq <= NumRows * MaxBlocksPerSeq
    <3>1. CASE MaxBlocksPerSeq = 0
      BY <2>1, <2>3, <3>1
    <3>2. CASE MaxBlocksPerSeq # 0
      BY <2>1, <2>3, <3>2, Sizes, Multiples
    <3> QED
      BY <3>1, <3>2
  <2>5. m * MaxBlocksPerSeq \in Int /\ NumRows * MaxBlocksPerSeq \in Int /\ NumBlocks \in Int
    BY <2>1, <2>3, Sizes
  <2> QED
    BY <2>3, <2>4, <2>5 DEF Roomy
<1>5. free_blocks # <<>> \/ PP!Parked # {}
  <2>1. PICK needed : needed = Cardinality(PP!InUseWith(row)) * MaxBlocksPerSeq
    OBVIOUS
  <2>2. /\ NumBlocks >= needed
        /\ Len(block_tables[row]) < MaxBlocksPerSeq
        => free_blocks # <<>> \/ PP!Parked # {}
    BY <1>2, <1>3, <2>1, SameCount DEF PP!RoomToGrow
  <2> QED
    BY <1>4, <2>1, <2>2
<1>6. ASSUME PP!Parked # {} PROVE EvictLRU # <<>>
  BY <1>6, SameSets, ParkedIsFound DEF PP!Parked
<1> QED
  BY <1>5, <1>6 DEF CanAppend, Reclaimed

\* There nobody finds the pool exhausted.
LEMMA ExhaustedSmall ==
  ASSUME Base, CacheInv, AtSequence, Exhausted(Head(Serving))
  PROVE  ~Roomy
<1>1. PICK id : id = Head(Serving)
  OBVIOUS
<1>2. id \in Live /\ seqs[id].state = "RUNNING"
  BY <1>1, ServedFacts DEF Base
<1>3. seqs[id].row \in Rows /\ seqs[id].blocks = Len(block_tables[seqs[id].row])
  BY <1>2, RowOf
<1>4. seqs[id].blocks < MaxBlocksPerSeq /\ ~CanAppend(seqs[id].row)
  BY <1>1, ShortFacts DEF Exhausted
<1> QED
  BY <1>3, <1>4, RoomyAppends

\* Who is to be served has no rows of the batch yet.
LEMMA TodoNotPlaced ==
  ASSUME Base, NEW id \in Range(todo)
  PROVE  ~InBatch(id)
BY ListFacts DEF InBatch, Base, Batched

\* A block that can be had is had.
LEMMA AppendGrows ==
  ASSUME CacheInv, NEW row \in Rows, CanAppend(row), AppendBlock(row)
  PROVE  Len(block_tables'[row]) = Len(block_tables[row]) + 1
<1>1. PoolView
  BY PoolFacts DEF CacheInv
<1> DEFINE ev == BlocksOf(Reclaimed)
           free == free_blocks \o ev
<1>2. Pool!AppendBlocks(row, 1, ev)
  BY DEF AppendBlock
<1>3. IsEviction(Reclaimed) /\ (free_blocks = <<>> \/ Reclaimed = <<>>)
  BY WalkFindsIdle DEF Reclaimed, IsEviction
<1>4. ev = <<>> \/ \E b : ev = <<b>>
  BY <1>3 DEF IsEviction, BlocksOf
<1>5. Reclaimed # <<>> => Len(ev) = 1
  BY <1>3 DEF IsEviction, BlocksOf
<1>6. Len(free) >= 1
  <2>1. free_blocks \in Seq(Blocks)
    BY <1>1 DEF PoolView
  <2>2. CASE ev = <<>>
    <3>1. free = free_blocks /\ free_blocks # <<>>
      BY <1>5, <2>1, <2>2 DEF CanAppend
    <3> QED
      BY <2>1, <3>1
  <2>3. CASE \E b : ev = <<b>>
    <3>1. PICK b : ev = <<b>>
      BY <2>3
    <3>2. PICK T : T = Blocks \cup {b}
      OBVIOUS
    <3>3. free_blocks \in Seq(T) /\ ev \in Seq(T) /\ Len(ev) = 1
      BY <2>1, <3>1, <3>2
    <3>4. PICK was, more : was = free_blocks /\ more = ev
      OBVIOUS
    <3>5. Len(was \o more) = Len(was) + Len(more) /\ Len(was) \in Nat
      BY <3>3, <3>4
    <3> QED
      BY <3>3, <3>4, <3>5
  <2> QED
    BY <1>4, <2>2, <2>3
<1>7. Pool!Take(row, free, 1)
  BY <1>2, <1>6 DEF Pool!AppendBlocks
<1>8. block_tables' = [block_tables EXCEPT ![row] = @ \o Pool!Popped(free, 1)]
  BY <1>7 DEF Pool!Take
<1>9. Len(Pool!Popped(free, 1)) = 1
  BY DEF Pool!Popped
<1>10. block_tables'[row] = block_tables[row] \o Pool!Popped(free, 1)
  BY <1>1, <1>8 DEF PoolView
<1>11. Pool!Popped(free, 1) = <<free[Len(free)]>>
  BY <1>6 DEF Pool!Popped
<1>12. block_tables[row] \in Seq(Blocks)
  BY <1>1 DEF PoolView
<1>13. PICK x : x = free[Len(free)]
  OBVIOUS
<1>14. PICK was, T : was = block_tables[row] /\ T = Blocks \cup {x}
  OBVIOUS
<1>15. was \in Seq(T) /\ <<x>> \in Seq(T) /\ Len(<<x>>) = 1
  BY <1>12, <1>14
<1>16. Len(was \o <<x>>) = Len(was) + 1
  BY <1>15
<1> QED
  BY <1>10, <1>11, <1>13, <1>14, <1>16

-------------------------------------------------------------------------------
(* Building the batch.                                                       *)

\* Others that were being served still are.
LEMMA OneProvided ==
  ASSUME Base, NEW id, OnlyMoves(id), Live' = Live, Typed', Queues',
         \A other \in Live \ {id} :
           \/ ~Served(other)
           \/ Served(other)' /\ ChunkLen(seqs[other])' = ChunkLen(seqs[other]),
         seqs'[id].prefilled <= seqs'[id].blocks * BlockSize,
         ~Complete(seqs'[id]) /\ seqs'[id].state # "FINISHED" =>
           \/ seqs'[id].blocks * BlockSize <= seqs'[id].prefilled + BlockSize
           \/ /\ Served(id)'
              /\ seqs'[id].blocks * BlockSize
                   <= seqs'[id].prefilled + BlockSize + (ChunkLen(seqs[id])' - 1)
  PROVE  Provided'
<1>1. \A other \in Live \ {id} : seqs'[other] = seqs[other]
  BY ListFacts DEF OnlyMoves
<1>2. \A other \in Live : seqs'[other].prefilled <= seqs'[other].blocks * BlockSize
  BY <1>1, ProvidedFacts
<1>3. ASSUME NEW other \in Live, ~Complete(seqs'[other]), seqs'[other].state # "FINISHED"
      PROVE  \/ seqs'[other].blocks * BlockSize <= seqs'[other].prefilled + BlockSize
             \/ /\ Served(other)'
                /\ seqs'[other].blocks * BlockSize
                     <= seqs'[other].prefilled + BlockSize + (ChunkLen(seqs[other])' - 1)
  <2>1. CASE other = id
    BY <1>3, <2>1
  <2>2. CASE other # id
    <3>1. seqs'[other] = seqs[other] /\ ~Complete(seqs[other])
      BY <1>1, <1>3, <2>2
    <3>2. CASE ~Served(other)
      BY <1>3, <3>1, <3>2, ProvidedFacts
    <3>3. CASE Served(other)
      BY <1>3, <2>2, <3>1, <3>3, ProvidedFacts
    <3> QED
      BY <3>2, <3>3
  <2> QED
    BY <2>1, <2>2
<1> QED
  BY <1>2, <1>3, ProvidedNext

\* The pass gives the sequence it is at one more block.
LEMMA GrowKeeps == ASSUME Base, CacheInv, Grow PROVE Base'
<1>1. PICK id : id = Head(Serving)
  OBVIOUS
<1>2. PICK row : row = seqs[id].row
  OBVIOUS
<1>3. /\ AtSequence /\ victims = <<>> /\ ShortBlocks(seqs[id]) > 0 /\ CanAppend(row) /\ AppendBlock(row)
      /\ seqs' = [seqs EXCEPT ![id].blocks = @ + 1]
      /\ next_seq_id' = next_seq_id /\ waiting' = waiting /\ running' = running
      /\ phase' = phase /\ todo' = todo /\ batch' = batch /\ victims' = victims
  BY <1>1, <1>2 DEF Grow, Building, AtSequence, Passes, queue_vars, step_vars
<1>4. /\ id \in Range(todo) /\ id \in Range(running) /\ id \in DOMAIN seqs /\ id \in Live
      /\ seqs[id].state = "RUNNING" /\ (Complete(seqs[id]) <=> phase = "decode")
  BY <1>1, <1>3, ServedFacts DEF Base
<1>5. row \in Rows /\ seqs[id].blocks = Len(block_tables[row])
  BY <1>2, <1>4, RowOf
<1>6. PICK S : seqs \in [DOMAIN seqs -> Records(S)]
  BY DEF Base, Typed
<1>7. PICK s \in Records(S) : s = seqs[id]
  BY <1>4, <1>6
<1>8. PICK t : t = [s EXCEPT !.blocks = @ + 1]
  OBVIOUS
<1>9. /\ t \in Records(S) /\ t.blocks = s.blocks + 1 /\ s.blocks \in Nat
      /\ t.prompt = s.prompt /\ t.eos = s.eos /\ t.max_gen = s.max_gen /\ t.state = s.state
      /\ t.row = s.row /\ t.prefilled = s.prefilled /\ t.generated = s.generated
      /\ t.preempts = s.preempts /\ t.chain = s.chain
  BY <1>8 DEF Records
<1>10. seqs' = [seqs EXCEPT ![id] = t]
  BY <1>3, <1>7, <1>8
<1>11. /\ DOMAIN seqs' = DOMAIN seqs /\ seqs' \in [DOMAIN seqs' -> Records(S)] /\ seqs'[id] = t
       /\ \A other \in DOMAIN seqs \ {id} : seqs'[other] = seqs[other]
  BY <1>4, <1>6, <1>9, <1>10, SeqsUpdated
<1>12. OnlyMoves(id)
  BY <1>3, <1>4, <1>7, <1>9, <1>11 DEF OnlyMoves, AtSequence, Passes
<1>13. Typed'
  BY <1>3, <1>7, <1>9, <1>11 DEF Base, Typed, NumPrompt, Phases, Passes
<1>14. Live' = Live /\ Queues' /\ Ordered'
  BY <1>3, <1>12, ListFacts, OneMoves
<1>15. /\ row_busy' = row_busy /\ Len(block_tables'[row]) = Len(block_tables[row]) + 1
       /\ \A r \in Rows \ {row} : block_tables'[r] = block_tables[r]
       /\ DOMAIN entries' \subseteq DOMAIN entries
  BY <1>3, <1>5, AppendGrows, AppendBlockFacts
<1>16. Holdings'
  <2>1. \A r \in Rows \ {seqs[id].row} : block_tables'[r] = block_tables[r]
    BY <1>2, <1>15
  <2>2. \A r \in Rows : row_busy'[r] <=> row_busy[r]
    BY <1>15
  <2>3. seqs'[id].blocks = Len(block_tables'[seqs[id].row])
    BY <1>2, <1>5, <1>7, <1>9, <1>11, <1>15
  <2> QED
    BY <1>12, <1>14, <2>1, <2>2, <2>3, OneHolds
<1>17. Measured'
  <2>1. seqs[id].generated < Target(seqs[id])
    BY <1>3, <1>4 DEF Base, Measured, AtSequence, Passes
  <2> QED
    BY <1>4, <1>7, <1>9, <1>11, <1>12, <2>1, OneMeasured DEF Base, Measured, NumPrompt, Complete, Target
<1>18. Serving' = Serving /\ BatchHasRoom' = BatchHasRoom
  <2> DEFINE keep == {o \in DOMAIN seqs : /\ seqs[o].state = "RUNNING"
                                          /\ Complete(seqs[o]) <=> phase = "decode"}
  <2>1. \A o \in DOMAIN seqs : /\ seqs'[o].state = seqs[o].state
                               /\ seqs'[o].prefilled = seqs[o].prefilled
                               /\ seqs'[o].prompt = seqs[o].prompt
    BY <1>7, <1>9, <1>11
  <2>2. keep' = keep
    BY <1>3, <1>11, <2>1 DEF Complete, NumPrompt
  <2>3. BatchHasRoom' = BatchHasRoom
    BY <1>3 DEF BatchHasRoom, BatchRows, PrefillTaken, RowCap
  <2> QED
    BY <1>3, <2>2, <2>3 DEF Serving
<1>19. Served(id)' /\ ChunkLen(seqs[id])' = ChunkLen(seqs[id])
  BY <1>1, <1>3, <1>7, <1>9, <1>11, <1>18
     DEF Served, AtSequence, ChunkLen, Remaining, NumPrompt, PrefillTaken, RowCap, BatchRows
<1>20. Provided'
  <2>1. \A other \in Live \ {id} : ~Served(other)
    BY <1>1 DEF Served
  <2>2. Sound(seqs[id]) /\ BlockSize \in Nat
    BY <1>4, Sizes, TypedFacts DEF Base
  <2>3. (s.blocks + 1) * BlockSize = s.blocks * BlockSize + BlockSize /\ s.blocks * BlockSize \in Nat
    BY <1>9, Sizes
  <2>4. s.prefilled <= s.blocks * BlockSize /\ s.prefilled \in Nat
    BY <1>4, <1>7, <2>2, ProvidedFacts DEF Sound
  <2>5. t.prefilled <= t.blocks * BlockSize
    BY <1>9, <2>2, <2>3, <2>4
  <2>6. ASSUME ~Complete(seqs'[id])
        PROVE  t.blocks * BlockSize <= t.prefilled + BlockSize + (ChunkLen(seqs[id])' - 1)
    <3>1. ~Complete(seqs[id])
      BY <1>7, <1>9, <1>11, <2>6 DEF Complete, NumPrompt
    <3>2. phase = "prefill"
      BY <1>3, <1>4, <3>1 DEF AtSequence, Passes
    <3>3. s.blocks * BlockSize <= LastPosition(seqs[id])
      BY <1>1, <1>3, <1>7, ShortFacts
    <3>4. LastPosition(seqs[id]) = s.prefilled + ChunkLen(seqs[id]) - 1
      BY <1>7, <3>2 DEF LastPosition
    <3>5. ChunkLen(seqs[id]) \in 1 .. NumPrompt(seqs[id]) - seqs[id].prefilled
      BY <1>1, <1>3, <3>2, ServedFacts DEF Base
    <3>6. ChunkLen(seqs[id]) \in Int
      BY <2>2, <3>5 DEF Sound
    <3> QED
      BY <1>9, <1>19, <2>2, <2>3, <2>4, <3>3, <3>4, <3>6
  <2>7. /\ seqs'[id].prefilled <= seqs'[id].blocks * BlockSize
        /\ ~Complete(seqs'[id]) =>
             seqs'[id].blocks * BlockSize
               <= seqs'[id].prefilled + BlockSize + (ChunkLen(seqs[id])' - 1)
    BY <1>11, <2>5, <2>6
  <2> QED
    BY <1>12, <1>13, <1>14, <1>19, <2>1, <2>7, OneProvided
<1>21. Batched'
  BY <1>3, <1>4, <1>12, TodoNotPlaced, OneBatched
<1>22. Planned'
  BY <1>3, PlannedNone
<1>23. Unhurried'
  BY <1>3, <1>7, <1>9, <1>11, <1>12, <1>14, OneUnhurried
<1>24. Uncached' /\ Aborting'
  BY <1>3, <1>15 DEF Base, Uncached, Aborting
<1> QED
  BY <1>13, <1>14, <1>16, <1>17, <1>20, <1>21, <1>22, <1>23, <1>24 DEF Base

\* The sequence gets its rows.
LEMMA PlaceKeeps ==
  ASSUME Base, AtSequence, victims = <<>>, NEW id, id = Head(Serving),
         NEW start \in Nat, NEW len \in Nat \ {0}, Place(id, start, len),
         phase = "decode" => /\ start = DecodePosition(seqs[id]) /\ len = 1
                             /\ start < seqs[id].blocks * BlockSize,
         phase = "prefill" => /\ start = seqs[id].prefilled /\ len <= ChunkLen(seqs[id])
                              /\ start + len <= seqs[id].blocks * BlockSize
                              /\ seqs[id].blocks * BlockSize <= start + len + BlockSize
  PROVE  Base'
<1>1. PICK chunk : chunk = [id |-> id, decode |-> phase = "decode", start |-> start, len |-> len]
  OBVIOUS
<1>2. /\ next_seq_id' = next_seq_id /\ waiting' = waiting /\ running' = running
      /\ phase' = phase /\ victims' = <<>> /\ UNCHANGED cache_vars
      /\ batch' = Append(batch, chunk) /\ todo' = Tail(Serving)
  BY <1>1 DEF Place, queue_vars
<1>3. /\ id \in Range(todo) /\ id \in Range(running) /\ id \in DOMAIN seqs /\ id \in Live
      /\ seqs[id].state = "RUNNING" /\ (Complete(seqs[id]) <=> phase = "decode")
      /\ phase = "prefill" =>
           /\ ChunkLen(seqs[id]) \in 1 .. NumPrompt(seqs[id]) - seqs[id].prefilled
           /\ ChunkLen(seqs[id]) <= RowCap - BatchRows
      /\ phase = "decode" => BatchRows < MaxBatch
      /\ todo' \in Seq(Nat) /\ IsInjective(todo')
      /\ Range(todo') \subseteq Range(todo) \ {id}
  BY <1>2, ServedFacts DEF Base
<1>4. phase \in Passes /\ Sound(seqs[id]) /\ id \in Nat /\ BatchRows \in Nat
  BY <1>3, TypedFacts DEF Base, AtSequence
<1>5. PICK S : seqs \in [DOMAIN seqs -> Records(S)]
  BY DEF Base, Typed
<1>6. PICK s \in Records(S) : s = seqs[id]
  BY <1>3, <1>5
<1>7. PICK t : t = IF phase = "decode" THEN s ELSE [s EXCEPT !.prefilled = @ + len]
  OBVIOUS
<1>8. /\ t \in Records(S) /\ t.prompt = s.prompt /\ t.eos = s.eos /\ t.max_gen = s.max_gen
      /\ t.state = s.state /\ t.row = s.row /\ t.blocks = s.blocks /\ t.generated = s.generated
      /\ t.preempts = s.preempts /\ t.chain = s.chain
      /\ t.prefilled = IF phase = "decode" THEN s.prefilled ELSE s.prefilled + len
  <2>1. CASE phase = "decode"
    BY <1>7, <2>1
  <2>2. CASE phase # "decode"
    BY <1>7, <2>2 DEF Records
  <2> QED
    BY <2>1, <2>2
<1>9. seqs' = [seqs EXCEPT ![id] = t]
  <2>1. CASE phase = "decode"
    <3>1. seqs' = seqs /\ t = seqs[id]
      BY <1>6, <1>7, <2>1 DEF Place
    <3> QED
      BY <1>3, <1>5, <3>1
  <2>2. CASE phase # "decode"
    <3>1. seqs' = [seqs EXCEPT ![id].prefilled = @ + len]
      BY <2>2 DEF Place
    <3> QED
      BY <1>6, <1>7, <2>2, <3>1
  <2> QED
    BY <2>1, <2>2
<1>10. /\ DOMAIN seqs' = DOMAIN seqs /\ seqs' \in [DOMAIN seqs' -> Records(S)] /\ seqs'[id] = t
       /\ \A other \in DOMAIN seqs \ {id} : seqs'[other] = seqs[other]
  BY <1>3, <1>5, <1>8, <1>9, SeqsUpdated
<1>11. OnlyMoves(id)
  BY <1>2, <1>3, <1>4, <1>6, <1>8, <1>10 DEF OnlyMoves, Passes
<1>12. chunk \in Runs /\ chunk.id = id /\ chunk.start = start /\ chunk.len = len
       /\ (chunk.decode <=> phase = "decode")
  BY <1>1, <1>4 DEF Runs
<1>13. /\ batch \in Seq(Runs) /\ batch' \in Seq(Runs) /\ Len(batch) \in Nat
       /\ Len(batch') = Len(batch) + 1
       /\ batch'[Len(batch) + 1] = chunk /\ \A i \in 1 .. Len(batch) : batch'[i] = batch[i]
  <2>1. batch \in Seq(Runs)
    BY ListFacts
  <2> QED
    BY <1>2, <1>12, <2>1
<1>14. Typed'
  BY <1>2, <1>3, <1>4, <1>6, <1>8, <1>10, <1>13 DEF Base, Typed, NumPrompt, Phases, Passes
<1>15. Live' = Live /\ Queues' /\ Ordered'
  <2>1. IsInjective(todo') /\ Range(todo') \subseteq Range(running)
    BY <1>3, ListFacts
  <2> QED
    BY <1>11, <2>1, OneMoves
<1>16. Holdings'
  <2>1. block_tables' = block_tables /\ row_busy' = row_busy
    BY <1>2 DEF cache_vars, pool_vars
  <2>2. seqs'[id].blocks = Len(block_tables'[seqs[id].row])
    BY <1>3, <1>6, <1>8, <1>10, <2>1, RowOf
  <2> QED
    BY <1>11, <1>15, <2>1, <2>2, OneHolds
<1>17. /\ s.prefilled \in Nat /\ s.generated \in Nat /\ Len(s.chain) * BlockSize \in Nat
       /\ NumPrompt(s) \in Nat /\ s.blocks * BlockSize \in Nat
       /\ Complete(s) <=> s.prefilled >= NumPrompt(s)
  <2>1. Sound(s)
    BY <1>4, <1>6
  <2>2. Len(s.chain) \in Nat /\ BlockSize \in Nat
    BY <2>1, Sizes DEF Sound
  <2>3. Len(s.chain) * BlockSize \in Nat
    BY <2>2
  <2>4. /\ s.prefilled \in Nat /\ s.generated \in Nat /\ s.blocks * BlockSize \in Nat
        /\ Complete(s) <=> s.prefilled >= NumPrompt(s)
    BY <2>1, Zenon DEF Sound
  <2>5. NumPrompt(s) \in Nat
    <3>1. NumPrompt(s) \in 1 .. MaxSeqLen - 1
      BY <2>1, Zenon DEF Sound
    <3> QED
      BY <3>1, Sizes
  <2> QED
    BY <2>3, <2>4, <2>5, Zenon
<1>18. phase = "prefill" => s.prefilled + len <= NumPrompt(s)
  BY <1>3, <1>6, <1>17
<1>19. Measured'
  <2>1. s.generated < Target(s) /\ (s.generated > 0 => Complete(s))
        /\ Len(s.chain) * BlockSize <= s.prefilled /\ s.prefilled <= NumPrompt(s)
    BY <1>3, <1>4, <1>6 DEF Base, Measured, Passes
  <2>2. NumPrompt(t) = NumPrompt(s) /\ Target(t) = Target(s) /\ Target(s) \in Nat
    BY <1>4, <1>6, <1>8 DEF NumPrompt, Target, Sound
  <2>3. t.prefilled <= NumPrompt(t) /\ s.prefilled <= t.prefilled /\ t.prefilled \in Nat
    BY <1>4, <1>8, <1>17, <1>18, <2>1, <2>2 DEF Passes
  <2>4. Complete(s) => Complete(t)
    BY <1>17, <2>2, <2>3 DEF Complete
  <2>5. /\ t.prefilled <= NumPrompt(t) /\ (t.generated > 0 => Complete(t))
        /\ t.generated <= Target(t) /\ Len(t.chain) * BlockSize <= t.prefilled
        /\ t.generated < Target(t)
    BY <1>8, <1>17, <2>1, <2>2, <2>3, <2>4
  <2> QED
    BY <1>10, <1>11, <2>5, OneMeasured
<1>20. Provided'
  <2>1. \A other \in Live \ {id} : ~Served(other)
    BY DEF Served
  <2>2. s.prefilled <= s.blocks * BlockSize
    BY <1>3, <1>6, ProvidedFacts
  <2>3. t.prefilled <= t.blocks * BlockSize
    BY <1>4, <1>6, <1>8, <2>2 DEF Passes
  <2>4. ~Complete(t) => t.blocks * BlockSize <= t.prefilled + BlockSize
    <3>1. CASE phase = "decode"
      BY <1>3, <1>6, <1>7, <3>1
    <3>2. CASE phase = "prefill"
      BY <1>6, <1>8, <3>2
    <3> QED
      BY <1>4, <3>1, <3>2 DEF Passes
  <2>5. /\ seqs'[id].prefilled <= seqs'[id].blocks * BlockSize
        /\ ~Complete(seqs'[id]) => seqs'[id].blocks * BlockSize <= seqs'[id].prefilled + BlockSize
    BY <1>10, <2>3, <2>4
  <2> QED
    BY <1>11, <1>14, <1>15, <2>1, <2>5, OneProvided
<1>21. Batched'
  <2>1. Batched /\ ~InBatch(id) /\ DOMAIN batch = 1 .. Len(batch)
    BY <1>3, <1>13, TodoNotPlaced DEF Base
  <2>2. ASSUME NEW i \in 1 .. Len(batch)
        PROVE  /\ batch'[i] = batch[i] /\ batch[i].id # id /\ seqs'[batch[i].id] = seqs[batch[i].id]
               /\ batch[i].id \in Range(running) \ Range(todo)
    <3>1. batch[i].id # id
      BY <2>1 DEF InBatch
    <3>2. batch[i].id \in Range(running) \ Range(todo)
      BY <2>1 DEF Batched
    <3> QED
      BY <1>10, <1>13, <3>1, <3>2, ListFacts
  <2>3. \A i \in 1 .. Len(batch') : i \in 1 .. Len(batch) \/ i = Len(batch) + 1
    BY <1>13
  <2>4. \A i, j \in 1 .. Len(batch') : batch'[i].id = batch'[j].id => i = j
    BY <1>12, <1>13, <2>1, <2>2, <2>3 DEF Batched
  <2>5. ASSUME NEW i \in 1 .. Len(batch')
        PROVE  LET c == batch'[i]
                   u == seqs'[c.id]
               IN  /\ c.id \in Range(running') \ Range(todo')
                   /\ u.state = "RUNNING"
                   /\ c.decode =>
                        /\ Complete(u)
                        /\ c.start = DecodePosition(u) /\ c.len = 1
                        /\ c.start < u.blocks * BlockSize
                   /\ ~c.decode => c.start + c.len = u.prefilled
    <3>1. CASE i \in 1 .. Len(batch)
      <4>1. batch'[i] = batch[i] /\ seqs'[batch[i].id] = seqs[batch[i].id]
            /\ batch[i].id \in Range(running') \ Range(todo')
        BY <1>2, <1>3, <2>2, <3>1
      <4> QED
        BY <2>1, <3>1, <4>1 DEF Batched, Complete, DecodePosition, NumPrompt
    <3>2. CASE i = Len(batch) + 1
      <4>1. batch'[i] = chunk /\ seqs'[id] = t /\ id \in Range(running') \ Range(todo')
        BY <1>2, <1>3, <1>10, <1>13, <3>2
      <4>2. t.state = "RUNNING"
        BY <1>3, <1>6, <1>8
      <4>3. phase = "decode" => Complete(t) /\ start = DecodePosition(t) /\ len = 1
                                /\ start < t.blocks * BlockSize
        BY <1>3, <1>6, <1>7
      <4>4. phase # "decode" => start + len = t.prefilled
        BY <1>4, <1>6, <1>8 DEF Passes
      <4> QED
        BY <1>12, <4>1, <4>2, <4>3, <4>4
    <3> QED
      BY <2>3, <3>1, <3>2
  <2>6. phase = "decode" => \A i \in 1 .. Len(batch') : batch'[i].decode
    BY <1>12, <1>13, <2>1, <2>3 DEF Batched
  <2>7. \A i, j \in 1 .. Len(batch') : i < j /\ batch'[j].decode => batch'[i].decode
    <3>1. CASE phase = "decode"
      BY <2>6, <3>1
    <3>2. CASE phase # "decode"
      BY <1>12, <1>13, <2>1, <2>3, <3>2 DEF Batched
    <3> QED
      BY <3>1, <3>2
  <2>8. BatchRows' <= RowCap'
    <3>1. BatchRows' = BatchRows + len
      BY <1>2, <1>12, <1>13, RowsFacts DEF BatchRows, Runs
    <3>2. RowCap' = RowCap /\ RowCap \in Nat /\ RowCap = MaxBatch + PrefillReserve
          /\ MaxBatch \in Nat /\ PrefillReserve \in Nat
      BY Sizes DEF RowCap
    <3>3. CASE phase = "decode"
      BY <1>3, <1>4, <3>1, <3>2, <3>3
    <3>4. CASE phase = "prefill"
      <4>1. len <= ChunkLen(seqs[id]) /\ ChunkLen(seqs[id]) <= RowCap - BatchRows
            /\ ChunkLen(seqs[id]) \in Int
        BY <1>3, <1>4, <3>4 DEF Sound
      <4> QED
        BY <1>4, <3>1, <3>2, <4>1
    <3> QED
      BY <1>4, <3>3, <3>4 DEF Passes
  <2> QED
    BY <1>2, <2>4, <2>5, <2>6, <2>7, <2>8 DEF Batched, Complete, DecodePosition, NumPrompt
<1>22. Planned'
  BY <1>2, PlannedNone
<1>23. Unhurried'
  BY <1>2, <1>6, <1>8, <1>10, <1>11, <1>15, OneUnhurried
<1>24. Uncached' /\ Aborting'
  BY <1>2 DEF Base, Uncached, Aborting, cache_vars
<1> QED
  BY <1>14, <1>15, <1>16, <1>19, <1>20, <1>21, <1>22, <1>23, <1>24 DEF Base

\* A sequence that decodes gets its row when its block is there.
LEMMA PlaceDecodeKeeps == ASSUME Base, PlaceDecode PROVE Base'
<1>1. PICK id, start : id = Head(Serving) /\ start = DecodePosition(seqs[id])
  OBVIOUS
<1>2. AtSequence /\ victims = <<>> /\ phase = "decode" /\ ~(ShortBlocks(seqs[id]) > 0)
      /\ Place(id, start, 1)
  <2>1. ShortBlocks(seqs[id]) <= 0 /\ Building /\ phase = "decode" /\ Place(id, start, 1)
    BY <1>1 DEF PlaceDecode
  <2>2. AtSequence /\ victims = <<>>
    BY <2>1 DEF Building, AtSequence, Passes
  <2> QED
    BY <1>1, <2>1, <2>2, ShortFacts
<1>3. /\ LastPosition(seqs[id]) \in Nat /\ LastPosition(seqs[id]) = start
      /\ ~(seqs[id].blocks * BlockSize <= start)
  BY <1>1, <1>2, ShortFacts DEF LastPosition
<1>4. seqs[id].blocks * BlockSize \in Nat
  BY <1>1, <1>2, ServedFacts, TypedFacts DEF Base, Sound
<1>5. start \in Nat /\ start < seqs[id].blocks * BlockSize
  BY <1>3, <1>4
<1>6. phase = "decode" => /\ start = DecodePosition(seqs[id]) /\ 1 = 1
                          /\ start < seqs[id].blocks * BlockSize
  BY <1>1, <1>5
<1>7. phase # "prefill" /\ 1 \in Nat \ {0}
  BY <1>2
<1> QED
  BY <1>1, <1>2, <1>5, <1>6, <1>7, PlaceKeeps

\* What a chunk may take.
LEMMA ChunkFacts ==
  ASSUME Base, AtSequence, phase = "prefill", NEW id, id = Head(Serving)
  PROVE  LET s == seqs[id]
         IN  /\ ChunkLen(s) \in Nat \ {0} /\ s.prefilled \in Nat /\ s.blocks * BlockSize \in Nat
             /\ BlockSize \in Nat /\ ShortBlocks(s) \in Int
             /\ ShortBlocks(s) > 0 <=> s.blocks * BlockSize <= s.prefilled + ChunkLen(s) - 1
             /\ s.blocks * BlockSize <= s.prefilled + BlockSize + (ChunkLen(s) - 1)
<1>1. id \in Live /\ id \in DOMAIN seqs /\ ~Complete(seqs[id])
      /\ ChunkLen(seqs[id]) \in 1 .. NumPrompt(seqs[id]) - seqs[id].prefilled
  BY ServedFacts DEF Base
<1>2. Sound(seqs[id]) /\ BlockSize \in Nat
  BY <1>1, Sizes, TypedFacts DEF Base
<1>3. Served(id)
  BY DEF Served
<1>4. LastPosition(seqs[id]) = seqs[id].prefilled + ChunkLen(seqs[id]) - 1
  BY DEF LastPosition
<1>5. /\ ShortBlocks(seqs[id]) \in Int
      /\ ShortBlocks(seqs[id]) > 0 <=> seqs[id].blocks * BlockSize <= LastPosition(seqs[id])
  BY ShortFacts
<1>6. seqs[id].blocks * BlockSize <= seqs[id].prefilled + BlockSize + (ChunkLen(seqs[id]) - 1)
  BY <1>1, <1>3, ProvidedFacts
<1> QED
  BY <1>1, <1>2, <1>4, <1>5, <1>6 DEF Sound

\* A chunk is placed whole.
LEMMA PlaceChunkKeeps == ASSUME Base, PlaceChunk PROVE Base'
<1>1. PICK id, start, len : id = Head(Serving) /\ start = seqs[id].prefilled /\ len = ChunkLen(seqs[id])
  OBVIOUS
<1>2. AtSequence /\ victims = <<>> /\ phase = "prefill" /\ ShortBlocks(seqs[id]) <= 0
      /\ Place(id, start, len)
  BY <1>1 DEF PlaceChunk, Building, AtSequence, Passes
<1>3. PICK have : have = seqs[id].blocks * BlockSize
  OBVIOUS
<1>4. /\ len \in Nat \ {0} /\ start \in Nat /\ have \in Nat /\ BlockSize \in Nat
      /\ ~(have <= start + len - 1) /\ have <= start + BlockSize + (len - 1)
  BY <1>1, <1>2, <1>3, ChunkFacts
<1>5. start + len <= have /\ have <= start + len + BlockSize /\ len <= len
  BY <1>4
<1>6. phase = "prefill" => /\ start = seqs[id].prefilled /\ len <= ChunkLen(seqs[id])
                           /\ start + len <= seqs[id].blocks * BlockSize
                           /\ seqs[id].blocks * BlockSize <= start + len + BlockSize
  BY <1>1, <1>3, <1>5
<1>7. phase # "decode"
  BY <1>2
<1> QED
  BY <1>1, <1>2, <1>4, <1>6, <1>7, PlaceKeeps

\* A chunk shrinks to the blocks that are there.
LEMMA PlaceShrunkChunkKeeps == ASSUME Base, PlaceShrunkChunk PROVE Base'
<1>1. PICK id, start, len : id = Head(Serving) /\ start = seqs[id].prefilled /\ len = Covered(seqs[id])
  OBVIOUS
<1>2. AtSequence /\ victims = <<>> /\ phase = "prefill" /\ ShortBlocks(seqs[id]) > 0 /\ len > 0
      /\ Place(id, start, len)
  BY <1>1 DEF PlaceShrunkChunk, Building, AtSequence, Passes, Exhausted
<1>3. PICK have, whole : have = seqs[id].blocks * BlockSize /\ whole = ChunkLen(seqs[id])
  OBVIOUS
<1>4. /\ whole \in Nat \ {0} /\ start \in Nat /\ have \in Nat /\ BlockSize \in Nat
      /\ have <= start + whole - 1
  BY <1>1, <1>2, <1>3, ChunkFacts
<1>5. len = have - start
  BY <1>1, <1>3 DEF Covered
<1>6. len \in Nat \ {0} /\ len <= whole /\ start + len <= have /\ have <= start + len + BlockSize
  BY <1>2, <1>4, <1>5
<1>7. phase = "prefill" => /\ start = seqs[id].prefilled /\ len <= ChunkLen(seqs[id])
                           /\ start + len <= seqs[id].blocks * BlockSize
                           /\ seqs[id].blocks * BlockSize <= start + len + BlockSize
  BY <1>1, <1>3, <1>6
<1>8. phase # "decode"
  BY <1>2
<1> QED
  BY <1>1, <1>2, <1>4, <1>6, <1>7, <1>8, PlaceKeeps

\* A sequence nobody can help is finished, and the pool is not roomy.
LEMMA ForceFinishKeeps == ASSUME Base, CacheInv, ForceFinish PROVE Base' /\ ~Roomy
<1>1. PICK id : id = Head(Serving)
  OBVIOUS
<1>2. /\ AtSequence /\ Exhausted(id) /\ UNCHANGED cache_vars
      /\ seqs' = [seqs EXCEPT ![id].state = "FINISHED"] /\ todo' = Tail(Serving)
      /\ next_seq_id' = next_seq_id /\ waiting' = waiting /\ running' = running
      /\ phase' = phase /\ batch' = batch /\ victims' = victims /\ victims = <<>>
  BY <1>1 DEF ForceFinish, Building, AtSequence, Passes, queue_vars
<1>3. ~Roomy
  BY <1>1, <1>2, ExhaustedSmall
<1>4. /\ id \in Range(todo) /\ id \in Range(running) /\ id \in DOMAIN seqs /\ id \in Live
      /\ seqs[id].state = "RUNNING"
      /\ todo' \in Seq(Nat) /\ IsInjective(todo')
      /\ Range(todo') \subseteq Range(todo)
  BY <1>1, <1>2, ServedFacts DEF Base
<1>5. phase \in Passes
  BY <1>2 DEF AtSequence
<1>6. PICK S : seqs \in [DOMAIN seqs -> Records(S)]
  BY DEF Base, Typed
<1>7. PICK s \in Records(S) : s = seqs[id]
  BY <1>4, <1>6
<1>8. PICK t : t = [s EXCEPT !.state = "FINISHED"]
  OBVIOUS
<1>9. /\ t \in Records(S) /\ t.blocks = s.blocks /\ t.state = "FINISHED"
      /\ t.prompt = s.prompt /\ t.eos = s.eos /\ t.max_gen = s.max_gen
      /\ t.row = s.row /\ t.prefilled = s.prefilled /\ t.generated = s.generated
      /\ t.preempts = s.preempts /\ t.chain = s.chain
  BY <1>8 DEF Records, States
<1>10. seqs' = [seqs EXCEPT ![id] = t]
  BY <1>2, <1>7, <1>8
<1>11. /\ DOMAIN seqs' = DOMAIN seqs /\ seqs' \in [DOMAIN seqs' -> Records(S)] /\ seqs'[id] = t
       /\ \A other \in DOMAIN seqs \ {id} : seqs'[other] = seqs[other]
  BY <1>4, <1>6, <1>9, <1>10, SeqsUpdated
<1>12. OnlyMoves(id)
  BY <1>2, <1>4, <1>5, <1>7, <1>9, <1>11 DEF OnlyMoves, Passes
<1>13. Typed'
  BY <1>2, <1>4, <1>5, <1>7, <1>9, <1>11 DEF Base, Typed, NumPrompt, Phases, Passes
<1>14. Live' = Live /\ Queues' /\ Ordered'
  BY <1>4, <1>12, ListFacts, OneMoves
<1>15. Holdings'
  <2>1. block_tables' = block_tables /\ row_busy' = row_busy
    BY <1>2 DEF cache_vars, pool_vars
  <2>2. seqs'[id].blocks = Len(block_tables'[seqs[id].row])
    BY <1>4, <1>7, <1>9, <1>11, <2>1, RowOf
  <2> QED
    BY <1>12, <1>14, <2>1, <2>2, OneHolds
<1>16. Measured'
  BY <1>4, <1>7, <1>9, <1>11, <1>12, OneMeasured DEF Base, Measured, NumPrompt, Complete, Target
<1>17. Provided'
  <2>1. \A other \in Live \ {id} : ~Served(other)
    BY <1>1 DEF Served
  <2>2. seqs'[id].prefilled <= seqs'[id].blocks * BlockSize
    BY <1>4, <1>7, <1>9, <1>11, ProvidedFacts
  <2>3. seqs'[id].state = "FINISHED"
    BY <1>9, <1>11
  <2> QED
    BY <1>12, <1>13, <1>14, <2>1, <2>2, <2>3, OneProvided
<1>18. Batched'
  BY <1>2, <1>4, <1>12, TodoNotPlaced, OneBatched
<1>19. Planned'
  BY <1>2, PlannedNone
<1>20. Unhurried'
  BY <1>3 DEF Unhurried, Roomy
<1>21. Uncached' /\ Aborting'
  BY <1>2 DEF Base, Uncached, Aborting, cache_vars
<1> QED
  BY <1>3, <1>13, <1>14, <1>15, <1>16, <1>17, <1>18, <1>19, <1>20, <1>21 DEF Base

-------------------------------------------------------------------------------
(* Preemption.                                                               *)

\* Cuts of sequences that may yield, each once, which leave each a block.
GoodCuts(cuts, for) ==
  /\ \A i, j \in 1 .. Len(cuts) : cuts[i][1] = cuts[j][1] => i = j
  /\ \A i \in 1 .. Len(cuts) :
       LET id == cuts[i][1]
       IN  /\ id \in Range(running) /\ MayYield(id, for)
           /\ cuts[i][2] \in 1 .. seqs[id].blocks - 1
PlansFor(for) == {plan \in Plans : GoodCuts(plan.cuts, for)}

\* What a cut would give back can be counted.
LEMMA GainIsNat ==
  ASSUME Base, CacheInv, NEW id \in Range(running), NEW keep \in Int
  PROVE  Gain(seqs[id], keep) \in Nat
<1>1. id \in Live /\ seqs[id].state # "WAITING"
  BY DEF Base, Queues, Live
<1>2. PICK table \in Seq(Blocks) : table = block_tables[seqs[id].row]
  BY <1>1, RowOf, PoolFacts DEF CacheInv, PoolView
<1> DEFINE gained == {i \in keep + 1 .. Len(table) : LET b == table[i] IN ref_counts[b] = 1 /\ ~cached[b]}
<1>3. keep + 1 \in Int /\ Len(table) \in Int
  BY <1>2
<1>4. IsFiniteSet(keep + 1 .. Len(table))
  BY <1>3, FS_Interval
<1>5. IsFiniteSet(gained)
  BY <1>4, FS_Subset
<1>6. Cardinality(gained) \in Nat
  BY <1>5, FS_CardinalityType
<1>7. Gain(seqs[id], keep) = Cardinality(gained)
  BY <1>2 DEF Gain
<1> QED
  BY <1>6, <1>7

\* One more candidate leaves a plan good.
LEMMA ConsiderKeeps ==
  ASSUME Base, CacheInv, NEW for, NEW plan \in PlansFor(for), NEW candidate,
         NEW round, NEW id \in Range(running), MayYield(id, for), candidate = <<round, id>>
  PROVE  Consider(candidate)[plan] \in PlansFor(for)
<1>1. id \in Live /\ id \in Nat /\ Sound(seqs[id])
  BY ListFacts, TypedFacts DEF Base
<1>2. PICK s : s = seqs[id]
  OBVIOUS
<1>3. PICK blocks, prompt \in Nat : blocks = s.blocks /\ prompt = NumPrompt(s) /\ prompt >= 1
  <2>1. s.blocks \in Nat /\ NumPrompt(s) \in 1 .. MaxSeqLen - 1
    BY <1>1, <1>2 DEF Sound
  <2>2. PICK n : n = NumPrompt(s)
    OBVIOUS
  <2>3. n \in Nat /\ n >= 1
    BY <2>1, <2>2, Sizes
  <2> QED
    BY <2>1, <2>2, <2>3
<1>4. PICK floor : floor = Floor(s, round)
  OBVIOUS
<1>5. floor \in Int /\ (floor <= blocks - 1 => floor >= 1)
  <2>1. PICK c : c = CeilDiv(prompt, BlockSize)
    OBVIOUS
  <2>2. c \in Nat /\ c >= 1
    <3>0. BlockSize \in Nat \ {0}
      BY Sizes
    <3>1. c \in Nat /\ (c <= 0 <=> prompt <= 0 * BlockSize)
      <4>1. PICK none \in Int : none = 0
        OBVIOUS
      <4>2. c \in Nat /\ (c <= none <=> prompt <= none * BlockSize)
        BY <2>1, <3>0, FitInBlocks
      <4> QED
        BY <4>1, <4>2
    <3> QED
      BY <1>3, <3>1, Sizes
  <2>3. floor = Min({c, blocks}) \/ floor = 1
    BY <1>3, <1>4, <2>1 DEF Floor
  <2>4. Min({c, blocks}) = IF c <= blocks THEN c ELSE blocks
    BY <1>3, <2>2, MinOfTwo
  <2> QED
    BY <1>3, <2>2, <2>3, <2>4
<1>6. /\ plan.needed \in Int /\ plan.cuts \in Seq(Nat \X Nat) /\ GoodCuts(plan.cuts, for)
  BY DEF PlansFor, Plans
<1>7. PICK gain \in Nat : gain = Gain(s, floor)
  BY <1>2, <1>5, GainIsNat
<1>8. PICK take : take = Min({blocks - floor, gain, plan.needed})
  OBVIOUS
<1>9. take \in Int /\ take <= blocks - floor
  <2>1. PICK a, n : a = blocks - floor /\ n = plan.needed
    OBVIOUS
  <2>2. a \in Int /\ n \in Int /\ gain \in Int
    BY <1>3, <1>5, <1>6, <2>1
  <2>3. take \in {a, gain, n} /\ take <= a
    BY <1>8, <2>1, <2>2, MinOfThree
  <2> QED
    BY <2>1, <2>2, <2>3
<1>10. PICK keep : keep = IF Gain(s, blocks - take) > 0 THEN blocks - take ELSE floor
  OBVIOUS
<1>11. PICK taken : taken <=> \E cut \in Range(plan.cuts) : cut[1] = id
  <2>1. \E t \in BOOLEAN : t <=> \E cut \in Range(plan.cuts) : cut[1] = id
    OBVIOUS
  <2> QED
    BY <2>1
<1>12. Consider(candidate)[plan] =
         IF take <= 0 \/ \E cut \in Range(plan.cuts) : cut[1] = id
           THEN plan
           ELSE [needed |-> plan.needed - Gain(s, keep), cuts |-> Append(plan.cuts, <<id, keep>>)]
  <2>1. plan \in Plans
    BY DEF PlansFor
  <2> QED
    BY <1>2, <1>3, <1>4, <1>7, <1>8, <1>10, <2>1 DEF Consider
<1>13. ASSUME ~(take <= 0), ~(\E cut \in Range(plan.cuts) : cut[1] = id)
       PROVE  [needed |-> plan.needed - Gain(s, keep), cuts |-> Append(plan.cuts, <<id, keep>>)] \in PlansFor(for)
  <2>1. take >= 1 /\ floor >= 1
    BY <1>3, <1>5, <1>9, <1>13
  <2>2. keep \in 1 .. blocks - 1
    BY <1>3, <1>5, <1>9, <1>10, <2>1
  <2>3. Gain(s, keep) \in Nat
    BY <1>2, <1>3, <2>2, GainIsNat
  <2>4. PICK was, cut, is : was = plan.cuts /\ cut = <<id, keep>> /\ is = Append(was, cut)
    OBVIOUS
  <2>5. cut \in Nat \X Nat /\ cut[1] = id /\ cut[2] = keep
    BY <1>1, <1>3, <2>2, <2>4
  <2>6. /\ was \in Seq(Nat \X Nat) /\ is \in Seq(Nat \X Nat) /\ Len(was) \in Nat /\ Len(is) = Len(was) + 1
        /\ is[Len(was) + 1] = cut /\ \A i \in 1 .. Len(was) : is[i] = was[i]
    BY <1>6, <2>4, <2>5
  <2>7. \A i \in 1 .. Len(was) : was[i][1] # id
    <3>1. \A i \in 1 .. Len(was) : was[i] \in Range(plan.cuts)
      BY <1>6, <2>4 DEF Range
    <3> QED
      BY <1>13, <3>1
  <2>8. \A i \in 1 .. Len(is) : i \in 1 .. Len(was) \/ i = Len(was) + 1
    BY <2>6
  <2>9. GoodCuts(was, for)
    BY <1>6, <2>4
  <2>10. \A i, j \in 1 .. Len(is) : is[i][1] = is[j][1] => i = j
    BY <2>5, <2>6, <2>7, <2>8, <2>9 DEF GoodCuts
  <2>11. ASSUME NEW i \in 1 .. Len(is)
         PROVE  LET o == is[i][1]
                IN  o \in Range(running) /\ MayYield(o, for) /\ is[i][2] \in 1 .. seqs[o].blocks - 1
    <3>1. CASE i \in 1 .. Len(was)
      BY <2>6, <2>9, <3>1 DEF GoodCuts
    <3>2. CASE i = Len(was) + 1
      BY <1>2, <1>3, <2>2, <2>5, <2>6, <3>2
    <3> QED
      BY <2>8, <3>1, <3>2
  <2>12. GoodCuts(is, for)
    BY <2>10, <2>11 DEF GoodCuts
  <2>13. plan.needed - Gain(s, keep) \in Int
    BY <1>6, <2>3
  <2> QED
    BY <2>4, <2>6, <2>12, <2>13 DEF PlansFor, Plans
<1> QED
  BY <1>12, <1>13

\* The candidates may yield.
LEMMA CandidatesFacts ==
  ASSUME Base, NEW for
  PROVE  /\ Candidates(for) \in Seq((0 .. 1) \X Nat) /\ Len(Candidates(for)) \in Nat
         /\ \A i \in 1 .. Len(Candidates(for)) :
              \E round : \E id \in Range(running) :
                MayYield(id, for) /\ Candidates(for)[i] = <<round, id>>
<1> DEFINE yield == {id \in DOMAIN seqs : MayYield(id, for)}
<1>1. PICK back : back = Reverse(running)
  OBVIOUS
<1>2. back \in Seq(Nat) /\ Range(back) \subseteq Range(running)
  <2>1. running \in Seq(Nat) /\ Len(running) \in Nat
    BY ListFacts
  <2>2. back = [i \in 1 .. Len(running) |-> running[(Len(running) - i) + 1]]
    BY <1>1 DEF Reverse
  <2>3. \A i \in 1 .. Len(running) : (Len(running) - i) + 1 \in 1 .. Len(running)
    BY <2>1
  <2>4. back \in Seq(Nat) /\ Len(back) = Len(running)
    BY <2>1, <2>2, <2>3
  <2>5. \A i \in 1 .. Len(running) : back[i] \in Range(running)
    BY <2>1, <2>2, <2>3 DEF Range
  <2>6. DOMAIN back = 1 .. Len(running)
    BY <2>2
  <2> QED
    BY <2>4, <2>5, <2>6 DEF Range
<1>3. PICK newest : newest = Filtered(back, yield)
  OBVIOUS
<1>4. newest \in Seq(Nat) /\ Range(newest) = Range(back) \cap yield
  <2> HIDE DEF yield
  <2> QED
    BY <1>2, <1>3, FilteredFacts
<1>5. PICK fresh, repeat : fresh = Filtered(newest, DOMAIN seqs \ Deferred) /\ repeat = Filtered(newest, Deferred)
  OBVIOUS
<1>6. /\ fresh \in Seq(Nat) /\ repeat \in Seq(Nat)
      /\ Range(fresh) \subseteq Range(newest) /\ Range(repeat) \subseteq Range(newest)
  BY <1>4, <1>5, FilteredFacts
<1>7. PICK all : all = fresh \o repeat
  OBVIOUS
<1>8. all \in Seq(Nat) /\ Len(all) \in Nat /\ Range(all) = Range(fresh) \cup Range(repeat)
  BY <1>6, <1>7, ConcatRange
<1>9. \A i \in 1 .. Len(all) : all[i] \in Range(running) /\ MayYield(all[i], for)
  <2>1. \A i \in 1 .. Len(all) : all[i] \in Range(all)
    BY <1>8 DEF Range
  <2> QED
    BY <1>2, <1>4, <1>6, <1>8, <2>1
<1> DEFINE first == [i \in 1 .. Len(all) |-> <<0, all[i]>>]
           second == [i \in 1 .. Len(all) |-> <<1, all[i]>>]
<1>10. Candidates(for) = first \o second
  BY <1>1, <1>3, <1>5, <1>7 DEF Candidates
<1>11. first \in Seq((0 .. 1) \X Nat) /\ second \in Seq((0 .. 1) \X Nat) /\ Len(first) = Len(all) /\ Len(second) = Len(all)
  <2>1. \A i \in 1 .. Len(all) : all[i] \in Nat
    BY <1>8
  <2> QED
    BY <1>8, <2>1
<1>12. \A i \in 1 .. Len(all) : first[i] = <<0, all[i]>> /\ second[i] = <<1, all[i]>>
  OBVIOUS
<1> HIDE DEF first, second
<1>13. PICK whole : whole = first \o second
  OBVIOUS
<1>14. /\ Len(whole) = Len(all) + Len(all)
       /\ \A i \in 1 .. Len(whole) : whole[i] = IF i <= Len(all) THEN first[i] ELSE second[i - Len(all)]
  <2>1. PICK a, b : a = first /\ b = second
    OBVIOUS
  <2>2. a \in Seq((0 .. 1) \X Nat) /\ b \in Seq((0 .. 1) \X Nat)
    BY <1>11, <2>1
  <2>3. /\ Len(a \o b) = Len(a) + Len(b) /\ Len(a) \in Nat /\ Len(b) \in Nat
        /\ \A i \in 1 .. Len(a \o b) : (a \o b)[i] = IF i <= Len(a) THEN a[i] ELSE b[i - Len(a)]
    BY <2>2
  <2> QED
    BY <1>11, <1>13, <2>1, <2>3
<1>15. ASSUME NEW i \in 1 .. Len(whole)
       PROVE  \E round : \E id \in Range(running) : MayYield(id, for) /\ whole[i] = <<round, id>>
  <2>1. CASE i <= Len(all)
    <3>1. i \in 1 .. Len(all) /\ whole[i] = first[i]
      BY <1>8, <1>14, <2>1
    <3> QED
      BY <1>9, <1>12, <3>1
  <2>2. CASE ~(i <= Len(all))
    <3>1. PICK k : k = i - Len(all)
      OBVIOUS
    <3>2. k \in 1 .. Len(all) /\ whole[i] = second[k]
      BY <1>8, <1>14, <2>2, <3>1
    <3> QED
      BY <1>9, <1>12, <3>2
  <2> QED
    BY <2>1, <2>2
<1>16. whole \in Seq((0 .. 1) \X Nat) /\ Len(whole) \in Nat
  <2>1. PICK a, b : a = first /\ b = second
    OBVIOUS
  <2>2. a \in Seq((0 .. 1) \X Nat) /\ b \in Seq((0 .. 1) \X Nat)
    BY <1>11, <2>1
  <2> QED
    BY <1>13, <2>1, <2>2
<1>17. Candidates(for) = whole
  BY <1>10, <1>13
<1> QED
  BY <1>15, <1>16, <1>17, Zenon

\* Considering any candidate keeps a plan in Q.
KeptByAll(for, Q) ==
  \A n \in 1 .. Len(Candidates(for)) : \A plan \in Q : Consider(Candidates(for)[n])[plan] \in Q

\* What every candidate keeps of a plan holds of the plan in the end.
LEMMA PlanReaches ==
  ASSUME Base, NEW for, NEW need, NEW Q, Q \subseteq Plans,
         [needed |-> need - Len(free_blocks), cuts |-> <<>>] \in Q, KeptByAll(for, Q)
  PROVE  PreemptionPlan(for, need) \in Q
<1> DEFINE N == Len(Candidates(for))
           start == [needed |-> need - Len(free_blocks), cuts |-> <<>>]
           P(g) == g = [n \in 0 .. N |->
                          IF n = 0 THEN start ELSE Consider(Candidates(for)[n])[g[n - 1]]]
           step == [p \in (1 .. N) \X Q |-> Consider(Candidates(for)[p[1]])[p[2]]]
<1>1. N \in Nat
  BY CandidatesFacts
<1>2. start \in Q
  OBVIOUS
<1>3. \A n \in 1 .. N : \A plan \in Q : Consider(Candidates(for)[n])[plan] \in Q
  BY DEF KeptByAll
<1>4. \A n \in 1 .. N : \A plan \in Q : step[<<n, plan>>] = Consider(Candidates(for)[n])[plan]
  OBVIOUS
<1> HIDE DEF step, N, start
<1>5. Maintains(step, N, Q)
  BY <1>3, <1>4, Zenon DEF Maintains
<1>6. PICK f \in [0 .. N -> Q] : Follows(f, start, step, N)
  <2>1. PICK R, first, n, st : R = Q /\ first = start /\ n = N /\ st = step
    OBVIOUS
  <2>2. first \in R /\ n \in Nat /\ Maintains(st, n, R)
    BY <1>1, <1>2, <1>5, <2>1
  <2>3. \E f \in [0 .. n -> R] : Follows(f, first, st, n)
    BY <2>2, Recursion
  <2> QED
    BY <2>1, <2>3
<1>7. f[0] = start /\ \A n \in 1 .. N : f[n] = Consider(Candidates(for)[n])[f[n - 1]]
  <2>1. \A n \in 1 .. N : f[n - 1] \in Q
    BY <1>1, <1>6
  <2> QED
    BY <1>4, <1>6, <2>1 DEF Follows
<1>8. P(f)
  <2> DEFINE g == [n \in 0 .. N |-> IF n = 0 THEN start ELSE Consider(Candidates(for)[n])[f[n - 1]]]
  <2>1. \A n \in 0 .. N : f[n] = g[n]
    BY <1>1, <1>7
  <2>2. DOMAIN f = 0 .. N /\ f = [n \in 0 .. N |-> f[n]]
    BY <1>6
  <2>3. f = g
    BY <2>1, <2>2
  <2> QED
    BY <2>3
<1> DEFINE h == CHOOSE g : P(g)
<1>9. PreemptionPlan(for, need) = h[N]
  <2>1. PICK list, first : list = Candidates(for) /\ first = start
    OBVIOUS
  <2>2. list \in Seq((0 .. 1) \X Nat)
    BY <2>1, CandidatesFacts
  <2>3. PreemptionPlan(for, need) = Considered(first)[list]
    BY <2>1 DEF PreemptionPlan, start
  <2> QED
    BY <2>1, <2>2, <2>3 DEF Considered, N
<1>10. P(h)
  <2> HIDE DEF P
  <2> QED
    BY <1>8 DEF h
<1> HIDE DEF h
<1>11. h[0] = start /\ \A n \in 1 .. N : h[n] = Consider(Candidates(for)[n])[h[n - 1]]
  BY <1>1, <1>10
<1>12. \A n \in 0 .. N : h[n] \in Q
  <2> DEFINE T == {n \in 0 .. N : h[n] \in Q}
  <2>1. 0 \in T
    BY <1>1, <1>2, <1>11
  <2>2. ASSUME NEW n \in 1 .. N, n - 1 \in T PROVE n \in T
    <3>1. h[n - 1] \in Q /\ n \in 0 .. N
      BY <1>1, <2>2
    <3>2. h[n] \in Q
      BY <1>3, <1>11, <3>1
    <3> QED
      BY <3>1, <3>2
  <2>3. 0 .. N \subseteq T
    <3> HIDE DEF T
    <3> QED
      BY <1>1, <2>1, <2>2, UpwardClosed
  <2> QED
    BY <2>3
<1> QED
  BY <1>1, <1>9, <1>12

\* A plan starts without a cut.
LEMMA FirstPlan ==
  ASSUME CacheInv, NEW for, NEW need \in Int
  PROVE  [needed |-> need - Len(free_blocks), cuts |-> <<>>] \in PlansFor(for)
<1>1. Len(free_blocks) \in Nat
  BY PoolFacts DEF CacheInv, PoolView
<1>2. <<>> \in Seq(Nat \X Nat) /\ Len(<<>>) = 0
  OBVIOUS
<1>3. GoodCuts(<<>>, for)
  BY <1>2 DEF GoodCuts
<1> QED
  BY <1>1, <1>2, <1>3 DEF PlansFor, Plans

\* A plan is made of good cuts.
LEMMA PlanFacts ==
  ASSUME Base, CacheInv, NEW for, NEW need \in Int
  PROVE  PreemptionPlan(for, need) \in PlansFor(for)
<1>1. ASSUME NEW n \in 1 .. Len(Candidates(for)), NEW plan \in PlansFor(for)
      PROVE  Consider(Candidates(for)[n])[plan] \in PlansFor(for)
  <2>1. PICK round, id : id \in Range(running) /\ MayYield(id, for) /\ Candidates(for)[n] = <<round, id>>
    BY CandidatesFacts
  <2>2. PICK candidate : candidate = Candidates(for)[n] /\ candidate = <<round, id>>
    BY <2>1
  <2>3. Consider(candidate)[plan] \in PlansFor(for)
    BY <2>1, <2>2, ConsiderKeeps
  <2> QED
    BY <2>2, <2>3
<1>2. PlansFor(for) \subseteq Plans
  BY DEF PlansFor
<1> QED
  BY <1>1, <1>2, FirstPlan, PlanReaches DEF KeptByAll

\* The pass stays at the sequence it is at.
LEMMA StaysAt ==
  ASSUME Base, AtSequence, NEW id, id = Head(Serving), DOMAIN seqs' = DOMAIN seqs,
         seqs'[id] = seqs[id], phase' = phase, todo' = todo, batch' = batch,
         \A other \in DOMAIN seqs : seqs'[other] = seqs[other] \/ seqs'[other].state # "RUNNING"
  PROVE  /\ Served(id)' /\ AtSequence' /\ Head(Serving)' = id
         /\ ChunkLen(seqs[id])' = ChunkLen(seqs[id])
<1> DEFINE keep == {o \in DOMAIN seqs : /\ seqs[o].state = "RUNNING"
                                        /\ Complete(seqs[o]) <=> phase = "decode"}
           fewer == {o \in DOMAIN seqs : /\ seqs'[o].state = "RUNNING"
                                         /\ Complete(seqs'[o]) <=> phase = "decode"}
<1>1. fewer \in SUBSET keep
  OBVIOUS
<1>2. id \in keep => id \in fewer
  OBVIOUS
<1>3. Serving = Filtered(todo, keep) /\ Serving' = Filtered(todo, fewer)
  <2>1. Serving = Filtered(todo, keep)
    BY DEF Serving
  <2>2. \A o \in DOMAIN seqs : Complete(seqs[o])' = Complete(seqs'[o])
    BY DEF Complete, NumPrompt
  <2>3. Serving' = Filtered(todo', {o \in DOMAIN seqs' : /\ seqs'[o].state = "RUNNING"
                                                         /\ Complete(seqs'[o]) <=> phase' = "decode"})
    BY DEF Serving, Complete, NumPrompt
  <2> QED
    BY <2>1, <2>3
<1>4. todo \in Seq(Nat) /\ Serving # <<>>
  BY ListFacts DEF AtSequence
<1> HIDE DEF keep, fewer
<1>5. id \in keep
  <2>1. Head(Filtered(todo, keep)) \in Range(todo) \cap keep
    BY <1>3, <1>4, FilteredFacts
  <2> QED
    BY <1>3, <2>1
<1>6. Serving' # <<>> /\ Head(Serving') = id
  BY <1>1, <1>2, <1>3, <1>4, <1>5, SameHead
<1>7. BatchHasRoom' = BatchHasRoom
  BY DEF BatchHasRoom, BatchRows, PrefillTaken, RowCap
<1>8. ChunkLen(seqs[id])' = ChunkLen(seqs[id])
  BY DEF ChunkLen, Remaining, NumPrompt, PrefillTaken, RowCap, BatchRows
<1> QED
  BY <1>6, <1>7, <1>8 DEF Served, AtSequence

\* Cuts are planned for a sequence that is short of blocks.
LEMMA PlanPreemptionKeeps == ASSUME Base, CacheInv, PlanPreemption PROVE Base' /\ ~Roomy
<1>1. PICK id : id = Head(Serving)
  OBVIOUS
<1>2. PICK need : need = ShortBlocks(seqs[id])
  OBVIOUS
<1>3. /\ AtSequence /\ Exhausted(id) /\ UNCHANGED cache_vars
      /\ seqs' = seqs /\ todo' = todo /\ victims' = PreemptionPlan(id, need).cuts
      /\ next_seq_id' = next_seq_id /\ waiting' = waiting /\ running' = running
      /\ phase' = phase /\ batch' = batch
  BY <1>1, <1>2 DEF PlanPreemption, Plan, Building, AtSequence, Passes, queue_vars
<1>4. ~Roomy
  BY <1>1, <1>3, ExhaustedSmall
<1>5. /\ id \in Range(todo) /\ id \in Range(running) /\ id \in DOMAIN seqs /\ id \in Live
      /\ seqs[id].state = "RUNNING"
  BY <1>1, <1>3, ServedFacts DEF Base
<1>6. phase \in Passes /\ need \in Int
  BY <1>1, <1>2, <1>3, ShortFacts DEF AtSequence
<1>7. PICK cuts : cuts = victims'
  OBVIOUS
<1>8. cuts \in Seq(Nat \X Nat) /\ GoodCuts(cuts, id)
  <2>1. PreemptionPlan(id, need) \in PlansFor(id)
    BY <1>6, PlanFacts
  <2> QED
    BY <1>3, <1>7, <2>1 DEF PlansFor, Plans
<1>9. OnlyMoves(id)
  BY <1>3, <1>5, <1>6 DEF OnlyMoves, Passes
<1>10. Typed'
  BY <1>3, <1>6, <1>7, <1>8 DEF Base, Typed, NumPrompt, Phases, Passes
<1>11. Live' = Live /\ Queues' /\ Ordered'
  BY <1>3, <1>9, ListFacts, OneMoves
<1>12. Holdings'
  <2>1. block_tables' = block_tables /\ row_busy' = row_busy
    BY <1>3 DEF cache_vars, pool_vars
  <2>2. seqs'[id].blocks = Len(block_tables'[seqs[id].row])
    BY <1>3, <1>5, <2>1, RowOf
  <2> QED
    BY <1>9, <1>11, <2>1, <2>2, OneHolds
<1>13. Measured'
  BY <1>3, MeasuredStill DEF Base
<1>14. /\ Served(id)' /\ AtSequence' /\ Head(Serving)' = id
       /\ ChunkLen(seqs[id])' = ChunkLen(seqs[id])
  BY <1>1, <1>3, StaysAt
<1>15. Provided'
  <2>1. \A other \in Live \ {id} : ~Served(other)
    BY <1>1 DEF Served
  <2>2. Served(id)
    BY <1>1, <1>3 DEF Served
  <2>3. /\ seqs'[id].prefilled <= seqs'[id].blocks * BlockSize
        /\ ~Complete(seqs'[id]) =>
             seqs'[id].blocks * BlockSize
               <= seqs'[id].prefilled + BlockSize + (ChunkLen(seqs[id])' - 1)
    BY <1>3, <1>5, <1>14, <2>2, ProvidedFacts
  <2> QED
    BY <1>9, <1>10, <1>11, <1>14, <2>1, <2>3, OneProvided
<1>16. Batched'
  BY <1>3, <1>5, <1>9, TodoNotPlaced, OneBatched
<1>17. Planned'
  <2>1. ASSUME NEW i \in 1 .. Len(cuts)
        PROVE  /\ cuts[i][1] \in Range(running) /\ seqs[cuts[i][1]].state = "RUNNING"
               /\ ~InBatch(cuts[i][1]) /\ cuts[i][1] # id
               /\ cuts[i][2] \in 1 .. seqs[cuts[i][1]].blocks - 1
    BY <1>8 DEF GoodCuts, MayYield
  <2>2. \A i, j \in 1 .. Len(cuts) : cuts[i][1] = cuts[j][1] => i = j
    BY <1>8 DEF GoodCuts
  <2>3. ASSUME NEW i \in 1 .. Len(cuts)
        PROVE  /\ cuts[i][1] \in Range(running') /\ seqs'[cuts[i][1]].state = "RUNNING"
               /\ ~InBatch(cuts[i][1])' /\ cuts[i][1] # Head(Serving)'
               /\ cuts[i][2] \in 1 .. seqs'[cuts[i][1]].blocks - 1
    <3>1. InBatch(cuts[i][1])' <=> InBatch(cuts[i][1])
      BY <1>3 DEF InBatch
    <3> QED
      BY <1>3, <1>14, <2>1, <3>1
  <2>4. \A i \in 1 .. Len(victims') :
          /\ victims'[i][1] \in Range(running') /\ seqs'[victims'[i][1]].state = "RUNNING"
          /\ ~InBatch(victims[i][1])' /\ victims'[i][1] # Head(Serving)'
          /\ victims'[i][2] \in 1 .. seqs'[victims'[i][1]].blocks - 1
    BY <1>7, <2>3 DEF InBatch
  <2>5. \A i, j \in 1 .. Len(victims') : victims'[i][1] = victims'[j][1] => i = j
    BY <1>7, <2>2
  <2> QED
    BY <1>14, <2>4, <2>5 DEF Planned, InBatch
<1>18. Unhurried'
  BY <1>4 DEF Unhurried, Roomy
<1>19. Uncached' /\ Aborting'
  BY <1>3 DEF Base, Uncached, Aborting, cache_vars
<1> QED
  BY <1>4, <1>10, <1>11, <1>12, <1>13, <1>15, <1>16, <1>17, <1>18, <1>19 DEF Base

\* What a cut leaves of a sequence.
LEMMA TruncatedFacts ==
  ASSUME NEW S, NEW s \in Records(S), NEW keep \in 1 .. s.blocks - 1,
         s.prefilled <= NumPrompt(s), s.generated > 0 => Complete(s), s.generated < Target(s),
         Len(s.chain) * BlockSize <= s.prefilled,
         ~Complete(s) => s.blocks * BlockSize <= s.prefilled + BlockSize
  PROVE  LET t == Truncated(s, keep)
         IN  /\ t \in Records(S)
             /\ t.prompt = s.prompt /\ t.eos = s.eos /\ t.max_gen = s.max_gen /\ t.row = s.row
             /\ t.state = "PREEMPTED" /\ t.blocks = keep
             /\ t.prefilled <= NumPrompt(t)
             /\ t.generated > 0 => Complete(t)
             /\ t.generated < Target(t) /\ t.generated <= Target(t)
             /\ t.generated \in Nat /\ t.generated <= s.generated /\ t.prefilled <= s.prefilled
             /\ keep * BlockSize < NumPrompt(s) => t.generated = 0
             /\ keep * BlockSize >= NumPrompt(s) => t.generated <= keep * BlockSize - NumPrompt(s)
             /\ Len(t.chain) * BlockSize <= t.prefilled
             /\ t.prefilled <= t.blocks * BlockSize
             /\ ~Complete(t) => t.blocks * BlockSize <= t.prefilled + BlockSize
             /\ t.prefilled = (IF keep * BlockSize < NumPrompt(s) THEN keep * BlockSize ELSE s.prefilled)
             /\ t.chain = SubSeq(s.chain, 1, IF Len(s.chain) <= keep THEN Len(s.chain) ELSE keep)
<1>1. /\ s.max_gen \in 1 .. MaxGenLen /\ s.blocks \in Nat /\ s.prefilled \in Nat
      /\ s.generated \in Nat /\ s.preempts \in Nat /\ s.chain \in Seq(S) /\ Len(s.chain) \in Nat
      /\ NumPrompt(s) \in 1 .. MaxSeqLen - 1 /\ Target(s) \in 1 .. MaxGenLen
  BY RecordFacts
<1>2. keep \in Nat /\ keep >= 1 /\ keep + 1 <= s.blocks /\ BlockSize \in Nat /\ BlockSize > 0
      /\ NumPrompt(s) \in Nat /\ Target(s) \in Nat /\ Target(s) >= 1
  BY <1>1, Sizes
<1>3. PICK more : more = Min({s.preempts + 1, PreemptDeferThreshold})
  OBVIOUS
<1>4. more \in Nat
  <2>1. more = IF s.preempts + 1 <= 2 THEN s.preempts + 1 ELSE 2
    BY <1>1, <1>3, MinOfTwo DEF PreemptDeferThreshold
  <2> QED
    BY <1>1, <2>1
<1>5. PICK m : m = Min({Len(s.chain), keep})
  OBVIOUS
<1>6. m = (IF Len(s.chain) <= keep THEN Len(s.chain) ELSE keep) /\ m \in 0 .. Len(s.chain) /\ m <= keep
  <2>1. PICK len : len = Len(s.chain)
    OBVIOUS
  <2>2. len \in Nat /\ len \in Int /\ keep \in Int
    BY <1>1, <1>2, <2>1
  <2>3. Min({len, keep}) = IF len <= keep THEN len ELSE keep
    BY <2>2, MinOfTwo
  <2> QED
    BY <1>2, <1>5, <2>1, <2>2, <2>3
<1>7. PICK chain : chain = SubSeq(s.chain, 1, m)
  OBVIOUS
<1>8. chain \in Seq(S) /\ Len(chain) = m
  BY <1>1, <1>6, <1>7
<1>9. PICK r : r = [s EXCEPT !.state = "PREEMPTED", !.blocks = keep, !.preempts = more, !.chain = chain]
  OBVIOUS
<1>10. /\ r \in Records(S) /\ r.prompt = s.prompt /\ r.eos = s.eos /\ r.max_gen = s.max_gen /\ r.row = s.row
       /\ r.state = "PREEMPTED" /\ r.blocks = keep /\ r.prefilled = s.prefilled
       /\ r.generated = s.generated /\ r.preempts = more /\ r.chain = chain
  BY <1>2, <1>4, <1>8, <1>9 DEF Records, States
<1>11. RolledBack(s, keep) = r
  BY <1>3, <1>5, <1>7, <1>9 DEF RolledBack
<1>12. PICK cut : cut = keep * BlockSize
  OBVIOUS
<1>13. cut \in Nat
  BY <1>2, <1>12
<1>14. PICK t : t = Truncated(s, keep)
  OBVIOUS
<1>15. /\ t \in Records(S) /\ t.prompt = s.prompt /\ t.eos = s.eos /\ t.max_gen = s.max_gen
       /\ t.row = s.row /\ t.state = "PREEMPTED" /\ t.blocks = keep /\ t.chain = chain
       /\ t.prefilled = (IF cut < NumPrompt(s) THEN cut ELSE s.prefilled)
       /\ t.generated \in Nat /\ t.generated <= s.generated
       /\ cut < NumPrompt(s) => t.generated = 0
       /\ cut >= NumPrompt(s) => t.generated <= cut - NumPrompt(s)
  <2>1. CASE cut < NumPrompt(s)
    <3>1. t = [r EXCEPT !.prefilled = cut, !.generated = 0]
      BY <1>11, <1>12, <1>14, <2>1 DEF Truncated
    <3>2. t \in Records(S)
      BY <1>10, <1>13, <3>1 DEF Records
    <3>3. /\ t.prompt = r.prompt /\ t.eos = r.eos /\ t.max_gen = r.max_gen /\ t.row = r.row
          /\ t.state = r.state /\ t.blocks = r.blocks /\ t.chain = r.chain
          /\ t.prefilled = cut /\ t.generated = 0
      BY <1>10, <3>1 DEF Records
    <3> QED
      BY <1>1, <1>2, <1>10, <1>13, <2>1, <3>2, <3>3
  <2>2. CASE ~(cut < NumPrompt(s))
    <3>1. PICK g : g = KeptTokens(s, cut)
      OBVIOUS
    <3>2. g \in Nat /\ g <= s.generated /\ g <= cut - NumPrompt(s)
      <4>1. PICK np, made : np = NumPrompt(s) /\ made = s.generated
        OBVIOUS
      <4>2. np \in Nat /\ made \in Nat /\ ~(cut < np)
        BY <1>1, <1>2, <2>2, <4>1
      <4>3. PICK past : past = cut - np
        OBVIOUS
      <4>4. past \in Nat /\ past \in Int /\ made \in Int
        BY <1>13, <4>2, <4>3
      <4>5. g = Min({made, past})
        BY <3>1, <4>1, <4>3 DEF KeptTokens
      <4>6. g = IF made <= past THEN made ELSE past
        BY <4>4, <4>5, MinOfTwo
      <4>7. g \in Nat /\ g <= made /\ g <= past
        BY <4>2, <4>4, <4>6
      <4> QED
        BY <4>1, <4>3, <4>7
    <3>3. t = [r EXCEPT !.generated = g]
      BY <1>11, <1>12, <1>14, <2>2, <3>1 DEF Truncated
    <3> QED
      BY <1>1, <1>10, <2>2, <3>2, <3>3 DEF Records
  <2> QED
    BY <2>1, <2>2
<1>16. NumPrompt(t) = NumPrompt(s) /\ Target(t) = Target(s)
  BY <1>15 DEF NumPrompt, Target
<1>17. t.prefilled \in Nat /\ t.prefilled <= NumPrompt(t)
  BY <1>1, <1>2, <1>13, <1>15, <1>16
<1>18. t.generated > 0 => Complete(t)
  <2> SUFFICES ASSUME t.generated > 0 PROVE Complete(t)
    OBVIOUS
  <2>1. s.generated > 0 /\ t.prefilled = s.prefilled
    BY <1>1, <1>15
  <2> QED
    BY <1>16, <2>1 DEF Complete
<1>19. t.generated < Target(t) /\ t.generated <= Target(t)
  BY <1>1, <1>2, <1>15, <1>16
<1>20. (keep + 1) * BlockSize = cut + BlockSize /\ (keep + 1) * BlockSize <= s.blocks * BlockSize
       /\ s.blocks * BlockSize \in Nat
  <2>1. PICK n : n = s.blocks
    OBVIOUS
  <2>2. n \in Nat /\ keep + 1 \in Int /\ keep + 1 <= n
    BY <1>1, <1>2, <2>1
  <2>3. (keep + 1) * BlockSize <= n * BlockSize
    BY <1>2, <2>2, Multiples
  <2>4. (keep + 1) * BlockSize = keep * BlockSize + BlockSize /\ n * BlockSize \in Nat
    BY <1>2, <2>2
  <2> QED
    BY <1>12, <2>1, <2>3, <2>4
<1>21. m * BlockSize <= cut /\ m * BlockSize <= Len(s.chain) * BlockSize
       /\ m * BlockSize \in Nat /\ Len(s.chain) * BlockSize \in Nat
  <2>1. PICK n : n = Len(s.chain)
    OBVIOUS
  <2>2. n \in Nat /\ m \in Nat /\ m <= n /\ m <= keep
    BY <1>1, <1>6, <2>1
  <2>3. m * BlockSize <= n * BlockSize
    BY <1>2, <2>2, Multiples
  <2>4. m * BlockSize <= keep * BlockSize
    BY <1>2, <2>2, Multiples
  <2>5. m * BlockSize \in Nat /\ n * BlockSize \in Nat
    BY <1>2, <2>2
  <2> QED
    BY <1>12, <2>1, <2>3, <2>4, <2>5
<1>22. Len(t.chain) * BlockSize <= t.prefilled
  <2>1. Len(t.chain) = m
    BY <1>8, <1>15
  <2> QED
    BY <1>1, <1>13, <1>15, <1>21, <2>1
<1>23. t.prefilled <= cut
  BY <1>1, <1>2, <1>13, <1>15
<1>24. ~Complete(t) => cut <= t.prefilled + BlockSize
  <2> SUFFICES ASSUME ~Complete(t), ~(cut < NumPrompt(s)) PROVE cut <= t.prefilled + BlockSize
    BY <1>2, <1>13, <1>15
  <2>1. t.prefilled = s.prefilled /\ ~Complete(s)
    BY <1>15, <1>16 DEF Complete
  <2> QED
    BY <1>1, <1>2, <1>13, <1>20, <2>1
<1>25. t.prefilled <= s.prefilled
  <2> SUFFICES ASSUME cut < NumPrompt(s) PROVE cut <= s.prefilled
    BY <1>1, <1>15
  <2>1. Complete(s) => cut <= s.prefilled
    BY <1>1, <1>2, <1>13 DEF Complete
  <2>2. ~Complete(s) => cut <= s.prefilled
    BY <1>1, <1>2, <1>13, <1>20
  <2> QED
    BY <2>1, <2>2
<1> QED
  BY <1>6, <1>7, <1>12, <1>14, <1>15, <1>17, <1>18, <1>19, <1>22, <1>23, <1>24, <1>25

\* A planned cut is made.
LEMMA PreemptKeeps == ASSUME Base, CacheInv, Preempt PROVE Base' /\ ~Roomy
<1>1. PICK id, keep : id = Head(victims)[1] /\ keep = Head(victims)[2]
  OBVIOUS
<1>2. PICK row : row = seqs[id].row
  OBVIOUS
<1>3. /\ victims # <<>> /\ victims' = Tail(victims) /\ Pool!FreeBlocksFrom(row, keep)
      /\ entries' = entries /\ seqs' = [seqs EXCEPT ![id] = Truncated(@, keep)]
      /\ next_seq_id' = next_seq_id /\ waiting' = waiting /\ running' = running
      /\ phase' = phase /\ todo' = todo /\ batch' = batch
  BY <1>1, <1>2 DEF Preempt, queue_vars
<1>4. PICK head : head = Head(Serving)
  OBVIOUS
<1>5. AtSequence /\ ~Roomy /\ phase \in Passes
  BY <1>3 DEF Base, Planned, Unhurried, AtSequence
<1>6. /\ victims \in Seq(Nat \X Nat) /\ victims' \in Seq(Nat \X Nat)
      /\ Len(victims) \in Nat /\ Len(victims') = Len(victims) - 1 /\ Len(victims) >= 1
      /\ Head(victims) = victims[1] /\ \A i \in 1 .. Len(victims') : victims'[i] = victims[i + 1]
  <2>1. PICK list : list = victims
    OBVIOUS
  <2>2. list \in Seq(Nat \X Nat) /\ list # <<>>
    BY <1>3, <2>1, ListFacts
  <2>3. /\ Tail(list) \in Seq(Nat \X Nat) /\ Len(list) \in Nat /\ Len(Tail(list)) = Len(list) - 1
        /\ Len(list) >= 1 /\ Head(list) = list[1]
        /\ \A i \in 1 .. Len(Tail(list)) : Tail(list)[i] = list[i + 1]
    BY <2>2
  <2> QED
    BY <1>3, <2>1, <2>2, <2>3
<1>7. /\ id \in Range(running) /\ seqs[id].state = "RUNNING" /\ ~InBatch(id) /\ id # head
      /\ keep \in 1 .. seqs[id].blocks - 1
  BY <1>1, <1>4, <1>6 DEF Base, Planned
<1>8. id \in DOMAIN seqs /\ id \in Live
  BY <1>7, ListFacts
<1>9. row \in Rows /\ seqs[id].blocks = Len(block_tables[row]) /\ Sound(seqs[id])
  BY <1>2, <1>7, <1>8, RowOf, TypedFacts DEF Base
<1>10. PICK S : seqs \in [DOMAIN seqs -> Records(S)]
  BY DEF Base, Typed
<1>11. PICK s \in Records(S) : s = seqs[id]
  BY <1>8, <1>10
<1>12. /\ s.prefilled <= NumPrompt(s) /\ (s.generated > 0 => Complete(s)) /\ s.generated < Target(s)
       /\ Len(s.chain) * BlockSize <= s.prefilled
  BY <1>5, <1>7, <1>8, <1>11 DEF Base, Measured, Passes
<1>13. ~Complete(s) => s.blocks * BlockSize <= s.prefilled + BlockSize
  <2>1. ~Served(id)
    BY <1>4, <1>7 DEF Served
  <2> QED
    BY <1>7, <1>8, <1>11, <2>1, ProvidedFacts
<1>14. PICK t : t = Truncated(s, keep)
  OBVIOUS
<1>15. /\ t \in Records(S)
       /\ t.prompt = s.prompt /\ t.eos = s.eos /\ t.max_gen = s.max_gen /\ t.row = s.row
       /\ t.state = "PREEMPTED" /\ t.blocks = keep
       /\ t.prefilled <= NumPrompt(t)
       /\ t.generated > 0 => Complete(t)
       /\ t.generated < Target(t) /\ t.generated <= Target(t)
       /\ Len(t.chain) * BlockSize <= t.prefilled
       /\ t.prefilled <= t.blocks * BlockSize
       /\ ~Complete(t) => t.blocks * BlockSize <= t.prefilled + BlockSize
  BY <1>7, <1>11, <1>12, <1>13, <1>14, TruncatedFacts
<1>16. seqs' = [seqs EXCEPT ![id] = t]
  BY <1>3, <1>11, <1>14
<1>17. /\ DOMAIN seqs' = DOMAIN seqs /\ seqs' \in [DOMAIN seqs' -> Records(S)] /\ seqs'[id] = t
       /\ \A other \in DOMAIN seqs \ {id} : seqs'[other] = seqs[other]
  BY <1>8, <1>10, <1>15, <1>16, SeqsUpdated
<1>18. OnlyMoves(id)
  BY <1>3, <1>5, <1>7, <1>11, <1>15, <1>17 DEF OnlyMoves, Passes
<1>19. Typed'
  BY <1>3, <1>5, <1>6, <1>8, <1>11, <1>15, <1>17 DEF Base, Typed, NumPrompt, Phases, Passes
<1>20. Live' = Live /\ Queues' /\ Ordered'
  BY <1>3, <1>18, ListFacts, OneMoves
<1>21. Holdings'
  <2>1. \A r \in Rows \ {row} : block_tables'[r] = block_tables[r] /\ row_busy'[r] = row_busy[r]
    BY <1>3, <1>9, ReleaseFacts
  <2>2. Len(block_tables'[row]) = keep
    BY <1>3, <1>9, ReleaseFacts
  <2>3. row_busy' = [row_busy EXCEPT ![row] = @ /\ keep > 0] /\ row_busy \in [Rows -> BOOLEAN]
    BY <1>3, PoolFacts DEF Pool!FreeBlocksFrom, CacheInv, PoolView
  <2>4. keep > 0
    BY <1>7, <1>9 DEF Sound
  <2>5. \A r \in Rows : row_busy'[r] <=> row_busy[r]
    BY <1>9, <2>3, <2>4
  <2>6. seqs'[id].blocks = Len(block_tables'[seqs[id].row])
    BY <1>2, <1>15, <1>17, <2>2
  <2> QED
    BY <1>2, <1>18, <1>20, <2>1, <2>5, <2>6, OneHolds
<1>22. Measured'
  BY <1>15, <1>17, <1>18, OneMeasured
<1>23. /\ Served(head)' /\ AtSequence' /\ Head(Serving)' = head
       /\ ChunkLen(seqs[head])' = ChunkLen(seqs[head])
  <2>1. head \in DOMAIN seqs
    BY <1>4, <1>5, ServedFacts DEF Base
  <2>2. seqs'[head] = seqs[head]
    BY <1>7, <1>17, <2>1
  <2>3. \A other \in DOMAIN seqs : seqs'[other] = seqs[other] \/ seqs'[other].state # "RUNNING"
    BY <1>15, <1>17
  <2> QED
    BY <1>3, <1>4, <1>5, <1>17, <2>2, <2>3, StaysAt
<1>24. Provided'
  <2>1. \A other \in Live \ {id} :
          \/ ~Served(other)
          \/ Served(other)' /\ ChunkLen(seqs[other])' = ChunkLen(seqs[other])
    BY <1>4, <1>23 DEF Served
  <2>2. /\ seqs'[id].prefilled <= seqs'[id].blocks * BlockSize
        /\ ~Complete(seqs'[id]) => seqs'[id].blocks * BlockSize <= seqs'[id].prefilled + BlockSize
    BY <1>15, <1>17
  <2> QED
    BY <1>18, <1>19, <1>20, <2>1, <2>2, OneProvided
<1>25. Batched'
  BY <1>3, <1>7, <1>18, OneBatched
<1>26. Planned'
  <2>1. ASSUME NEW i \in 1 .. Len(victims')
        PROVE  /\ i + 1 \in 1 .. Len(victims) /\ victims'[i] = victims[i + 1]
               /\ victims[i + 1][1] # id
    <3>1. i + 1 \in 1 .. Len(victims) /\ 1 \in 1 .. Len(victims) /\ i + 1 # 1
      BY <1>6
    <3>2. victims[i + 1][1] # victims[1][1]
      BY <3>1 DEF Base, Planned
    <3> QED
      BY <1>1, <1>6, <3>1, <3>2
  <2>2. ASSUME NEW i \in 1 .. Len(victims')
        PROVE  /\ victims'[i][1] \in Range(running') /\ seqs'[victims'[i][1]].state = "RUNNING"
               /\ ~InBatch(victims[i][1])' /\ victims'[i][1] # Head(Serving)'
               /\ victims'[i][2] \in 1 .. seqs'[victims'[i][1]].blocks - 1
    <3>1. PICK o, k : o = victims'[i][1] /\ k = victims'[i][2]
      OBVIOUS
    <3>2. /\ o \in Range(running) /\ seqs[o].state = "RUNNING" /\ ~InBatch(o) /\ o # head
          /\ k \in 1 .. seqs[o].blocks - 1 /\ o # id
      BY <1>4, <2>1, <3>1 DEF Base, Planned
    <3>3. seqs'[o] = seqs[o]
      BY <1>17, <3>2, ListFacts
    <3>4. InBatch(victims[i][1])' <=> InBatch(o)
      BY <1>3, <3>1 DEF InBatch
    <3> QED
      BY <1>3, <1>23, <3>1, <3>2, <3>3, <3>4
  <2>3. ASSUME NEW i \in 1 .. Len(victims'), NEW j \in 1 .. Len(victims'), victims'[i][1] = victims'[j][1]
        PROVE  i = j
    <3>1. i + 1 = j + 1
      BY <2>1, <2>3 DEF Base, Planned
    <3> QED
      BY <1>6, <3>1
  <2> QED
    BY <1>23, <2>2, <2>3 DEF Planned, InBatch
<1>27. Unhurried'
  BY <1>5 DEF Unhurried, Roomy
<1>28. Uncached' /\ Aborting'
  BY <1>3 DEF Base, Uncached, Aborting
<1> QED
  BY <1>5, <1>19, <1>20, <1>21, <1>22, <1>24, <1>25, <1>26, <1>27, <1>28 DEF Base

-------------------------------------------------------------------------------
(* Requests come, and are admitted.                                          *)

\* The record of a request that is accepted.
LEMMA NewFacts ==
  ASSUME NEW S, NEW request \in Requests, Len(request.prompt) \in 1 .. MaxSeqLen - 1
  PROVE  LET s == NewSequence(request.prompt, request.eos)
         IN  /\ s \in Records(S) /\ NumPrompt(s) + s.max_gen <= MaxSeqLen
             /\ s.state = "WAITING" /\ s.row = -1 /\ s.blocks = 0 /\ s.prefilled = 0
             /\ s.generated = 0 /\ s.preempts = 0 /\ s.chain = <<>>
             /\ NumPrompt(s) = Len(request.prompt) /\ Len(s.chain) = 0
<1>1. PICK p, e : p = request.prompt /\ e = request.eos
  OBVIOUS
<1>2. p \in {q.prompt : q \in Accepted} /\ e \in Nat \ {0}
  BY <1>1, RequestsGiven DEF Accepted
<1>3. PICK n : n = Len(p)
  OBVIOUS
<1>4. n \in Nat /\ n >= 1 /\ n <= MaxSeqLen - 1 /\ MaxSeqLen \in Nat /\ MaxGenLen \in Nat /\ MaxGenLen > 0
  BY <1>1, <1>3, Sizes
<1>5. PICK m : m = Min({MaxGenLen, MaxSeqLen - n})
  OBVIOUS
<1>6. m = IF MaxGenLen <= MaxSeqLen - n THEN MaxGenLen ELSE MaxSeqLen - n
  BY <1>4, <1>5, MinOfTwo
<1>7. m \in Nat /\ m >= 1 /\ m <= MaxGenLen /\ n + m <= MaxSeqLen
  BY <1>4, <1>6
<1>8. GenBudget(p) = m
  <2>1. Max({1, m}) = IF 1 >= m THEN 1 ELSE m
    BY <1>7, MaxOfTwo
  <2>2. GenBudget(p) = Max({1, m})
    BY <1>3, <1>5 DEF GenBudget
  <2> QED
    BY <1>7, <2>1, <2>2
<1>9. PICK s : s = NewSequence(p, e)
  OBVIOUS
<1>10. s = [prompt |-> p, eos |-> e, max_gen |-> m, state |-> "WAITING", row |-> -1, blocks |-> 0,
            prefilled |-> 0, generated |-> 0, preempts |-> 0, chain |-> <<>>]
  BY <1>8, <1>9 DEF NewSequence
<1>11. m \in 1 .. MaxGenLen /\ <<>> \in Seq(S) /\ -1 \in Rows \cup {-1} /\ 0 \in Nat /\ "WAITING" \in States
  BY <1>4, <1>7 DEF States
<1>12. s \in Records(S)
  BY <1>2, <1>10, <1>11 DEF Records
<1>13. NumPrompt(s) = n /\ s.max_gen = m
  BY <1>3, <1>10 DEF NumPrompt
<1>14. Len(s.chain) = 0
  BY <1>10
<1> QED
  BY <1>1, <1>3, <1>7, <1>9, <1>10, <1>12, <1>13, <1>14

\* A request that is turned away uses up an id.
LEMMA RejectKeeps ==
  ASSUME Base, phase = "idle", next_seq_id' = next_seq_id + 1, seqs' = seqs, waiting' = waiting,
         UNCHANGED <<cache_vars, running, step_vars>>
  PROVE  Base'
<1>1. /\ phase' = "idle" /\ UNCHANGED cache_vars /\ running' = running
      /\ todo' = todo /\ batch' = batch /\ victims' = victims
  BY DEF step_vars
<1>2. Typed' /\ batch' = <<>> /\ victims' = <<>>
  BY <1>1 DEF Base, Typed, Phases, Passes
<1>3. Queues'
  BY <1>1 DEF Base, Queues, Live
<1>4. Measured'
  BY <1>1, MeasuredStill DEF Base
<1> QED
  BY <1>1, <1>2, <1>3, <1>4, NotServed, PhaseKeeps DEF Passes

\* A request that is accepted waits behind the others.
LEMMA AcceptKeeps ==
  ASSUME Base, phase = "idle", NEW request \in Requests, Len(request.prompt) \in 1 .. MaxSeqLen - 1,
         next_seq_id' = next_seq_id + 1,
         seqs' = [id \in DOMAIN seqs \cup {next_seq_id} |->
                    IF id = next_seq_id THEN NewSequence(request.prompt, request.eos) ELSE seqs[id]],
         waiting' = Append(waiting, next_seq_id),
         UNCHANGED <<cache_vars, running, step_vars>>
  PROVE  Base' /\ Live' = Live \cup {next_seq_id} /\ next_seq_id \notin DOMAIN seqs
<1>1. /\ phase' = "idle" /\ UNCHANGED cache_vars /\ running' = running
      /\ todo' = todo /\ batch' = batch /\ victims' = victims
  BY DEF step_vars
<1>2. PICK new : new = next_seq_id
  OBVIOUS
<1>3. PICK t : t = NewSequence(request.prompt, request.eos)
  OBVIOUS
<1>4. PICK S : seqs \in [DOMAIN seqs -> Records(S)]
  BY DEF Base, Typed
<1>5. /\ t \in Records(S) /\ NumPrompt(t) + t.max_gen <= MaxSeqLen
      /\ t.state = "WAITING" /\ t.row = -1 /\ t.blocks = 0 /\ t.prefilled = 0
      /\ t.generated = 0 /\ t.preempts = 0 /\ t.chain = <<>> /\ Len(t.chain) = 0
  BY <1>3, NewFacts
<1>6. /\ new \in Nat /\ new \notin DOMAIN seqs /\ next_seq_id' = new + 1
      /\ \A id \in DOMAIN seqs : id \in Nat /\ id < new
  BY <1>2 DEF Base, Typed
<1>7. /\ DOMAIN seqs' = DOMAIN seqs \cup {new} /\ seqs'[new] = t
      /\ \A id \in DOMAIN seqs : seqs'[id] = seqs[id]
      /\ seqs' \in [DOMAIN seqs' -> Records(S)]
  <2>1. seqs' = [id \in DOMAIN seqs \cup {new} |-> IF id = new THEN t ELSE seqs[id]]
    BY <1>2, <1>3
  <2>2. DOMAIN seqs' = DOMAIN seqs \cup {new} /\ seqs'[new] = t
        /\ \A id \in DOMAIN seqs : seqs'[id] = seqs[id]
    BY <1>6, <2>1
  <2>3. \A id \in DOMAIN seqs' : seqs'[id] \in Records(S)
    BY <1>4, <1>5, <2>2
  <2> QED
    BY <2>1, <2>2, <2>3
<1>8. Sound(t) /\ Target(t) >= 1 /\ Target(t) \in Nat /\ ~Complete(t)
  <2>1. Sound(t)
    BY <1>5, RecordFacts, Sizes DEF Sound
  <2> QED
    BY <1>5, <2>1 DEF Sound
<1>9. /\ waiting \in Seq(Nat) /\ IsInjective(waiting) /\ new \notin Range(waiting) /\ new \notin Live
      /\ \A i \in 1 .. Len(waiting) : waiting[i] \in Range(waiting)
  <2>1. waiting \in Seq(Nat) /\ IsInjective(waiting) /\ new \notin Range(waiting) /\ new \notin Live
    BY <1>6, ListFacts
  <2> QED
    BY <2>1 DEF Range
<1>10. /\ waiting' = Append(waiting, new) /\ waiting' \in Seq(Nat) /\ IsInjective(waiting')
       /\ Len(waiting') = Len(waiting) + 1 /\ Len(waiting) \in Nat
       /\ Range(waiting') = Range(waiting) \cup {new}
       /\ \A i \in 1 .. Len(waiting) : waiting'[i] = waiting[i]
       /\ waiting'[Len(waiting) + 1] = new
  <2>1. waiting' = Append(waiting, new)
    BY <1>2
  <2>2. PICK list : list = waiting
    OBVIOUS
  <2>3. /\ Len(list) \in Nat /\ Len(Append(list, new)) = Len(list) + 1
        /\ \A i \in 1 .. Len(list) : Append(list, new)[i] = list[i]
        /\ Append(list, new)[Len(list) + 1] = new
    BY <1>6, <1>9, <2>2
  <2>4. /\ Append(list, new) \in Seq(Nat) /\ IsInjective(Append(list, new))
        /\ Range(Append(list, new)) = Range(list) \cup {new}
    BY <1>6, <1>9, <2>2, Appended
  <2> QED
    BY <2>1, <2>2, <2>3, <2>4
<1>11. Live' = Live \cup {new}
  BY <1>1, <1>10 DEF Live
<1>12. Live \subseteq DOMAIN seqs /\ \A id \in Live : seqs'[id] = seqs[id]
  BY <1>7, ListFacts
<1>13. Typed'
  <2>1. next_seq_id' \in Nat /\ \A id \in DOMAIN seqs' : id \in Nat /\ id < next_seq_id'
    BY <1>6, <1>7
  <2>2. \A id \in DOMAIN seqs' : NumPrompt(seqs'[id]) + seqs'[id].max_gen <= MaxSeqLen
    BY <1>5, <1>7 DEF Base, Typed
  <2> QED
    BY <1>1, <1>7, <1>10, <2>1, <2>2 DEF Base, Typed, NumPrompt, Phases, Passes
<1>14. Queues'
  <2>1. \A id \in Range(waiting') : seqs'[id].state \in {"WAITING", "PREEMPTED"}
    BY <1>5, <1>7, <1>10, <1>12 DEF Base, Queues, Live
  <2>2. \A id \in Range(running) : seqs'[id].state = "RUNNING"
    BY <1>12 DEF Base, Queues, Live
  <2>3. \A id \in DOMAIN seqs' : id \in Live' \/ seqs'[id].state = "FINISHED"
    BY <1>7, <1>11 DEF Base, Queues
  <2>4. Range(waiting') \cap Range(running) = {}
    BY <1>9, <1>10, ListFacts DEF Live
  <2> QED
    BY <1>1, <1>7, <1>10, <2>1, <2>2, <2>3, <2>4, ListFacts DEF Base, Queues
<1>15. Ordered'
  <2> SUFFICES ASSUME NEW i \in 1 .. Len(waiting'), NEW j \in 1 .. Len(waiting'), i < j
               PROVE  /\ seqs'[waiting'[j]].state = "PREEMPTED" => seqs'[waiting'[i]].state = "PREEMPTED"
                      /\ seqs'[waiting'[i]].state = "WAITING" => waiting'[i] < waiting'[j]
    BY DEF Ordered
  <2>1. i \in 1 .. Len(waiting) /\ waiting'[i] = waiting[i] /\ seqs'[waiting[i]] = seqs[waiting[i]]
        /\ waiting[i] \in DOMAIN seqs
    <3>1. i \in 1 .. Len(waiting)
      BY <1>10
    <3>2. waiting[i] \in Live
      BY <1>9, <3>1 DEF Live
    <3> QED
      BY <1>10, <1>12, <3>1, <3>2
  <2>2. CASE j \in 1 .. Len(waiting)
    <3>1. waiting'[j] = waiting[j] /\ waiting[j] \in Live
      BY <1>9, <1>10, <2>2 DEF Live
    <3>2. seqs'[waiting[j]] = seqs[waiting[j]]
      BY <1>12, <3>1
    <3>3. /\ seqs[waiting[j]].state = "PREEMPTED" => seqs[waiting[i]].state = "PREEMPTED"
          /\ seqs[waiting[i]].state = "WAITING" => waiting[i] < waiting[j]
      BY <2>1, <2>2 DEF Base, Ordered
    <3> QED
      BY <2>1, <3>1, <3>2, <3>3
  <2>3. CASE j \notin 1 .. Len(waiting)
    <3>1. waiting'[j] = new
      <4>1. PICK n \in Nat : n = Len(waiting) /\ Len(waiting') = n + 1
        BY <1>10
      <4>2. j \in 1 .. n + 1 /\ j \notin 1 .. n
        BY <2>3, <4>1
      <4>3. j = n + 1
        BY <4>1, <4>2
      <4> QED
        BY <1>10, <4>1, <4>3
    <3> QED
      BY <1>5, <1>6, <1>7, <2>1, <3>1
  <2> QED
    BY <2>2, <2>3
<1>16. Holdings'
  <2>1. block_tables' = block_tables /\ row_busy' = row_busy /\ Rows' = Rows
    BY <1>1 DEF cache_vars, pool_vars, Rows, Pool!Rows
  <2>2. \A id : ~Mounting(id) /\ ~Mounting(id)'
    BY <1>1 DEF Mounting
  <2>3. \A id \in Live : Table(id)' = Table(id)
    BY <1>12, <2>1 DEF Table
  <2>4. -1 \notin Rows
    BY SameSets, SchedulerSizes DEF Pool!Rows
  <2>5. \A id, other \in Live' :
          seqs'[id].row # -1 /\ seqs'[id].row = seqs'[other].row => id = other
    BY <1>5, <1>7, <1>11, <1>12 DEF Base, Holdings
  <2>6. \A r \in Rows : row_busy[r] <=> \E id \in Live' : seqs'[id].row = r
    BY <1>5, <1>7, <1>11, <1>12, <2>4 DEF Base, Holdings
  <2>7. \A id \in Live' : seqs'[id].row = -1 <=> seqs'[id].state = "WAITING"
    BY <1>5, <1>7, <1>11, <1>12, <2>2 DEF Base, Holdings
  <2>8. \A id \in Live' : seqs'[id].row # -1 => seqs'[id].blocks = Len(Table(id)')
    BY <1>5, <1>7, <1>11, <1>12, <2>3 DEF Base, Holdings
  <2>9. \A id \in Live' : seqs'[id].state = "WAITING" =>
          /\ seqs'[id].blocks = 0 /\ seqs'[id].prefilled = 0
          /\ seqs'[id].generated = 0 /\ seqs'[id].chain = <<>>
    BY <1>5, <1>7, <1>11, <1>12 DEF Base, Holdings
  <2> QED
    BY <2>1, <2>2, <2>5, <2>6, <2>7, <2>8, <2>9 DEF Holdings
<1>17. Measured'
  <2>1. ASSUME NEW id \in DOMAIN seqs'
        PROVE  LET s == seqs'[id]
               IN  /\ s.prefilled <= NumPrompt(s)
                   /\ s.generated > 0 => Complete(s)
                   /\ s.generated <= Target(s)
                   /\ Len(s.chain) * BlockSize <= s.prefilled
                   /\ s.state \in {"WAITING", "PREEMPTED"} => s.generated < Target(s)
                   /\ s.state = "RUNNING" /\ phase' \notin {"record", "update"} => s.generated < Target(s)
    <3>1. CASE id = new
      <4>1. 0 * BlockSize = 0
        BY Sizes
      <4> QED
        BY <1>5, <1>7, <1>8, <3>1, <4>1 DEF Sound
    <3>2. CASE id # new
      BY <1>1, <1>7, <3>2 DEF Base, Measured
    <3> QED
      BY <3>1, <3>2
  <2> QED
    BY <2>1 DEF Measured, NumPrompt, Complete, Target
<1>18. Provided'
  <2>1. 0 * BlockSize = 0 /\ BlockSize \in Nat
    BY Sizes
  <2>2. \A id \in Live' : seqs'[id].prefilled <= seqs'[id].blocks * BlockSize
    BY <1>5, <1>7, <1>11, <1>12, <2>1, ProvidedFacts
  <2>3. \A id : ~Served(id)
    BY NotServed DEF Passes
  <2>4. \A id \in Live' : ~Complete(seqs'[id]) /\ seqs'[id].state # "FINISHED" =>
          seqs'[id].blocks * BlockSize <= seqs'[id].prefilled + BlockSize
    <3> SUFFICES ASSUME NEW id \in Live', ~Complete(seqs'[id]), seqs'[id].state # "FINISHED"
                 PROVE  seqs'[id].blocks * BlockSize <= seqs'[id].prefilled + BlockSize
      OBVIOUS
    <3>1. CASE id = new
      BY <1>5, <1>7, <2>1, <3>1
    <3>2. CASE id # new
      BY <1>11, <1>12, <2>3, <3>2, ProvidedFacts
    <3> QED
      BY <3>1, <3>2
  <2> QED
    BY <1>13, <1>14, <2>2, <2>4, ProvidedNext
<1>19. batch' = <<>> /\ victims' = <<>>
  BY <1>1, ListFacts DEF Passes
<1>20. Batched' /\ Planned'
  BY <1>13, <1>19, BatchEmpty, PlannedNone
<1>21. Unhurried'
  <2> SUFFICES ASSUME Roomy
               PROVE  /\ \A id \in DOMAIN seqs' : seqs'[id].preempts = 0
                      /\ \A id \in Live' : seqs'[id].state \in {"WAITING", "RUNNING"}
    BY <1>19 DEF Unhurried, Roomy
  <2> QED
    BY <1>5, <1>7, <1>11, <1>12 DEF Base, Unhurried
<1>22. Uncached' /\ Aborting'
  BY <1>1 DEF Base, Uncached, Aborting, cache_vars
<1> QED
  BY <1>2, <1>6, <1>11, <1>13, <1>14, <1>15, <1>16, <1>17, <1>18, <1>20, <1>21, <1>22 DEF Base

\* A request is submitted.
LEMMA AddRequestKeeps ==
  ASSUME Base, NEW request \in Requests, AddRequest(request.prompt, request.eos)
  PROVE  Base'
<1>1. CASE UNCHANGED <<seqs, waiting>>
  BY <1>1, RejectKeeps DEF AddRequest
<1>2. CASE Len(request.prompt) \in 1 .. MaxSeqLen - 1 /\ ~UNCHANGED <<seqs, waiting>>
  BY <1>2, AcceptKeeps DEF AddRequest
<1> QED
  BY <1>1, <1>2 DEF AddRequest

\* A prompt, block by block.
LEMMA PagedFacts ==
  ASSUME NEW p \in {q.prompt : q \in Accepted}
  PROVE  LET c == Paged(p)
         IN  /\ Len(c) \in Nat /\ Len(c) >= 1 /\ Len(c) <= MaxBlocksPerSeq
             /\ c \in Seq(Range(c)) /\ Cacheable(c) = Len(c) - 1 /\ Cacheable(c) \in Nat
             /\ \A m \in Int : Len(c) <= m <=> Len(p) <= m * BlockSize
<1>1. PICK n : n = Len(p)
  OBVIOUS
<1>2. n \in Nat /\ n >= 1 /\ n <= MaxSeqLen /\ BlockSize \in Nat \ {0} /\ MaxBlocksPerSeq \in Nat
  BY <1>1, Sizes DEF Accepted
<1>3. PICK c : c = Paged(p)
  OBVIOUS
<1>4. PICK k : k = CeilDiv(n, BlockSize)
  OBVIOUS
<1>5. k \in Nat /\ \A m \in Int : k <= m <=> n <= m * BlockSize
  <2>1. k \in Nat
    BY <1>2, <1>4, FitInBlocks
  <2>2. ASSUME NEW m \in Int
        PROVE  k <= m <=> n <= m * BlockSize
    BY <1>2, <1>4, FitInBlocks
  <2> QED
    BY <2>1, <2>2
<1>6. DOMAIN c = 1 .. k /\ c = [i \in 1 .. k |-> c[i]]
  BY <1>1, <1>3, <1>4 DEF Paged
<1>7. Len(c) = k /\ c \in Seq(Range(c))
  <2>1. \A i \in 1 .. k : c[i] \in Range(c)
    BY <1>6 DEF Range
  <2> QED
    BY <1>5, <1>6, <2>1
<1>8. k >= 1
  <2>1. ~(n <= 0 * BlockSize)
    BY <1>2
  <2> QED
    BY <1>5, <2>1
<1>9. k <= MaxBlocksPerSeq
  <2>1. n <= MaxBlocksPerSeq * BlockSize
    BY <1>2, Sizes
  <2> QED
    BY <1>2, <1>5, <2>1
<1>10. Cacheable(c) = Len(c) - 1
  BY <1>7, <1>8 DEF Cacheable
<1> QED
  BY <1>1, <1>3, <1>5, <1>7, <1>8, <1>9, <1>10

\* The head of the queue moves to the running sequences.
LEMMA AdmitKeeps ==
  ASSUME Base, phase \in {"admit", "mount"}, phase' = "admit", waiting # <<>>, Len(running) < MaxBatch,
         NEW id, id = Head(waiting), NEW S, seqs \in [DOMAIN seqs -> Records(S)],
         NEW t \in Records(S), seqs' = [seqs EXCEPT ![id] = t],
         waiting' = Tail(waiting), running' = Append(running, id),
         next_seq_id' = next_seq_id, todo' = todo, batch' = batch, victims' = victims,
         entries' = entries, row_busy' = row_busy,
         \A r \in Rows \ {seqs[id].row} : block_tables'[r] = block_tables[r],
         t.state = "RUNNING", t.prompt = seqs[id].prompt, t.max_gen = seqs[id].max_gen,
         t.row = seqs[id].row, t.row # -1, t.preempts = seqs[id].preempts,
         t.blocks = Len(block_tables'[t.row]),
         t.prefilled <= NumPrompt(t), t.generated > 0 => Complete(t), t.generated < Target(t),
         Len(t.chain) * BlockSize <= t.prefilled, t.prefilled <= t.blocks * BlockSize,
         ~Complete(t) => t.blocks * BlockSize <= t.prefilled + BlockSize
  PROVE  Base' /\ Live' = Live
<1>1. /\ waiting \in Seq(Nat) /\ IsInjective(waiting) /\ running \in Seq(Nat) /\ IsInjective(running)
      /\ Range(waiting) \cap Range(running) = {} /\ Range(waiting) \subseteq DOMAIN seqs
  BY ListFacts
<1>2. /\ id \in Nat /\ id \in Range(waiting) /\ Tail(waiting) \in Seq(Nat) /\ IsInjective(Tail(waiting))
      /\ Len(waiting) \in Nat /\ Len(waiting) > 0 /\ Len(Tail(waiting)) = Len(waiting) - 1
      /\ \A i \in 1 .. Len(waiting) - 1 : Tail(waiting)[i] = waiting[i + 1]
      /\ Range(Tail(waiting)) = Range(waiting) \ {id}
  BY <1>1, Headed
<1>3. id \in DOMAIN seqs /\ id \in Live /\ id \notin Range(running)
  BY <1>1, <1>2 DEF Live
<1>4. /\ running' \in Seq(Nat) /\ IsInjective(running') /\ Len(running') = Len(running) + 1
      /\ Len(running) \in Nat /\ Range(running') = Range(running) \cup {id}
  BY <1>1, <1>2, <1>3, Appended
<1>5. /\ DOMAIN seqs' = DOMAIN seqs /\ seqs' \in [DOMAIN seqs' -> Records(S)] /\ seqs'[id] = t
      /\ \A other \in DOMAIN seqs \ {id} : seqs'[other] = seqs[other]
  BY <1>3, SeqsUpdated
<1>6. Live' = Live
  BY <1>2, <1>4 DEF Live
<1>7. Live \subseteq DOMAIN seqs /\ \A other \in Live \ {id} : seqs'[other] = seqs[other]
  BY <1>5, ListFacts
<1>8. batch' = <<>> /\ victims' = <<>> /\ todo' = <<>>
  BY ListFacts DEF Passes
<1>9. Typed'
  BY <1>2, <1>3, <1>4, <1>5 DEF Base, Typed, NumPrompt, Phases, Passes
<1>10. Queues'
  <2>1. \A other \in Range(running) : other \in Live \ {id} /\ seqs[other].state = "RUNNING"
    BY <1>3 DEF Base, Queues, Live
  <2>2. \A other \in Range(running') : seqs'[other].state = "RUNNING"
    BY <1>4, <1>5, <1>7, <2>1
  <2>3. \A other \in Range(waiting') : seqs'[other].state \in {"WAITING", "PREEMPTED"}
    BY <1>2, <1>7 DEF Base, Queues, Live
  <2>4. \A other \in DOMAIN seqs' : other \in Live' \/ seqs'[other].state = "FINISHED"
    BY <1>3, <1>5, <1>6 DEF Base, Queues
  <2>5. Len(running') <= MaxBatch
    BY <1>4, Sizes
  <2>6. /\ Range(waiting') \cap Range(running') = {}
        /\ Range(waiting') \subseteq DOMAIN seqs' /\ Range(running') \subseteq DOMAIN seqs'
    BY <1>1, <1>2, <1>3, <1>4, <1>5, ListFacts
  <2>7. IsInjective(todo') /\ Range(todo') = {}
    BY <1>8, ListFacts
  <2> QED
    BY <1>2, <1>4, <2>2, <2>3, <2>4, <2>5, <2>6, <2>7 DEF Queues
<1>11. Ordered'
  <2> SUFFICES ASSUME NEW i \in 1 .. Len(waiting'), NEW j \in 1 .. Len(waiting'), i < j
               PROVE  /\ seqs'[waiting'[j]].state = "PREEMPTED" => seqs'[waiting'[i]].state = "PREEMPTED"
                      /\ seqs'[waiting'[i]].state = "WAITING" => waiting'[i] < waiting'[j]
    BY DEF Ordered
  <2>1. \A k \in 1 .. Len(waiting') :
          /\ k + 1 \in 1 .. Len(waiting) /\ waiting'[k] = waiting[k + 1]
          /\ seqs'[waiting'[k]] = seqs[waiting[k + 1]]
    <3> SUFFICES ASSUME NEW k \in 1 .. Len(waiting')
                 PROVE  /\ k + 1 \in 1 .. Len(waiting) /\ waiting'[k] = waiting[k + 1]
                        /\ seqs'[waiting'[k]] = seqs[waiting[k + 1]]
      OBVIOUS
    <3>1. k \in 1 .. Len(waiting) - 1
      BY <1>2
    <3>2. k + 1 \in 1 .. Len(waiting) /\ waiting'[k] = waiting[k + 1]
      <4>1. Tail(waiting)[k] = waiting[k + 1]
        BY <1>2, <3>1
      <4>2. k + 1 \in 1 .. Len(waiting)
        <5>1. PICK n \in Nat : n = Len(waiting)
          BY <1>2
        <5>2. k \in 1 .. n - 1
          BY <3>1, <5>1
        <5>3. k + 1 \in 1 .. n
          BY <5>2
        <5> QED
          BY <5>1, <5>3
      <4> QED
        BY <4>1, <4>2
    <3>3. waiting'[k] \in Range(waiting) \ {id}
      <4>1. waiting'[k] \in Range(waiting')
        <5>1. PICK rest \in Seq(Nat) : rest = waiting'
          BY <1>2
        <5>2. k \in DOMAIN rest
          BY <5>1
        <5>3. rest[k] \in Range(rest)
          BY <5>2 DEF Range
        <5> QED
          BY <5>1, <5>3
      <4> QED
        BY <1>2, <4>1
    <3> QED
      BY <1>1, <1>5, <3>2, <3>3
  <2>2. i + 1 < j + 1
    OBVIOUS
  <2> QED
    BY <2>1, <2>2 DEF Base, Ordered
<1>12. Holdings'
  <2>1. Rows' = Rows
    BY DEF Rows, Pool!Rows
  <2>2. \A other : ~Mounting(other)'
    BY DEF Mounting
  <2>3. \A other \in Live \ {id} : ~Mounting(other)
    BY DEF Mounting
  <2>4. \A other \in Live : seqs'[other].row = seqs[other].row
    BY <1>5, <1>7
  <2>5. \A other, another \in Live' :
          seqs'[other].row # -1 /\ seqs'[other].row = seqs'[another].row => other = another
    BY <1>6, <2>4 DEF Base, Holdings
  <2>6. \A r \in Rows : row_busy'[r] <=> \E other \in Live' : seqs'[other].row = r
    BY <1>6, <2>4 DEF Base, Holdings
  <2>7. \A other \in Live' : seqs'[other].row = -1 <=> seqs'[other].state = "WAITING"
    BY <1>5, <1>6, <1>7, <2>3 DEF Base, Holdings
  <2>8. ASSUME NEW other \in Live', seqs'[other].row # -1
        PROVE  seqs'[other].blocks = Len(block_tables'[seqs'[other].row])
    <3>1. CASE other = id
      BY <1>5, <3>1
    <3>2. CASE other # id
      <4>1. other \in Live /\ seqs'[other] = seqs[other] /\ seqs[other].row # -1
            /\ seqs[other].row # seqs[id].row
        BY <1>3, <1>6, <1>7, <2>8, <3>2 DEF Base, Holdings
      <4>2. seqs[other].row \in Rows
        BY <1>7, <4>1, TypedFacts DEF Base, Sound
      <4>3. seqs[other].blocks = Len(block_tables[seqs[other].row])
        BY <4>1 DEF Base, Holdings, Table
      <4> QED
        BY <4>1, <4>2, <4>3
    <3> QED
      BY <3>1, <3>2
  <2>9. \A other \in Live' : seqs'[other].state = "WAITING" =>
          /\ seqs'[other].blocks = 0 /\ seqs'[other].prefilled = 0
          /\ seqs'[other].generated = 0 /\ seqs'[other].chain = <<>>
    BY <1>5, <1>6, <1>7 DEF Base, Holdings
  <2> QED
    BY <2>1, <2>2, <2>5, <2>6, <2>7, <2>8, <2>9 DEF Holdings, Table
<1>13. Measured'
  <2>1. ASSUME NEW other \in DOMAIN seqs'
        PROVE  LET s == seqs'[other]
               IN  /\ s.prefilled <= NumPrompt(s)
                   /\ s.generated > 0 => Complete(s)
                   /\ s.generated <= Target(s)
                   /\ Len(s.chain) * BlockSize <= s.prefilled
                   /\ s.state \in {"WAITING", "PREEMPTED"} => s.generated < Target(s)
                   /\ s.state = "RUNNING" /\ phase' \notin {"record", "update"} => s.generated < Target(s)
    <3>1. CASE other = id
      <4>1. t.generated <= Target(t)
        BY RecordFacts
      <4> QED
        BY <1>5, <3>1, <4>1
    <3>2. CASE other # id
      BY <1>5, <3>2 DEF Base, Measured
    <3> QED
      BY <3>1, <3>2
  <2> QED
    BY <2>1 DEF Measured, NumPrompt, Complete, Target
<1>14. Provided'
  <2>1. \A other : ~Served(other)
    BY NotServed DEF Passes
  <2>2. \A other \in Live' : seqs'[other].prefilled <= seqs'[other].blocks * BlockSize
    BY <1>5, <1>6, <1>7, ProvidedFacts
  <2>3. ASSUME NEW other \in Live', ~Complete(seqs'[other]), seqs'[other].state # "FINISHED"
        PROVE  seqs'[other].blocks * BlockSize <= seqs'[other].prefilled + BlockSize
    <3>1. CASE other = id
      BY <1>5, <2>3, <3>1
    <3>2. CASE other # id
      BY <1>6, <1>7, <2>1, <2>3, <3>2, ProvidedFacts
    <3> QED
      BY <3>1, <3>2
  <2> QED
    BY <1>9, <1>10, <2>2, <2>3, ProvidedNext
<1>15. Batched' /\ Planned'
  BY <1>8, <1>9, BatchEmpty, PlannedNone
<1>16. Unhurried'
  <2> SUFFICES ASSUME Roomy
               PROVE  /\ \A other \in DOMAIN seqs' : seqs'[other].preempts = 0
                      /\ \A other \in Live' : seqs'[other].state \in {"WAITING", "RUNNING"}
    BY <1>8 DEF Unhurried, Roomy
  <2> QED
    BY <1>3, <1>5, <1>6, <1>7 DEF Base, Unhurried
<1>17. Uncached' /\ Aborting'
  BY DEF Base, Uncached, Aborting
<1> QED
  BY <1>6, <1>9, <1>10, <1>11, <1>12, <1>13, <1>14, <1>15, <1>16, <1>17 DEF Base

\* A preempted sequence goes on with the row and the blocks it has kept.
LEMMA ResumeKeeps == ASSUME Base, Resume PROVE Base' /\ Live' = Live
<1>1. PICK id : id = Head(waiting)
  OBVIOUS
<1>2. /\ phase = "admit" /\ phase' = "admit" /\ waiting # <<>> /\ Len(running) < MaxBatch
      /\ seqs[id].state = "PREEMPTED" /\ seqs' = [seqs EXCEPT ![id].state = "RUNNING"]
      /\ waiting' = Tail(waiting) /\ running' = Append(running, id) /\ UNCHANGED cache_vars
      /\ next_seq_id' = next_seq_id /\ todo' = todo /\ batch' = batch /\ victims' = victims
  BY <1>1 DEF Resume, MayAdmit, step_vars
<1>3. id \in Range(waiting) /\ id \in Live /\ id \in DOMAIN seqs
  BY <1>1, <1>2, ListFacts, Headed
<1>4. PICK S : seqs \in [DOMAIN seqs -> Records(S)]
  BY DEF Base, Typed
<1>5. PICK s \in Records(S) : s = seqs[id]
  BY <1>3, <1>4
<1>6. PICK t : t = [s EXCEPT !.state = "RUNNING"]
  OBVIOUS
<1>7. /\ t \in Records(S) /\ t.blocks = s.blocks /\ t.state = "RUNNING"
      /\ t.prompt = s.prompt /\ t.eos = s.eos /\ t.max_gen = s.max_gen
      /\ t.row = s.row /\ t.prefilled = s.prefilled /\ t.generated = s.generated
      /\ t.preempts = s.preempts /\ t.chain = s.chain
  BY <1>6 DEF Records, States
<1>8. seqs' = [seqs EXCEPT ![id] = t]
  BY <1>2, <1>5, <1>6
<1>9. row_busy' = row_busy /\ block_tables' = block_tables /\ entries' = entries
  BY <1>2 DEF cache_vars, pool_vars
<1>10. t.row # -1 /\ t.row = seqs[id].row /\ t.blocks = Len(block_tables'[t.row])
  BY <1>2, <1>3, <1>5, <1>7, <1>9, RowOf
<1>11. /\ s.prefilled <= NumPrompt(s) /\ (s.generated > 0 => Complete(s)) /\ s.generated < Target(s)
       /\ Len(s.chain) * BlockSize <= s.prefilled
  BY <1>2, <1>3, <1>5 DEF Base, Measured
<1>12. ~Served(id)
  BY <1>2, NotServed DEF Passes
<1>13. /\ s.prefilled <= s.blocks * BlockSize
       /\ ~Complete(s) => s.blocks * BlockSize <= s.prefilled + BlockSize
  BY <1>2, <1>3, <1>5, <1>12, ProvidedFacts
<1>14. NumPrompt(t) = NumPrompt(s) /\ Target(t) = Target(s) /\ (Complete(t) <=> Complete(s))
  BY <1>7 DEF NumPrompt, Target, Complete
<1>15. /\ t.prefilled <= NumPrompt(t) /\ (t.generated > 0 => Complete(t)) /\ t.generated < Target(t)
       /\ Len(t.chain) * BlockSize <= t.prefilled /\ t.prefilled <= t.blocks * BlockSize
       /\ ~Complete(t) => t.blocks * BlockSize <= t.prefilled + BlockSize
  BY <1>7, <1>11, <1>13, <1>14
<1>16. \A r \in Rows \ {seqs[id].row} : block_tables'[r] = block_tables[r]
  BY <1>9
<1>17. t.prompt = seqs[id].prompt /\ t.max_gen = seqs[id].max_gen /\ t.preempts = seqs[id].preempts
  BY <1>5, <1>7
<1>18. phase \in {"admit", "mount"}
  BY <1>2
<1> QED
  BY <1>1, <1>2, <1>4, <1>7, <1>8, <1>9, <1>10, <1>15, <1>16, <1>17, <1>18, AdmitKeeps

\* The head of the queue, if it is a fresh request.
LEMMA FreshHead ==
  ASSUME Base, CacheInv, waiting # <<>>, seqs[Head(waiting)].state = "WAITING"
  PROVE  LET id == Head(waiting)
         IN  /\ id \in Range(waiting) /\ id \in Live /\ id \in DOMAIN seqs
             /\ Sound(seqs[id]) /\ seqs[id].prompt \in {q.prompt : q \in Accepted}
             /\ seqs[id].blocks = 0 /\ seqs[id].prefilled = 0
             /\ seqs[id].generated = 0 /\ seqs[id].chain = <<>>
             /\ phase # "mount" => seqs[id].row = -1
             /\ phase = "mount" => seqs[id].row \in Rows /\ seqs[id].row # -1
                                   /\ block_tables[seqs[id].row] = <<>>
<1>1. PICK id : id = Head(waiting)
  OBVIOUS
<1>2. id \in Range(waiting) /\ id \in Live /\ id \in DOMAIN seqs
  BY <1>1, ListFacts, Headed
<1>3. Sound(seqs[id])
  BY <1>2, ProvidedFacts
<1>4. seqs[id].prompt \in {q.prompt : q \in Accepted}
  <2>1. PICK S : seqs \in [DOMAIN seqs -> Records(S)]
    BY DEF Base, Typed
  <2>2. PICK s \in Records(S) : s = seqs[id]
    BY <1>2, <2>1
  <2> QED
    BY <2>2 DEF Records
<1>5. /\ seqs[id].blocks = 0 /\ seqs[id].prefilled = 0
      /\ seqs[id].generated = 0 /\ seqs[id].chain = <<>>
  BY <1>1, <1>2 DEF Base, Holdings
<1>6. phase # "mount" => seqs[id].row = -1
  BY <1>1, <1>2 DEF Base, Holdings, Mounting
<1>7. ASSUME phase = "mount"
      PROVE  seqs[id].row \in Rows /\ seqs[id].row # -1 /\ block_tables[seqs[id].row] = <<>>
  <2>1. seqs[id].row # -1
    BY <1>1, <1>2, <1>7 DEF Base, Holdings, Mounting
  <2>2. seqs[id].row \in Rows
    BY <1>3, <2>1 DEF Sound
  <2>3. Len(block_tables[seqs[id].row]) = 0
    BY <1>2, <1>5, <2>1 DEF Base, Holdings, Table
  <2>4. block_tables[seqs[id].row] \in Seq(Blocks)
    BY <2>2, PoolFacts DEF CacheInv, PoolView
  <2> QED
    BY <2>1, <2>2, <2>3, <2>4
<1> QED
  BY <1>1, <1>2, <1>3, <1>4, <1>5, <1>6, <1>7

\* A fresh request claims a row.
LEMMA ClaimRowKeeps ==
  ASSUME Base, CacheInv, ClaimRow
  PROVE  /\ Base' /\ Live' = Live
         /\ \E row \in Rows : /\ Pool!IsFirstFreeRow(row) /\ ~row_busy[row]
                             /\ seqs' = [seqs EXCEPT ![Head(waiting)].row = row]
                             /\ seqs'[Head(waiting)] = [seqs[Head(waiting)] EXCEPT !.row = row]
<1>1. PICK id : id = Head(waiting)
  OBVIOUS
<1>2. PICK row \in Rows : Pool!IsFirstFreeRow(row) /\ seqs' = [seqs EXCEPT ![id].row = row]
  BY <1>1 DEF ClaimRow
<1>3. /\ phase = "admit" /\ phase' = "mount" /\ waiting # <<>> /\ Len(running) < MaxBatch
      /\ seqs[id].state = "WAITING" /\ Pool!AllocateBlocks(0, <<>>) /\ entries' = entries
      /\ waiting' = waiting /\ running' = running
      /\ next_seq_id' = next_seq_id /\ todo' = todo /\ batch' = batch /\ victims' = victims
  BY <1>1 DEF ClaimRow, MayAdmit, queue_vars
<1>4. /\ id \in Range(waiting) /\ id \in Live /\ id \in DOMAIN seqs /\ Sound(seqs[id])
      /\ seqs[id].blocks = 0 /\ seqs[id].prefilled = 0
      /\ seqs[id].generated = 0 /\ seqs[id].chain = <<>> /\ seqs[id].row = -1
  BY <1>1, <1>3, FreshHead
<1>5. PICK other \in Rows : /\ Pool!IsFirstFreeRow(other) /\ ~row_busy[other]
                            /\ row_busy' = [row_busy EXCEPT ![other] = TRUE]
  BY <1>3, ClaimFacts
<1>6. other = row
  <2>1. Rows \subseteq Int
    BY SameSets, SchedulerSizes DEF Pool!Rows
  <2>2. /\ ~row_busy[row] /\ \A r \in Rows : r < row => row_busy[r]
        /\ ~row_busy[other] /\ \A r \in Rows : r < other => row_busy[r]
    BY <1>2, <1>5, SameSets DEF Pool!IsFirstFreeRow
  <2>3. ~(row < other) /\ ~(other < row)
    BY <2>2
  <2> QED
    BY <2>1, <2>3
<1>7. block_tables' = block_tables
  BY <1>3, ClaimFacts
<1>8. /\ row_busy \in [Rows -> BOOLEAN] /\ block_tables[row] = <<>> /\ ~row_busy[row] /\ row # -1
  <2>1. row_busy \in [Rows -> BOOLEAN] /\ ~row_busy[row]
    BY <1>5, <1>6, PoolFacts DEF CacheInv, PoolView
  <2>2. block_tables[row] = <<>>
    BY <2>1, PoolFacts DEF CacheInv, PoolView
  <2>3. row # -1
    BY SameSets, SchedulerSizes DEF Pool!Rows
  <2> QED
    BY <2>1, <2>2, <2>3
<1>9. PICK S : seqs \in [DOMAIN seqs -> Records(S)]
  BY DEF Base, Typed
<1>10. PICK s \in Records(S) : s = seqs[id]
  BY <1>4, <1>9
<1>11. PICK t : t = [s EXCEPT !.row = row]
  OBVIOUS
<1>12. /\ t \in Records(S) /\ t.blocks = s.blocks /\ t.state = s.state
       /\ t.prompt = s.prompt /\ t.eos = s.eos /\ t.max_gen = s.max_gen
       /\ t.row = row /\ t.prefilled = s.prefilled /\ t.generated = s.generated
       /\ t.preempts = s.preempts /\ t.chain = s.chain
  BY <1>11 DEF Records
<1>13. seqs' = [seqs EXCEPT ![id] = t]
  BY <1>2, <1>10, <1>11
<1>14. /\ DOMAIN seqs' = DOMAIN seqs /\ seqs' \in [DOMAIN seqs' -> Records(S)] /\ seqs'[id] = t
       /\ \A o \in DOMAIN seqs \ {id} : seqs'[o] = seqs[o]
  BY <1>4, <1>9, <1>12, <1>13, SeqsUpdated
<1>15. Live' = Live /\ Live \subseteq DOMAIN seqs /\ \A o \in Live \ {id} : seqs'[o] = seqs[o]
  <2>1. Live' = Live
    BY <1>3 DEF Live
  <2> QED
    BY <1>14, <2>1, ListFacts
<1>16. batch' = <<>> /\ victims' = <<>>
  BY <1>3, ListFacts DEF Passes
<1>17. \A o \in DOMAIN seqs : /\ seqs'[o].state = seqs[o].state /\ seqs'[o].prompt = seqs[o].prompt
                              /\ seqs'[o].max_gen = seqs[o].max_gen /\ seqs'[o].eos = seqs[o].eos
                              /\ seqs'[o].blocks = seqs[o].blocks
                              /\ seqs'[o].prefilled = seqs[o].prefilled
                              /\ seqs'[o].generated = seqs[o].generated
                              /\ seqs'[o].preempts = seqs[o].preempts /\ seqs'[o].chain = seqs[o].chain
                              /\ o # id => seqs'[o].row = seqs[o].row
  BY <1>10, <1>12, <1>14
<1>18. Typed'
  BY <1>3, <1>14, <1>17 DEF Base, Typed, NumPrompt, Phases, Passes
<1>19. Queues'
  <2>0. Queues /\ \A o \in Range(waiting) \cup Range(running) : seqs'[o].state = seqs[o].state
    BY <1>17, ListFacts DEF Base
  <2>1. /\ \A o \in DOMAIN seqs' : o \in Live' \/ seqs'[o].state = "FINISHED"
        /\ \A o \in Range(waiting) : seqs'[o].state \in {"WAITING", "PREEMPTED"}
        /\ \A o \in Range(running) : seqs'[o].state = "RUNNING"
    <3>1. \A o \in DOMAIN seqs' : o \in Live' \/ seqs'[o].state = "FINISHED"
      BY <1>14, <1>15, <1>17, <2>0 DEF Queues
    <3>2. \A o \in Range(waiting) : seqs'[o].state \in {"WAITING", "PREEMPTED"}
      BY <2>0 DEF Queues
    <3>3. \A o \in Range(running) : seqs'[o].state = "RUNNING"
      BY <1>3, <2>0 DEF Queues
    <3> QED
      BY <3>1, <3>2, <3>3
  <2>2. waiting' # <<>> /\ seqs'[Head(waiting')].state = "WAITING" /\ Len(running') < MaxBatch
    BY <1>1, <1>3, <1>4, <1>17
  <2>3. /\ Range(waiting') \subseteq DOMAIN seqs' /\ Range(running') \subseteq DOMAIN seqs'
        /\ Range(waiting') \cap Range(running') = {} /\ Range(todo') \subseteq Range(running')
        /\ IsInjective(waiting') /\ IsInjective(running') /\ IsInjective(todo')
        /\ Len(running') <= MaxBatch
    BY <1>3, <1>14, ListFacts
  <2>4. \A o \in Range(running') : seqs'[o].state # "WAITING"
    BY <1>3, <2>1
  <2> QED
    BY <1>3, <2>1, <2>2, <2>3, <2>4 DEF Queues
<1>20. Ordered'
  BY <1>3, <1>17, OrderedStill, ListFacts DEF Base
<1>21. Holdings'
  <2>1. Rows' = Rows
    BY DEF Rows, Pool!Rows
  <2>2. \A o \in Live : ~Mounting(o)
    BY <1>3 DEF Mounting
  <2>3. \A o \in Live : Mounting(o)' <=> o = id
    BY <1>1, <1>3 DEF Mounting
  <2>4. \A o \in Live : seqs[o].row # row
    BY <1>8 DEF Base, Holdings
  <2>5. \A o, another \in Live :
          seqs'[o].row # -1 /\ seqs'[o].row = seqs'[another].row => o = another
    BY <1>12, <1>14, <1>15, <2>4 DEF Base, Holdings
  <2>6. ASSUME NEW r \in Rows
        PROVE  row_busy'[r] <=> \E o \in Live : seqs'[o].row = r
    <3>1. CASE r = row
      BY <1>4, <1>5, <1>6, <1>8, <1>12, <1>14, <3>1
    <3>2. CASE r # row
      <4>1. row_busy'[r] <=> row_busy[r]
        BY <1>5, <1>6, <1>8, <3>2
      <4>2. row_busy[r] <=> \E o \in Live : seqs[o].row = r
        BY DEF Base, Holdings
      <4>3. r # -1
        BY SameSets, SchedulerSizes DEF Pool!Rows
      <4> QED
        BY <1>4, <1>12, <1>14, <1>15, <3>2, <4>1, <4>2, <4>3
    <3> QED
      BY <3>1, <3>2
  <2>7. ASSUME NEW o \in Live
        PROVE  seqs'[o].row = -1 <=> seqs'[o].state = "WAITING" /\ ~Mounting(o)'
    <3>1. CASE o = id
      BY <1>8, <1>12, <1>14, <2>3, <3>1
    <3>2. CASE o # id
      BY <1>15, <2>2, <2>3, <3>2 DEF Base, Holdings
    <3> QED
      BY <3>1, <3>2
  <2>8. ASSUME NEW o \in Live, seqs'[o].row # -1
        PROVE  seqs'[o].blocks = Len(block_tables[seqs'[o].row])
    <3>1. CASE o = id
      <4>1. Len(<<>>) = 0
        OBVIOUS
      <4> QED
        BY <1>4, <1>8, <1>10, <1>12, <1>14, <3>1, <4>1
    <3>2. CASE o # id
      BY <1>15, <2>8, <3>2 DEF Base, Holdings, Table
    <3> QED
      BY <3>1, <3>2
  <2>9. \A o \in Live : seqs'[o].state = "WAITING" =>
          /\ seqs'[o].blocks = 0 /\ seqs'[o].prefilled = 0
          /\ seqs'[o].generated = 0 /\ seqs'[o].chain = <<>>
    BY <1>15, <1>17 DEF Base, Holdings
  <2> QED
    BY <1>7, <1>15, <2>1, <2>5, <2>6, <2>7, <2>8, <2>9 DEF Holdings, Table, Mounting
<1>22. Measured'
  BY <1>3, <1>14, <1>17 DEF Base, Measured, NumPrompt, Complete, Target
<1>23. Provided'
  <2>1. \A o : ~Served(o)
    BY <1>3, NotServed DEF Passes
  <2>2. \A o \in Live : Complete(seqs'[o]) <=> Complete(seqs[o])
    BY <1>15, <1>17 DEF Complete, NumPrompt
  <2>3. \A o \in Live' : seqs'[o].prefilled <= seqs'[o].blocks * BlockSize
    BY <1>15, <1>17, ProvidedFacts
  <2>4. ASSUME NEW o \in Live', ~Complete(seqs'[o]), seqs'[o].state # "FINISHED"
        PROVE  seqs'[o].blocks * BlockSize <= seqs'[o].prefilled + BlockSize
    <3>1. o \in Live /\ o \in DOMAIN seqs /\ ~Complete(seqs[o])
      BY <1>15, <2>2, <2>4
    <3>2. seqs[o].blocks * BlockSize <= seqs[o].prefilled + BlockSize
      BY <1>17, <2>1, <2>4, <3>1, ProvidedFacts
    <3> QED
      BY <1>17, <3>1, <3>2
  <2> QED
    BY <1>18, <1>19, <2>3, <2>4, ProvidedNext
<1>24. Batched' /\ Planned'
  BY <1>16, <1>18, BatchEmpty, PlannedNone
<1>25. Unhurried'
  <2> SUFFICES ASSUME Roomy
               PROVE  /\ \A o \in DOMAIN seqs' : seqs'[o].preempts = 0
                      /\ \A o \in Live' : seqs'[o].state \in {"WAITING", "RUNNING"}
    BY <1>16 DEF Unhurried, Roomy
  <2> QED
    BY <1>14, <1>15, <1>17 DEF Base, Unhurried
<1>26. Uncached' /\ Aborting'
  BY <1>3 DEF Base, Uncached, Aborting
<1>27. Base'
  BY <1>18, <1>19, <1>20, <1>21, <1>22, <1>23, <1>24, <1>25, <1>26 DEF Base
<1>28. seqs'[id] = [seqs[id] EXCEPT !.row = row]
  BY <1>10, <1>11, <1>14
<1> QED
  BY <1>1, <1>2, <1>8, <1>15, <1>27, <1>28

\* The longest cached prefix is mounted, and counts as prefilled.
LEMMA MountPrefixKeeps ==
  ASSUME Base, CacheInv, MountPrefix
  PROVE  LET id == Head(waiting)
             chain == Lookup(Paged(seqs[id].prompt))
         IN  /\ Base' /\ Live' = Live
             /\ MountMatch(seqs[id].row, chain) /\ id \in Live /\ id \in DOMAIN seqs
             /\ chain \in Seq(DOMAIN entries) /\ Len(chain) \in Nat
             /\ Len(chain) < Len(Paged(seqs[id].prompt))
             /\ seqs' = [seqs EXCEPT ![id] = seqs'[id]]
             /\ seqs'[id].prompt = seqs[id].prompt /\ seqs'[id].row = seqs[id].row
             /\ seqs'[id].prefilled = Len(chain) * BlockSize
             /\ seqs'[id].prefilled < NumPrompt(seqs'[id])
             /\ seqs'[id].chain = <<>>
<1>1. PICK id : id = Head(waiting)
  OBVIOUS
<1>2. PICK prompt : prompt = seqs[id].prompt
  OBVIOUS
<1>3. PICK found : found = Lookup(Paged(prompt))
  OBVIOUS
<1>4. /\ phase = "mount" /\ phase' = "admit"
      /\ waiting' = Tail(waiting) /\ running' = Append(running, id)
      /\ next_seq_id' = next_seq_id /\ todo' = todo /\ batch' = batch /\ victims' = victims
  BY <1>1 DEF MountPrefix
<1>5. PICK chain \in {IF CacheOn THEN found ELSE <<>>} :
        /\ MountMatch(seqs[id].row, chain)
        /\ seqs' = [seqs EXCEPT ![id].state = "RUNNING",
                                ![id].blocks = Len(chain),
                                ![id].prefilled = Min({Len(chain) * BlockSize, Len(prompt)})]
  BY <1>1, <1>2, <1>3 DEF MountPrefix
<1>6. waiting # <<>> /\ seqs[id].state = "WAITING" /\ Len(running) < MaxBatch
  BY <1>1, <1>4 DEF Base, Queues
<1>7. /\ id \in Range(waiting) /\ id \in Live /\ id \in DOMAIN seqs /\ Sound(seqs[id])
      /\ prompt \in {q.prompt : q \in Accepted}
      /\ seqs[id].blocks = 0 /\ seqs[id].prefilled = 0
      /\ seqs[id].generated = 0 /\ seqs[id].chain = <<>>
      /\ seqs[id].row \in Rows /\ seqs[id].row # -1 /\ block_tables[seqs[id].row] = <<>>
  BY <1>1, <1>2, <1>4, <1>6, FreshHead
<1>8. PICK paged : paged = Paged(prompt)
  OBVIOUS
<1>9. /\ Len(paged) \in Nat /\ Len(paged) >= 1 /\ Cacheable(paged) = Len(paged) - 1
      /\ Cacheable(paged) \in Nat /\ \A m \in Int : Len(paged) <= m <=> Len(prompt) <= m * BlockSize
  BY <1>7, <1>8, PagedFacts
<1>10. found \in Seq(DOMAIN entries) /\ Len(found) \in Nat /\ Len(found) < Len(paged)
  <2>1. found \in Seq(DOMAIN entries) /\ Len(found) <= Cacheable(paged)
    BY <1>3, <1>8, <1>9, LookupFacts
  <2> QED
    BY <1>9, <2>1
<1>11. chain = found
  <2>1. CASE CacheOn
    BY <1>5, <2>1
  <2>2. CASE ~CacheOn
    <3>1. DOMAIN entries = {}
      BY <2>2 DEF Base, Uncached
    <3>2. found = <<>>
      <4>1. found = <<>> \/ found[1] \in DOMAIN entries
        BY <1>10
      <4> QED
        BY <3>1, <4>1
    <3> QED
      BY <1>5, <2>2, <3>2
  <2> QED
    BY <2>1, <2>2
<1>12. PICK n \in Nat : n = Len(chain)
  BY <1>10, <1>11
<1>13. PICK have : have = n * BlockSize
  OBVIOUS
<1>14. have \in Nat /\ have < Len(prompt) /\ Len(prompt) \in Nat
  <2>1. Len(prompt) \in Nat
    BY <1>7 DEF Accepted
  <2>2. ~(Len(paged) <= n)
    BY <1>9, <1>10, <1>11, <1>12
  <2>3. ~(Len(prompt) <= n * BlockSize)
    BY <1>9, <1>12, <2>2
  <2>4. n * BlockSize \in Nat
    BY Sizes
  <2> QED
    BY <1>13, <2>1, <2>3, <2>4
<1>15. PICK p : p = Min({have, Len(prompt)})
  OBVIOUS
<1>16. p = have
  BY <1>14, <1>15, MinOfTwo
<1>17. PICK S : seqs \in [DOMAIN seqs -> Records(S)]
  BY DEF Base, Typed
<1>18. PICK s \in Records(S) : s = seqs[id]
  BY <1>7, <1>17
<1>19. PICK t : t = [s EXCEPT !.state = "RUNNING", !.blocks = n, !.prefilled = have]
  OBVIOUS
<1>20. /\ t \in Records(S) /\ t.blocks = n /\ t.state = "RUNNING"
       /\ t.prompt = s.prompt /\ t.eos = s.eos /\ t.max_gen = s.max_gen
       /\ t.row = s.row /\ t.prefilled = have /\ t.generated = s.generated
       /\ t.preempts = s.preempts /\ t.chain = s.chain
  BY <1>14, <1>19 DEF Records, States
<1>21. seqs' = [seqs EXCEPT ![id] = t]
  <2>1. seqs' = [seqs EXCEPT ![id].state = "RUNNING", ![id].blocks = n, ![id].prefilled = have]
    BY <1>5, <1>12, <1>13, <1>15, <1>16
  <2> QED
    BY <1>7, <1>18, <1>19, <2>1
<1>22. MountMatch(seqs[id].row, chain) /\ chain \in Seq(DOMAIN entries)
  BY <1>5, <1>10, <1>11
<1>23. /\ row_busy' = row_busy /\ entries' = entries
       /\ \A r \in Rows \ {seqs[id].row} : block_tables'[r] = block_tables[r]
       /\ Len(block_tables'[seqs[id].row]) = Len(chain)
  BY <1>7, <1>22, MountMatchFacts
<1>24. NumPrompt(t) = Len(prompt) /\ Target(t) = Target(s) /\ Target(s) >= 1 /\ Target(s) \in Nat
  <2>1. Target(s) >= 1 /\ Target(s) \in Nat
    BY <1>7, <1>18 DEF Sound
  <2> QED
    BY <1>2, <1>18, <1>20, <2>1 DEF NumPrompt, Target
<1>25. Len(t.chain) * BlockSize = 0
  <2>1. Len(t.chain) = 0
    BY <1>7, <1>18, <1>20
  <2> QED
    BY <2>1, Sizes
<1>26. /\ t.prefilled <= NumPrompt(t) /\ (t.generated > 0 => Complete(t)) /\ t.generated < Target(t)
       /\ Len(t.chain) * BlockSize <= t.prefilled /\ t.prefilled <= t.blocks * BlockSize
       /\ ~Complete(t) => t.blocks * BlockSize <= t.prefilled + BlockSize
  BY <1>7, <1>13, <1>14, <1>18, <1>20, <1>24, <1>25, Sizes
<1>27. /\ t.prompt = seqs[id].prompt /\ t.max_gen = seqs[id].max_gen /\ t.preempts = seqs[id].preempts
       /\ t.row = seqs[id].row /\ t.row # -1 /\ t.state = "RUNNING"
       /\ t.blocks = Len(block_tables'[t.row])
  BY <1>7, <1>12, <1>18, <1>20, <1>23
<1>28. phase \in {"admit", "mount"}
  BY <1>4
<1>29. Base' /\ Live' = Live
  BY <1>1, <1>4, <1>6, <1>17, <1>20, <1>21, <1>23, <1>26, <1>27, <1>28, AdmitKeeps
<1>30. seqs'[id] = t
  BY <1>7, <1>21
<1>31. t.prefilled = Len(chain) * BlockSize /\ t.prefilled < NumPrompt(t) /\ t.chain = <<>>
  BY <1>7, <1>12, <1>13, <1>14, <1>18, <1>20, <1>24
<1> QED
  BY <1>1, <1>2, <1>3, <1>7, <1>8, <1>10, <1>11, <1>21, <1>22, <1>27, <1>29, <1>30, <1>31

-------------------------------------------------------------------------------
(* After the batch.                                                          *)

\* The forward pass gives each decode row's sequence a token.
LEMMA ForwardKeeps ==
  ASSUME Base, Forward
  PROVE  /\ Base' /\ Live' = Live
         /\ \A id \in DOMAIN seqs :
              /\ seqs'[id].state = seqs[id].state /\ seqs'[id].row = seqs[id].row
              /\ seqs'[id].prompt = seqs[id].prompt /\ seqs'[id].prefilled = seqs[id].prefilled
              /\ seqs'[id].chain = seqs[id].chain /\ seqs'[id].max_gen = seqs[id].max_gen
              /\ seqs'[id].eos = seqs[id].eos
              /\ \/ seqs'[id] = seqs[id]
                 \/ /\ id \in Range(running) /\ seqs[id].state = "RUNNING"
                    /\ seqs[id].generated < Target(seqs[id])
                    /\ seqs'[id].generated = seqs[id].generated + 1
<1> DEFINE decodes == {id \in DOMAIN seqs : \E chunk \in Range(batch) : chunk.id = id /\ chunk.decode}
<1>1. /\ phase = "execute" /\ phase' = "record" /\ UNCHANGED cache_vars
      /\ next_seq_id' = next_seq_id /\ waiting' = waiting /\ running' = running
      /\ batch' = <<>> /\ todo' = todo /\ victims' = victims
  BY DEF Forward, queue_vars
<1>2. seqs' = [id \in DOMAIN seqs |-> IF id \in decodes THEN [seqs[id] EXCEPT !.generated = @ + 1]
                                                         ELSE seqs[id]]
  BY DEF Forward
<1>3. PICK S : seqs \in [DOMAIN seqs -> Records(S)]
  BY DEF Base, Typed
<1>4. ASSUME NEW id \in decodes
      PROVE  /\ id \in Range(running) /\ seqs[id].state = "RUNNING" /\ Complete(seqs[id])
             /\ seqs[id].generated < Target(seqs[id])
  <2>1. PICK chunk \in Range(batch) : chunk.id = id /\ chunk.decode
    OBVIOUS
  <2>2. batch \in Seq(Runs)
    BY ListFacts
  <2>3. PICK i \in 1 .. Len(batch) : batch[i] = chunk
    BY <2>1, <2>2 DEF Range
  <2>4. id \in Range(running) /\ seqs[id].state = "RUNNING" /\ Complete(seqs[id])
    BY <2>1, <2>3 DEF Base, Batched
  <2>5. id \in DOMAIN seqs
    OBVIOUS
  <2> QED
    BY <1>1, <2>4, <2>5 DEF Base, Measured
<1> HIDE DEF decodes
<1>5. decodes \subseteq DOMAIN seqs
  BY DEF decodes
<1>6. ASSUME NEW id \in DOMAIN seqs
      PROVE  /\ seqs'[id] \in Records(S)
             /\ seqs'[id].state = seqs[id].state /\ seqs'[id].row = seqs[id].row
             /\ seqs'[id].prompt = seqs[id].prompt /\ seqs'[id].prefilled = seqs[id].prefilled
             /\ seqs'[id].chain = seqs[id].chain /\ seqs'[id].max_gen = seqs[id].max_gen
             /\ seqs'[id].eos = seqs[id].eos /\ seqs'[id].blocks = seqs[id].blocks
             /\ seqs'[id].preempts = seqs[id].preempts
             /\ seqs'[id].generated = IF id \in decodes THEN seqs[id].generated + 1
                                                        ELSE seqs[id].generated
             /\ id \notin decodes => seqs'[id] = seqs[id]
  <2>1. PICK s \in Records(S) : s = seqs[id]
    BY <1>3
  <2>2. CASE id \in decodes
    <3>1. seqs'[id] = [s EXCEPT !.generated = @ + 1]
      BY <1>2, <2>1, <2>2
    <3> QED
      BY <2>1, <2>2, <3>1 DEF Records
  <2>3. CASE id \notin decodes
    BY <1>2, <2>1, <2>3
  <2> QED
    BY <2>2, <2>3
<1>7. DOMAIN seqs' = DOMAIN seqs /\ seqs' \in [DOMAIN seqs' -> Records(S)]
  <2>1. DOMAIN seqs' = DOMAIN seqs /\ seqs' = [id \in DOMAIN seqs |-> seqs'[id]]
    BY <1>2
  <2> QED
    BY <1>6, <2>1
<1>8. Live' = Live /\ Live \subseteq DOMAIN seqs
  BY <1>1, ListFacts DEF Live
<1>9. \A id \in DOMAIN seqs : /\ NumPrompt(seqs'[id]) = NumPrompt(seqs[id])
                              /\ Target(seqs'[id]) = Target(seqs[id])
                              /\ Complete(seqs'[id]) <=> Complete(seqs[id])
  BY <1>6 DEF NumPrompt, Target, Complete
<1>10. Typed'
  <2>1. \A id \in DOMAIN seqs' : NumPrompt(seqs'[id]) + seqs'[id].max_gen <= MaxSeqLen
    BY <1>6, <1>7, <1>9 DEF Base, Typed
  <2> QED
    BY <1>1, <1>7, <2>1, ListFacts DEF Base, Typed, NumPrompt, Phases, Passes
<1>11. Queues'
  <2>1. \A id \in DOMAIN seqs : seqs'[id].state = seqs[id].state
    BY <1>6
  <2> QED
    BY <1>1, <1>7, <1>8, <2>1, ListFacts DEF Base, Queues
<1>12. Ordered'
  BY <1>1, <1>6, ListFacts, OrderedStill DEF Base
<1>13. Holdings'
  <2>1. row_busy' = row_busy /\ block_tables' = block_tables
    BY <1>1 DEF cache_vars, pool_vars
  <2>2. phase # "mount" /\ phase' # "mount" /\ Holdings
    BY <1>1 DEF Base
  <2>3. \A id \in Live : /\ seqs'[id].row = seqs[id].row
                         /\ seqs'[id].blocks = seqs[id].blocks
                         /\ seqs'[id] = seqs[id]
                              \/ (seqs[id].state # "WAITING" /\ seqs'[id].state # "WAITING")
    <3> SUFFICES ASSUME NEW id \in Live
                 PROVE  /\ seqs'[id].row = seqs[id].row
                        /\ seqs'[id].blocks = seqs[id].blocks
                        /\ seqs'[id] = seqs[id]
                              \/ (seqs[id].state # "WAITING" /\ seqs'[id].state # "WAITING")
      OBVIOUS
    <3>1. id \in decodes => seqs[id].state = "RUNNING"
      BY <1>4
    <3> QED
      BY <1>6, <1>8, <3>1
  <2> QED
    BY <1>8, <2>1, <2>2, <2>3, HoldingsStill, Zenon
<1>14. Measured'
  <2>1. ASSUME NEW id \in DOMAIN seqs'
        PROVE  LET s == seqs'[id]
               IN  /\ s.prefilled <= NumPrompt(s)
                   /\ s.generated > 0 => Complete(s)
                   /\ s.generated <= Target(s)
                   /\ Len(s.chain) * BlockSize <= s.prefilled
                   /\ s.state \in {"WAITING", "PREEMPTED"} => s.generated < Target(s)
                   /\ s.state = "RUNNING" /\ phase' \notin {"record", "update"} => s.generated < Target(s)
    <3>1. id \in DOMAIN seqs
      BY <1>7
    <3>2. /\ seqs[id].prefilled <= NumPrompt(seqs[id])
          /\ seqs[id].generated > 0 => Complete(seqs[id])
          /\ seqs[id].generated <= Target(seqs[id])
          /\ Len(seqs[id].chain) * BlockSize <= seqs[id].prefilled
          /\ seqs[id].state \in {"WAITING", "PREEMPTED"} => seqs[id].generated < Target(seqs[id])
      BY <3>1 DEF Base, Measured
    <3>3. seqs[id].generated \in Nat /\ Target(seqs[id]) \in Nat
      BY <3>1, TypedFacts DEF Base, Sound
    <3>4. CASE id \in decodes
      <4>1. /\ seqs[id].state = "RUNNING" /\ Complete(seqs[id])
            /\ seqs[id].generated < Target(seqs[id])
        BY <1>4, <3>4
      <4>2. seqs'[id].generated = seqs[id].generated + 1
        BY <1>6, <3>1, <3>4
      <4>3. seqs'[id].generated <= Target(seqs'[id])
        BY <1>9, <3>1, <3>3, <4>1, <4>2
      <4>4. seqs'[id].state = "RUNNING" /\ Complete(seqs'[id])
        BY <1>6, <1>9, <3>1, <4>1
      <4>5. seqs'[id].prefilled <= NumPrompt(seqs'[id])
            /\ Len(seqs'[id].chain) * BlockSize <= seqs'[id].prefilled
        BY <1>6, <1>9, <3>1, <3>2
      <4> QED
        BY <1>1, <4>3, <4>4, <4>5
    <3>5. CASE id \notin decodes
      <4>1. seqs'[id] = seqs[id]
        BY <1>6, <3>1, <3>5
      <4> QED
        BY <1>1, <3>2, <4>1
    <3> QED
      BY <3>4, <3>5
  <2> QED
    BY <2>1 DEF Measured, NumPrompt, Complete, Target
<1>15. Provided'
  <2>1. \A id : ~Served(id)
    BY <1>1, NotServed DEF Passes
  <2>2. \A id \in Live' : seqs'[id].prefilled <= seqs'[id].blocks * BlockSize
    BY <1>6, <1>8, ProvidedFacts
  <2>3. ASSUME NEW id \in Live', ~Complete(seqs'[id]), seqs'[id].state # "FINISHED"
        PROVE  seqs'[id].blocks * BlockSize <= seqs'[id].prefilled + BlockSize
    <3>1. id \in Live /\ id \in DOMAIN seqs /\ ~Complete(seqs[id])
      BY <1>8, <1>9, <2>3
    <3> QED
      BY <1>6, <2>1, <2>3, <3>1, ProvidedFacts
  <2> QED
    BY <1>10, <1>11, <2>2, <2>3, ProvidedNext
<1>16. Batched' /\ Planned' /\ victims' = <<>>
  BY <1>1, <1>10, BatchEmpty, PlannedNone, ListFacts DEF Passes
<1>17. Unhurried'
  <2> SUFFICES ASSUME Roomy
               PROVE  /\ \A id \in DOMAIN seqs' : seqs'[id].preempts = 0
                      /\ \A id \in Live' : seqs'[id].state \in {"WAITING", "RUNNING"}
    BY <1>16 DEF Unhurried, Roomy
  <2> QED
    BY <1>6, <1>7, <1>8 DEF Base, Unhurried
<1>18. Uncached' /\ Aborting'
  BY <1>1 DEF Base, Uncached, Aborting, cache_vars
<1>19. Base'
  BY <1>10, <1>11, <1>12, <1>13, <1>14, <1>15, <1>16, <1>17, <1>18 DEF Base
<1>20. \A id \in DOMAIN seqs :
         \/ seqs'[id] = seqs[id]
         \/ /\ id \in Range(running) /\ seqs[id].state = "RUNNING"
            /\ seqs[id].generated < Target(seqs[id])
            /\ seqs'[id].generated = seqs[id].generated + 1
  <2> SUFFICES ASSUME NEW id \in DOMAIN seqs
               PROVE  \/ seqs'[id] = seqs[id]
                      \/ /\ id \in Range(running) /\ seqs[id].state = "RUNNING"
                         /\ seqs[id].generated < Target(seqs[id])
                         /\ seqs'[id].generated = seqs[id].generated + 1
    OBVIOUS
  <2>1. CASE id \in decodes
    BY <1>4, <1>6, <2>1
  <2>2. CASE id \notin decodes
    BY <1>6, <2>2
  <2> QED
    BY <2>1, <2>2
<1> QED
  BY <1>6, <1>8, <1>19, <1>20

\* A sequence leaves, and its row is free again.
LEMMA RetireKeeps ==
  ASSUME Base, CacheInv, NEW id \in Range(running), phase \in {"abort", "update"}, Retire(id)
  PROVE  /\ Base' /\ Live' = Live \ {id} /\ id \in DOMAIN seqs
         /\ seqs[id].row \in Rows /\ Pool!FreeBlocksFrom(seqs[id].row, 0)
         /\ DOMAIN seqs' = DOMAIN seqs
         /\ \A other \in DOMAIN seqs \ {id} : seqs'[other] = seqs[other]
         /\ seqs'[id] = [seqs[id] EXCEPT !.state = "FINISHED"]
<1>1. PICK row : row = seqs[id].row
  OBVIOUS
<1>2. /\ Pool!FreeBlocksFrom(row, 0) /\ entries' = entries
      /\ seqs' = [seqs EXCEPT ![id].state = "FINISHED"]
      /\ running' = Filtered(running, DOMAIN seqs \ {id})
      /\ next_seq_id' = next_seq_id /\ waiting' = waiting
      /\ phase' = phase /\ todo' = todo /\ batch' = batch /\ victims' = victims
  BY <1>1 DEF Retire, step_vars
<1>3. id \in DOMAIN seqs /\ id \in Live /\ seqs[id].state # "WAITING"
  BY ListFacts DEF Base, Queues
<1>4. row \in Rows /\ row # -1 /\ \A other \in Live : seqs[other].row = row => other = id
  BY <1>1, <1>3, RowOf
<1>5. PICK S : seqs \in [DOMAIN seqs -> Records(S)]
  BY DEF Base, Typed
<1>6. PICK s \in Records(S) : s = seqs[id]
  BY <1>3, <1>5
<1>7. PICK t : t = [s EXCEPT !.state = "FINISHED"]
  OBVIOUS
<1>8. /\ t \in Records(S) /\ t.blocks = s.blocks /\ t.state = "FINISHED"
      /\ t.prompt = s.prompt /\ t.eos = s.eos /\ t.max_gen = s.max_gen
      /\ t.row = s.row /\ t.prefilled = s.prefilled /\ t.generated = s.generated
      /\ t.preempts = s.preempts /\ t.chain = s.chain
  BY <1>7 DEF Records, States
<1>9. seqs' = [seqs EXCEPT ![id] = t]
  BY <1>2, <1>6, <1>7
<1>10. /\ DOMAIN seqs' = DOMAIN seqs /\ seqs' \in [DOMAIN seqs' -> Records(S)] /\ seqs'[id] = t
       /\ \A other \in DOMAIN seqs \ {id} : seqs'[other] = seqs[other]
  BY <1>3, <1>5, <1>8, <1>9, SeqsUpdated
<1>11. /\ running' \in Seq(Nat) /\ IsInjective(running') /\ Range(running') = Range(running) \ {id}
       /\ Len(running') \in Nat /\ Len(running') <= Len(running)
  <2>1. PICK keep : keep = DOMAIN seqs \ {id}
    OBVIOUS
  <2>2. /\ running' \in Seq(Nat) /\ IsInjective(running') /\ Range(running') = Range(running) \cap keep
        /\ Len(running') \in Nat /\ Len(running') <= Len(running)
    BY <1>2, <2>1, FilteredFacts, ListFacts
  <2> QED
    BY <2>1, <2>2, ListFacts
<1>12. Live' = Live \ {id}
  BY <1>2, <1>11, ListFacts DEF Live
<1>13. Live \subseteq DOMAIN seqs /\ \A other \in Live' : other \in Live /\ seqs'[other] = seqs[other]
  BY <1>10, <1>12, ListFacts
<1>14. todo' = <<>> /\ victims' = <<>> /\ batch' = <<>>
  BY <1>2, ListFacts DEF Passes
<1>15. Typed'
  BY <1>2, <1>6, <1>8, <1>10, <1>11 DEF Base, Typed, NumPrompt, Phases, Passes
<1>16. Queues'
  <2>1. /\ \A other \in Range(running') : seqs'[other].state # "WAITING"
        /\ \A other \in Range(waiting') : seqs'[other].state \in {"WAITING", "PREEMPTED"}
    <3>1. \A other \in Range(running') : other \in Range(running) /\ seqs'[other] = seqs[other]
      BY <1>10, <1>11, ListFacts
    <3>2. \A other \in Range(waiting') : other \in Range(waiting) /\ seqs'[other] = seqs[other]
      BY <1>2, <1>10, ListFacts
    <3> QED
      BY <3>1, <3>2 DEF Base, Queues
  <2>2. \A other \in DOMAIN seqs' : other \in Live' \/ seqs'[other].state = "FINISHED"
    BY <1>8, <1>10, <1>12 DEF Base, Queues
  <2>3. Len(running') <= MaxBatch
    BY <1>11, ListFacts, Sizes
  <2>4. /\ Range(waiting') \subseteq DOMAIN seqs' /\ Range(running') \subseteq DOMAIN seqs'
        /\ Range(waiting') \cap Range(running') = {} /\ Range(todo') = {}
        /\ IsInjective(waiting') /\ IsInjective(todo')
    BY <1>2, <1>10, <1>11, <1>14, ListFacts
  <2> QED
    BY <1>2, <1>11, <2>1, <2>2, <2>3, <2>4 DEF Queues
<1>17. Ordered'
  <2>1. \A other \in Range(waiting) : seqs'[other].state = seqs[other].state
    BY <1>10, ListFacts
  <2> QED
    BY <1>2, <2>1, ListFacts, OrderedStill DEF Base
<1>18. Holdings'
  <2>1. Rows' = Rows
    BY DEF Rows, Pool!Rows
  <2>2. \A other : ~Mounting(other) /\ ~Mounting(other)'
    BY <1>2 DEF Mounting
  <2>3. \A r \in Rows \ {row} : block_tables'[r] = block_tables[r] /\ row_busy'[r] = row_busy[r]
    BY <1>2, <1>4, ReleaseFacts
  <2>4. ~row_busy'[row]
    <3>1. row_busy' = [row_busy EXCEPT ![row] = @ /\ 0 > 0] /\ row_busy \in [Rows -> BOOLEAN]
      BY <1>2, PoolFacts DEF Pool!FreeBlocksFrom, CacheInv, PoolView
    <3>2. row_busy'[row] = (row_busy[row] /\ 0 > 0)
      BY <1>4, <3>1
    <3>3. ~(0 > 0)
      OBVIOUS
    <3> QED
      BY <3>2, <3>3, Zenon
  <2>5. \A r \in Rows : row_busy'[r] <=> \E other \in Live' : seqs'[other].row = r
    <3> SUFFICES ASSUME NEW r \in Rows
                 PROVE  row_busy'[r] <=> \E other \in Live' : seqs'[other].row = r
      OBVIOUS
    <3>1. CASE r = row
      BY <1>4, <1>12, <1>13, <2>4, <3>1
    <3>2. CASE r # row
      <4>1. row_busy[r] <=> \E other \in Live : seqs[other].row = r
        BY DEF Base, Holdings
      <4> QED
        BY <1>1, <1>12, <1>13, <2>3, <3>2, <4>1
    <3> QED
      BY <3>1, <3>2
  <2>6. \A other, another \in Live' :
          seqs'[other].row # -1 /\ seqs'[other].row = seqs'[another].row => other = another
    BY <1>13 DEF Base, Holdings
  <2>7. ASSUME NEW other \in Live', seqs'[other].row # -1
        PROVE  seqs'[other].blocks = Len(block_tables'[seqs'[other].row])
    <3>1. other \in Live /\ seqs'[other] = seqs[other] /\ seqs[other].row # row
      BY <1>4, <1>12, <1>13
    <3>2. seqs[other].row \in Rows /\ seqs[other].blocks = Len(block_tables[seqs[other].row])
      BY <1>13, <2>7, <3>1, TypedFacts DEF Base, Holdings, Sound, Table
    <3> QED
      BY <2>3, <3>1, <3>2
  <2>8. \A other \in Live' :
          /\ seqs'[other].row = -1 <=> seqs'[other].state = "WAITING"
          /\ seqs'[other].state = "WAITING" =>
               /\ seqs'[other].blocks = 0 /\ seqs'[other].prefilled = 0
               /\ seqs'[other].generated = 0 /\ seqs'[other].chain = <<>>
    BY <1>13, <2>2 DEF Base, Holdings
  <2> QED
    BY <2>1, <2>2, <2>5, <2>6, <2>7, <2>8 DEF Holdings, Table
<1>19. Measured'
  <2>1. ASSUME NEW other \in DOMAIN seqs'
        PROVE  LET u == seqs'[other]
               IN  /\ u.prefilled <= NumPrompt(u)
                   /\ u.generated > 0 => Complete(u)
                   /\ u.generated <= Target(u)
                   /\ Len(u.chain) * BlockSize <= u.prefilled
                   /\ u.state \in {"WAITING", "PREEMPTED"} => u.generated < Target(u)
                   /\ u.state = "RUNNING" /\ phase' \notin {"record", "update"} => u.generated < Target(u)
    <3>1. CASE other = id
      <4>1. NumPrompt(t) = NumPrompt(s) /\ Target(t) = Target(s) /\ (Complete(t) <=> Complete(s))
        BY <1>8 DEF NumPrompt, Target, Complete
      <4>2. /\ s.prefilled <= NumPrompt(s) /\ (s.generated > 0 => Complete(s))
            /\ s.generated <= Target(s) /\ Len(s.chain) * BlockSize <= s.prefilled
        BY <1>3, <1>6 DEF Base, Measured
      <4> QED
        BY <1>8, <1>10, <3>1, <4>1, <4>2
    <3>2. CASE other # id
      BY <1>2, <1>10, <3>2 DEF Base, Measured
    <3> QED
      BY <3>1, <3>2
  <2> QED
    BY <2>1 DEF Measured, NumPrompt, Complete, Target
<1>20. Provided'
  <2>1. \A other : ~Served(other)
    BY NotServed DEF Passes
  <2> QED
    BY <1>13, <1>15, <1>16, <2>1, ProvidedFacts, ProvidedNext
<1>21. Batched' /\ Planned'
  BY <1>14, <1>15, BatchEmpty, PlannedNone
<1>22. Unhurried'
  <2> SUFFICES ASSUME Roomy
               PROVE  /\ \A other \in DOMAIN seqs' : seqs'[other].preempts = 0
                      /\ \A other \in Live' : seqs'[other].state \in {"WAITING", "RUNNING"}
    BY <1>14 DEF Unhurried, Roomy
  <2> QED
    BY <1>3, <1>6, <1>8, <1>10, <1>13 DEF Base, Unhurried
<1>23. Uncached' /\ Aborting'
  BY <1>2 DEF Base, Uncached, Aborting
<1>24. Base'
  BY <1>15, <1>16, <1>17, <1>18, <1>19, <1>20, <1>21, <1>22, <1>23 DEF Base
<1> QED
  BY <1>1, <1>2, <1>3, <1>4, <1>6, <1>7, <1>10, <1>12, <1>24

\* A committed block of a prompt is recorded.
LEMMA RecordBlockKeeps ==
  ASSUME Base, CacheInv, RecordBlock
  PROVE  LET id == Head(Unrecorded)
             chain == seqs[id].chain
             i == Len(chain) + 1
             tokens == Paged(seqs[id].prompt)[i]
             h == BlockHash(Before(chain, i), tokens)
         IN  /\ Base' /\ Live' = Live /\ id \in Live /\ id \in DOMAIN seqs
             /\ seqs[id].state = "RUNNING" /\ phase = "record"
             /\ InsertBlock(h, Before(chain, i), tokens, Table(id)[i])
             /\ i \in Nat /\ i >= 1 /\ i <= seqs[id].prefilled \div BlockSize
             /\ i <= Cacheable(Paged(seqs[id].prompt))
             /\ DOMAIN seqs' = DOMAIN seqs
             /\ seqs'[id] = [seqs[id] EXCEPT !.chain = Append(chain, h)]
             /\ \A other \in DOMAIN seqs \ {id} : seqs'[other] = seqs[other]
<1> DEFINE late == {id \in DOMAIN seqs :
                     LET s == seqs[id]
                     IN  /\ CacheOn /\ s.state = "RUNNING"
                         /\ Len(s.chain) < Min({s.prefilled \div BlockSize, Cacheable(Paged(s.prompt))})}
<1>1. PICK id : id = Head(Unrecorded)
  OBVIOUS
<1>2. PICK list : list = Unrecorded
  OBVIOUS
<1>3. id \in Range(running) \cap late
  <2>1. list = Filtered(running, late) /\ list # <<>>
    <3>1. Unrecorded = Filtered(running, late)
      BY Zenon DEF Unrecorded
    <3>2. Unrecorded # <<>>
      BY DEF RecordBlock
    <3> QED
      BY <1>2, <3>1, <3>2, Zenon
  <2> HIDE DEF late
  <2>2. running \in Seq(Nat)
    BY ListFacts
  <2>3. Head(Filtered(running, late)) \in Range(running) \cap late
    BY <2>1, <2>2, FilteredFacts
  <2> QED
    BY <1>1, <1>2, <2>1, <2>3
<1>4. PICK S : seqs \in [DOMAIN seqs -> Records(S)]
  BY DEF Base, Typed
<1>5. /\ id \in Range(running) /\ id \in DOMAIN seqs /\ CacheOn /\ seqs[id].state = "RUNNING"
      /\ Len(seqs[id].chain) < Min({seqs[id].prefilled \div BlockSize,
                                    Cacheable(Paged(seqs[id].prompt))})
  BY <1>3
<1> HIDE DEF late
<1>6. PICK s \in Records(S) : s = seqs[id]
  BY <1>4, <1>5
<1>7. PICK i : i = Len(s.chain) + 1
  OBVIOUS
<1>8. PICK tokens : tokens = Paged(s.prompt)[i]
  OBVIOUS
<1>9. PICK before : before = Before(s.chain, i)
  OBVIOUS
<1>10. PICK h : h = BlockHash(before, tokens)
  OBVIOUS
<1>11. /\ phase = "record" /\ phase' = phase /\ InsertBlock(h, before, tokens, Table(id)[i])
       /\ seqs' = [seqs EXCEPT ![id].chain = Append(@, h)]
       /\ next_seq_id' = next_seq_id /\ waiting' = waiting /\ running' = running
       /\ todo' = todo /\ batch' = batch /\ victims' = victims
  BY <1>1, <1>6, <1>7, <1>8, <1>9, <1>10 DEF RecordBlock, queue_vars, step_vars
<1>12. id \in Live
  BY <1>5 DEF Live
<1>13. /\ seqs[id].row \in Rows /\ s.blocks = Len(block_tables[seqs[id].row])
       /\ s.prefilled <= s.blocks * BlockSize /\ Sound(s)
  BY <1>5, <1>6, <1>12, RowOf, ProvidedFacts
<1>14. PICK most, room : most = s.prefilled \div BlockSize /\ room = Cacheable(Paged(s.prompt))
  OBVIOUS
<1>15. most \in Nat /\ room \in Nat /\ s.prefilled \in Nat /\ BlockSize \in Nat \ {0}
  <2>1. s.prompt \in {q.prompt : q \in Accepted}
    BY DEF Records
  <2>2. s.prefilled \in Nat /\ BlockSize \in Nat \ {0}
    BY <1>13, Sizes DEF Sound
  <2> QED
    BY <1>14, <2>1, <2>2, PagedFacts, Quotient
<1>16. i \in Nat /\ i >= 1 /\ i <= most /\ i <= room
  <2>1. Len(s.chain) < Min({most, room}) /\ Len(s.chain) \in Nat
    BY <1>5, <1>6, <1>13, <1>14 DEF Sound
  <2>2. Min({most, room}) = IF most <= room THEN most ELSE room
    BY <1>15, MinOfTwo
  <2> QED
    BY <1>7, <1>15, <2>1, <2>2
<1>17. i * BlockSize <= s.prefilled /\ i <= s.blocks
  <2>1. i * BlockSize <= s.prefilled
    BY <1>14, <1>15, <1>16, FullBlocks
  <2>2. PICK k : k = s.blocks
    OBVIOUS
  <2>3. k \in Nat /\ i * BlockSize <= k * BlockSize
    <3>1. k \in Nat /\ s.prefilled <= k * BlockSize
      BY <1>13, <2>2 DEF Sound
    <3>2. i * BlockSize \in Nat /\ k * BlockSize \in Nat
      BY <1>15, <1>16, <3>1
    <3> QED
      BY <1>15, <2>1, <3>1, <3>2
  <2>4. i <= k
    BY <1>15, <1>16, <2>3, Multiples
  <2> QED
    BY <2>1, <2>2, <2>4
<1>18. PICK block : block = Table(id)[i]
  OBVIOUS
<1>19. block \in Blocks /\ ref_counts[block] # 0
  <2>1. i \in 1 .. Len(block_tables[seqs[id].row])
    BY <1>13, <1>16, <1>17 DEF Sound
  <2> QED
    BY <1>13, <1>18, <2>1, PoolFacts DEF CacheInv, PoolView, Table
<1>20. row_busy' = row_busy /\ block_tables' = block_tables
  BY <1>11, <1>18, <1>19, InsertBlockFacts
<1>21. PICK grown : grown = Append(s.chain, h)
  OBVIOUS
<1>22. grown \in Seq(S \cup {h}) /\ Len(grown) = i
  BY <1>7, <1>13, <1>21, RecordFacts
<1>23. PICK t : t = [s EXCEPT !.chain = grown]
  OBVIOUS
<1>24. /\ t \in Records(S \cup {h}) /\ t.blocks = s.blocks /\ t.state = s.state
       /\ t.prompt = s.prompt /\ t.eos = s.eos /\ t.max_gen = s.max_gen
       /\ t.row = s.row /\ t.prefilled = s.prefilled /\ t.generated = s.generated
       /\ t.preempts = s.preempts /\ t.chain = grown
  BY <1>22, <1>23 DEF Records
<1>25. seqs' = [seqs EXCEPT ![id] = t] /\ seqs \in [DOMAIN seqs -> Records(S \cup {h})]
  <2>1. \A u \in Records(S) : u \in Records(S \cup {h})
    BY DEF Records
  <2> QED
    BY <1>4, <1>6, <1>11, <1>21, <1>23, <2>1
<1>26. /\ DOMAIN seqs' = DOMAIN seqs /\ seqs' \in [DOMAIN seqs' -> Records(S \cup {h})]
       /\ seqs'[id] = t /\ \A other \in DOMAIN seqs \ {id} : seqs'[other] = seqs[other]
  BY <1>5, <1>24, <1>25, SeqsUpdated
<1>27. OnlyMoves(id)
  BY <1>5, <1>6, <1>11, <1>24, <1>26 DEF OnlyMoves
<1>28. Typed'
  BY <1>5, <1>6, <1>11, <1>24, <1>26 DEF Base, Typed, NumPrompt, Phases, Passes
<1>29. Live' = Live /\ Queues' /\ Ordered'
  BY <1>11, <1>27, ListFacts, OneMoves
<1>30. Holdings'
  BY <1>6, <1>13, <1>20, <1>24, <1>26, <1>27, <1>29, OneHolds
<1>31. Measured'
  <2>1. /\ s.prefilled <= NumPrompt(s) /\ (s.generated > 0 => Complete(s)) /\ s.generated <= Target(s)
    BY <1>5, <1>6 DEF Base, Measured
  <2>2. NumPrompt(t) = NumPrompt(s) /\ Target(t) = Target(s) /\ (Complete(t) <=> Complete(s))
    BY <1>24 DEF NumPrompt, Target, Complete
  <2>3. Len(t.chain) * BlockSize <= t.prefilled
    BY <1>17, <1>22, <1>24
  <2>4. ASSUME NEW other \in DOMAIN seqs'
        PROVE  LET u == seqs'[other]
               IN  /\ u.prefilled <= NumPrompt(u)
                   /\ u.generated > 0 => Complete(u)
                   /\ u.generated <= Target(u)
                   /\ Len(u.chain) * BlockSize <= u.prefilled
                   /\ u.state \in {"WAITING", "PREEMPTED"} => u.generated < Target(u)
                   /\ u.state = "RUNNING" /\ phase' \notin {"record", "update"} => u.generated < Target(u)
    <3>1. CASE other = id
      BY <1>5, <1>6, <1>11, <1>24, <1>26, <2>1, <2>2, <2>3, <3>1
    <3>2. CASE other # id
      BY <1>11, <1>26, <3>2 DEF Base, Measured
    <3> QED
      BY <3>1, <3>2
  <2> QED
    BY <2>4 DEF Measured, NumPrompt, Complete, Target
<1>32. Provided'
  <2>1. \A other : ~Served(other)
    BY <1>11, NotServed DEF Passes
  <2>2. Complete(t) <=> Complete(s)
    BY <1>24 DEF Complete, NumPrompt
  <2>3. /\ s.prefilled <= s.blocks * BlockSize
        /\ ~Complete(s) => s.blocks * BlockSize <= s.prefilled + BlockSize
    BY <1>5, <1>6, <1>12, <2>1, ProvidedFacts
  <2>4. /\ seqs'[id].prefilled <= seqs'[id].blocks * BlockSize
        /\ ~Complete(seqs'[id]) => seqs'[id].blocks * BlockSize <= seqs'[id].prefilled + BlockSize
    BY <1>24, <1>26, <2>2, <2>3
  <2> QED
    BY <1>27, <1>28, <1>29, <2>1, <2>4, OneProvided
<1>33. Batched' /\ Planned'
  <2>1. batch' = <<>> /\ victims' = <<>>
    BY <1>11, ListFacts DEF Passes
  <2> QED
    BY <1>28, <2>1, BatchEmpty, PlannedNone
<1>34. Unhurried'
  BY <1>6, <1>11, <1>24, <1>26, <1>27, <1>29, OneUnhurried
<1>35. Uncached' /\ Aborting'
  BY <1>5, <1>11 DEF Base, Uncached, Aborting
<1>36. Base'
  BY <1>28, <1>29, <1>30, <1>31, <1>32, <1>33, <1>34, <1>35 DEF Base
<1>37. seqs'[id] = [seqs[id] EXCEPT !.chain = Append(s.chain, h)]
  BY <1>6, <1>21, <1>23, <1>26
<1> QED
  BY <1>1, <1>5, <1>6, <1>7, <1>8, <1>9, <1>10, <1>11, <1>12, <1>14, <1>16, <1>26, <1>29, <1>36, <1>37

\* At first there is nothing.
LEMMA InitBase == Init => Base
<1> SUFFICES ASSUME Init PROVE Base
  OBVIOUS
<1>1. /\ next_seq_id = 0 /\ seqs = [id \in {} |-> {}] /\ waiting = <<>> /\ running = <<>>
      /\ phase = "idle" /\ todo = <<>> /\ batch = <<>> /\ victims = <<>>
      /\ row_busy = [r \in Pool!Rows |-> FALSE] /\ entries = [h \in {} |-> {}]
  BY DEF Init, CacheInit, Pool!Init
<1>2. DOMAIN seqs = {} /\ DOMAIN entries = {} /\ Rows = Pool!Rows
  BY <1>1, SameSets
<1>3. /\ Range(<<>>) = {} /\ IsInjective(<<>>) /\ Len(<<>>) = 0
      /\ <<>> \in Seq(Nat) /\ <<>> \in Seq(Runs) /\ <<>> \in Seq(Nat \X Nat)
  BY DEF Range, IsInjective
<1>4. Live = {}
  BY <1>1, <1>3 DEF Live
<1>5. Typed
  <2>1. seqs \in [DOMAIN seqs -> Records({})]
    BY <1>1, <1>2
  <2> QED
    BY <1>1, <1>2, <1>3, <2>1 DEF Typed, Phases, Passes
<1>6. Queues /\ Ordered
  BY <1>1, <1>2, <1>3, <1>4, Sizes DEF Queues, Ordered
<1>7. Holdings
  BY <1>1, <1>2, <1>4 DEF Holdings
<1>8. Measured /\ Provided
  BY <1>2, <1>4 DEF Measured, Provided
<1>9. Batched
  <2>1. BatchRows = 0
    BY <1>1, <1>3, RowsFacts DEF BatchRows
  <2> QED
    BY <1>1, <1>3, <2>1, Sizes DEF Batched
<1>10. Planned /\ Unhurried
  BY <1>1, <1>2, <1>3, <1>4 DEF Planned, Unhurried
<1>11. Aborting /\ Uncached
  BY <1>1, <1>2 DEF Aborting, Uncached
<1> QED
  BY <1>5, <1>6, <1>7, <1>8, <1>9, <1>10, <1>11 DEF Base

-------------------------------------------------------------------------------
(* The sequences as the rows of PrefixSharing.  Where a row's KV is no       *)
(* matter of this proof: the ghost of PrefixSharing stays blank.             *)

PagedPrompts == {Paged(q.prompt) : q \in Accepted}

\* The sequence that holds a row.
Owned(r) == \E id \in Live : seqs[id].row = r
Owner(r) == CHOOSE id \in Live : seqs[id].row = r

\* Prompt tokens a forward pass has been over: a chunk of the batch is still
\* to come.
Prefilling(id) == \E i \in DOMAIN batch : batch[i].id = id /\ ~batch[i].decode
ChunkOf(id) == batch[CHOOSE i \in DOMAIN batch : batch[i].id = id /\ ~batch[i].decode]
Committed(id) == IF Prefilling(id) THEN ChunkOf(id).start ELSE seqs[id].prefilled

\* The same in blocks.
BlocksWritten(id) ==
  IF Committed(id) >= NumPrompt(seqs[id])
    THEN Len(Paged(seqs[id].prompt))
    ELSE Committed(id) \div BlockSize

RowPrompt == [r \in Rows |-> IF Owned(r) THEN Paged(seqs[Owner(r)].prompt) ELSE <<>>]
RowWritten == [r \in Rows |-> IF Owned(r) THEN BlocksWritten(Owner(r)) ELSE 0]
RowChain == [r \in Rows |-> IF Owned(r) THEN seqs[Owner(r)].chain ELSE <<>>]
Admitting == IF phase = "mount" THEN seqs[Head(waiting)].row ELSE -1

SP == INSTANCE PrefixSharingProofs WITH
  Prompts <- PagedPrompts, kv <- [b \in Blocks |-> NoKV], admitting <- Admitting,
  row_prompt <- RowPrompt, row_written <- RowWritten, row_chain <- RowChain

\* The sizes of the cache, and the prompts, are as PrefixSharing assumes.
LEMMA RowsFit == SP!CacheSizes /\ SP!PromptsFit
<1>1. SP!CacheSizes
  BY CacheSizes DEF SP!CacheSizes
<1>2. ASSUME NEW p \in PagedPrompts
      PROVE  p \in Seq(Range(p)) /\ Len(p) \in 1 .. MaxBlocksPerSeq
  <2>1. PICK q \in Accepted : p = Paged(q.prompt)
    BY DEF PagedPrompts
  <2> QED
    BY <2>1, PagedFacts
<1>3. \A p : SP!Range(p) = Range(p)
  BY DEF SP!Range, Range
<1> QED
  BY <1>1, <1>2, <1>3 DEF SP!PromptsFit

\* The operators PrefixSharing shares with the scheduler are the same ones.
LEMMA SharedSets ==
  /\ \A S : SP!Pool!Cardinality(S) = Cardinality(S) /\ SP!Cardinality(S) = Cardinality(S)
            /\ SP!Max(S) = Max(S) /\ SP!Min(S) = Min(S)
  /\ \A s : /\ SP!Pool!Range(s) = Range(s) /\ SP!Range(s) = Range(s)
            /\ SP!Pool!IsInjective(s) = IsInjective(s) /\ SP!IsInjective(s) = IsInjective(s)
            /\ SP!Reverse(s) = Reverse(s)
  /\ SP!Blocks = Blocks /\ SP!Rows = Rows
  /\ SP!Pool!Blocks = Blocks /\ SP!Pool!Rows = Rows
  /\ SP!Pool!Parked = Pool!Parked /\ SP!Pool!Mountable = Pool!Mountable
  /\ \A b : SP!Pool!Holders(b) = Pool!Holders(b)
<1>1. \A S : SP!Pool!Cardinality(S) = Cardinality(S) /\ SP!Cardinality(S) = Cardinality(S)
            /\ SP!Max(S) = Max(S) /\ SP!Min(S) = Min(S)
  BY DEF SP!Pool!Cardinality, SP!Cardinality, Cardinality, SP!Max, Max, SP!Min, Min
<1>2. \A s : /\ SP!Pool!Range(s) = Range(s) /\ SP!Range(s) = Range(s)
            /\ SP!Pool!IsInjective(s) = IsInjective(s) /\ SP!IsInjective(s) = IsInjective(s)
            /\ SP!Reverse(s) = Reverse(s)
  BY DEF SP!Pool!Range, SP!Range, Range, SP!Pool!IsInjective, SP!IsInjective, IsInjective,
         SP!Reverse, Reverse
<1>3. SP!Pool!Blocks = Blocks /\ SP!Pool!Rows = Rows
  BY DEF SP!Pool!Blocks, SP!Pool!Rows, Blocks, Pool!Blocks, Rows, Pool!Rows
<1>4. SP!Blocks = Blocks /\ SP!Rows = Rows
  BY <1>3 DEF SP!Blocks, SP!Rows
<1>5. Pool!Blocks = Blocks /\ Pool!Rows = Rows
  BY DEF Blocks, Rows
<1>6. SP!Pool!Parked = Pool!Parked /\ SP!Pool!Mountable = Pool!Mountable
  BY <1>3, <1>5 DEF SP!Pool!Parked, Pool!Parked, SP!Pool!Mountable, Pool!Mountable
<1>7. \A b : SP!Pool!Holders(b) = Pool!Holders(b)
  BY <1>2, <1>3, <1>5, SameRange DEF SP!Pool!Holders, Pool!Holders
<1> QED
  BY <1>1, <1>2, <1>3, <1>4, <1>6, <1>7

\* So are the operations of the pool.
LEMMA SharedOperations ==
  /\ \A n, ev : SP!Pool!AllocateBlocks(n, ev) = Pool!AllocateBlocks(n, ev)
  /\ \A row, n, ev : SP!Pool!AppendBlocks(row, n, ev) = Pool!AppendBlocks(row, n, ev)
  /\ \A row, blocks :
       SP!Pool!ReserveSharedPrefix(row, blocks) = Pool!ReserveSharedPrefix(row, blocks)
  /\ \A row, start : SP!Pool!FreeBlocksFrom(row, start) = Pool!FreeBlocksFrom(row, start)
  /\ \A b, ev : SP!Pool!MarkCached(b, ev) = Pool!MarkCached(b, ev)
  /\ \A row : SP!Pool!IsFirstFreeRow(row) = Pool!IsFirstFreeRow(row)
<1>1. /\ Pool!Blocks = SP!Pool!Blocks /\ Pool!Rows = SP!Pool!Rows
      /\ Pool!Mountable = SP!Pool!Mountable
      /\ \A s : /\ Pool!Range(s) = SP!Pool!Range(s)
                /\ Pool!IsInjective(s) = SP!Pool!IsInjective(s)
      /\ \A S : Pool!Cardinality(S) = SP!Pool!Cardinality(S)
  BY SharedSets, SameRange, SameCount DEF Blocks, Rows
<1>2. /\ \A free, n : Pool!Popped(free, n) = SP!Pool!Popped(free, n)
      /\ \A s, t : Pool!InTableOrder(s, t) = SP!Pool!InTableOrder(s, t)
      /\ \A r : Pool!IsFirstFreeRow(r) = SP!Pool!IsFirstFreeRow(r)
      /\ \A ev : Pool!Unpin(ev) = SP!Pool!Unpin(ev)
      /\ \A s : Pool!Freed(s) = SP!Pool!Freed(s)
      /\ \A free : Pool!FallShort(free) = SP!Pool!FallShort(free)
  BY <1>1
     DEF Pool!Popped, SP!Pool!Popped, Pool!InTableOrder, SP!Pool!InTableOrder,
         Pool!IsFirstFreeRow, SP!Pool!IsFirstFreeRow, Pool!Unpin, SP!Pool!Unpin,
         Pool!Freed, SP!Pool!Freed, Pool!FallShort, SP!Pool!FallShort
<1>3. \A row, free, n : Pool!Take(row, free, n) = SP!Pool!Take(row, free, n)
  BY <1>1, <1>2 DEF Pool!Take, SP!Pool!Take
<1>4. \A row, blocks : Pool!CanMount(row, blocks) = SP!Pool!CanMount(row, blocks)
  BY <1>1 DEF Pool!CanMount, SP!Pool!CanMount
<1>5. \A n, ev : SP!Pool!AllocateBlocks(n, ev) = Pool!AllocateBlocks(n, ev)
  BY <1>1, <1>2, <1>3 DEF Pool!AllocateBlocks, SP!Pool!AllocateBlocks
<1>6. \A row, n, ev : SP!Pool!AppendBlocks(row, n, ev) = Pool!AppendBlocks(row, n, ev)
  BY <1>2, <1>3 DEF Pool!AppendBlocks, SP!Pool!AppendBlocks
<1>7. \A row, blocks :
        SP!Pool!ReserveSharedPrefix(row, blocks) = Pool!ReserveSharedPrefix(row, blocks)
  BY <1>1, <1>4 DEF Pool!ReserveSharedPrefix, SP!Pool!ReserveSharedPrefix
<1>8. \A row, start : SP!Pool!FreeBlocksFrom(row, start) = Pool!FreeBlocksFrom(row, start)
  <2> TAKE row, start
  <2>1. PICK dropped : dropped = SubSeq(block_tables[row], start + 1, Len(block_tables[row]))
    OBVIOUS
  <2>2. /\ Pool!Freed(dropped) = SP!Pool!Freed(dropped)
        /\ Pool!Cardinality(Pool!Freed(dropped)) = SP!Pool!Cardinality(SP!Pool!Freed(dropped))
        /\ Pool!Range(dropped) = SP!Pool!Range(dropped) /\ Pool!Blocks = SP!Pool!Blocks
        /\ \A s : /\ Pool!Range(s) = SP!Pool!Range(s)
                 /\ Pool!InTableOrder(s, dropped) = SP!Pool!InTableOrder(s, dropped)
    BY <1>1, <1>2
  <2> QED
    BY <2>1, <2>2 DEF Pool!FreeBlocksFrom, SP!Pool!FreeBlocksFrom
<1>9. \A b, ev : SP!Pool!MarkCached(b, ev) = Pool!MarkCached(b, ev)
  BY <1>1 DEF Pool!MarkCached, SP!Pool!MarkCached
<1> QED
  BY <1>2, <1>5, <1>6, <1>7, <1>8, <1>9

\* And those of the cache.
LEMMA SharedEffects ==
  /\ \A prompt : SP!Lookup(prompt) = Lookup(prompt)
  /\ \A row, chain : SP!MountMatch(row, chain) = MountMatch(row, chain)
  /\ \A row : SP!AppendBlock(row) = AppendBlock(row)
  /\ \A h, prev, tokens, block :
       SP!InsertBlock(h, prev, tokens, block) = InsertBlock(h, prev, tokens, block)
  /\ \A prompt : SP!Cacheable(prompt) = Cacheable(prompt)
  /\ \A chain, i : SP!Before(chain, i) = Before(chain, i)
<1>1. /\ \A prompt : SP!Cacheable(prompt) = Cacheable(prompt)
      /\ \A chain, i : SP!Before(chain, i) = Before(chain, i)
      /\ \A chain : SP!BlocksOf(chain) = BlocksOf(chain)
      /\ \A ev : SP!Without(ev) = Without(ev)
      /\ SP!HardMaxEntries = HardMaxEntries
  BY SharedSets DEF SP!Cacheable, Cacheable, SP!Before, Before, SP!BlocksOf, BlocksOf,
       SP!Without, Without, SP!HardMaxEntries, HardMaxEntries
<1>2. \A chain, prompt, i : SP!Hits(chain, prompt, i) = Hits(chain, prompt, i)
  BY <1>1, SharedSets DEF SP!Hits, Hits
<1>3. \A prompt : SP!Lookup(prompt) = Lookup(prompt)
  BY <1>1, <1>2 DEF SP!Lookup, Lookup
<1>4. \A gone : SP!Unlinked(gone) = Unlinked(gone)
  BY DEF SP!Unlinked, Unlinked, SP!Range, Range, SP!Cardinality, Cardinality
<1>5. \A chain : SP!Touched(chain) = Touched(chain)
  BY <1>4, SharedSets DEF SP!Touched, Touched
<1>6. SP!EvictLRU = EvictLRU /\ SP!Reclaimed = Reclaimed
  BY SharedSets DEF SP!EvictLRU, EvictLRU, SP!Reclaimed, Reclaimed
<1>7. SP!pool_vars = pool_vars /\ SP!cache_vars = cache_vars
  BY DEF SP!pool_vars, pool_vars, SP!cache_vars, cache_vars
<1>8. \A row, chain : SP!MountMatch(row, chain) = MountMatch(row, chain)
  BY <1>1, <1>5, <1>7, SharedOperations DEF SP!MountMatch, MountMatch, SP!pool_vars, pool_vars
<1>9. \A row : SP!AppendBlock(row) = AppendBlock(row)
  BY <1>1, <1>4, <1>6, SharedOperations DEF SP!AppendBlock, AppendBlock
<1>10. \A h, prev, tokens, block :
         SP!InsertBlock(h, prev, tokens, block) = InsertBlock(h, prev, tokens, block)
  <2> TAKE h, prev, tokens, block
  <2>1. PICK full : full = (Cardinality(DOMAIN entries) >= MaxEntries)
    OBVIOUS
  <2>2. full = (SP!Cardinality(DOMAIN entries) >= MaxEntries)
    BY <2>1, SharedSets
  <2>3. PICK evicted : evicted = IF full THEN EvictLRU ELSE <<>>
    OBVIOUS
  <2>4. /\ SP!Cardinality(DOMAIN entries) = Cardinality(DOMAIN entries)
        /\ SP!Unlinked(evicted) = Unlinked(evicted) /\ SP!Without(evicted) = Without(evicted)
        /\ SP!BlocksOf(evicted) = BlocksOf(evicted)
        /\ SP!Pool!MarkCached(block, BlocksOf(evicted)) = Pool!MarkCached(block, BlocksOf(evicted))
    BY <1>1, <1>4, SharedOperations, SharedSets
  <2> QED
    BY <1>1, <1>6, <2>1, <2>2, <2>3, <2>4
       DEF SP!InsertBlock, InsertBlock, SP!cache_vars, cache_vars, SP!pool_vars, pool_vars
<1> QED
  BY <1>1, <1>3, <1>8, <1>9, <1>10

\* And the invariant of the cache.
LEMMA SharedInv == SP!CacheInv <=> CacheInv
<1>1. SP!CacheTyped <=> CacheTyped
  BY SharedSets DEF SP!CacheTyped, CacheTyped
<1>2. SP!CacheCoherent <=> CacheCoherent
  BY SharedSets, SameRange DEF SP!CacheCoherent, CacheCoherent
<1>3. SP!PoolInv <=> PoolInv
  BY SharedSets, SameCount, SameRange DEF SP!PoolInv, PoolInv, Blocks, Rows,
     SP!Pool!TypeOK, Pool!TypeOK, SP!Pool!InvariantHolds, Pool!InvariantHolds,
     SP!Pool!RowsOwned, Pool!RowsOwned, SP!Pool!FreeListDistinct, Pool!FreeListDistinct,
     SP!Pool!NoAlias, Pool!NoAlias, SP!Pool!RefCountExact, Pool!RefCountExact,
     SP!Pool!ThreeStates, Pool!ThreeStates
<1> QED
  BY <1>1, <1>2, <1>3 DEF SP!CacheInv, CacheInv

-------------------------------------------------------------------------------
(* Rows and the sequences that hold them.                                    *)

\* A row shows the sequence that holds it.
RowsShown ==
  /\ \A r \in Rows : \A id \in Live :
       seqs[id].row = r => /\ RowPrompt[r] = Paged(seqs[id].prompt)
                           /\ RowWritten[r] = BlocksWritten(id)
                           /\ RowChain[r] = seqs[id].chain
  /\ \A r \in Rows :
       (\A id \in Live : seqs[id].row # r)
         => RowPrompt[r] = <<>> /\ RowWritten[r] = 0 /\ RowChain[r] = <<>>

\* The owner of a row is the one sequence that holds it.
LEMMA RowsAreShown == Base => RowsShown
<1> SUFFICES ASSUME Base PROVE RowsShown
  OBVIOUS
<1>1. ASSUME NEW r \in Rows, NEW id \in Live, seqs[id].row = r
      PROVE  Owned(r) /\ Owner(r) = id
  <2>1. r # -1
    BY CacheSizes DEF Rows, Pool!Rows
  <2>2. \A other \in Live : seqs[other].row = r => other = id
    BY <1>1, <2>1 DEF Base, Holdings
  <2> QED
    BY <1>1, <2>2 DEF Owned, Owner
<1>2. ASSUME NEW r \in Rows, \A id \in Live : seqs[id].row # r
      PROVE  ~Owned(r)
  BY <1>2 DEF Owned
<1> QED
  BY <1>1, <1>2 DEF RowsShown, RowPrompt, RowWritten, RowChain

\* The same after a step.
LEMMA RowsAreShownNext == Base' => RowsShown'
<1>1. (Base => RowsShown)'
  BY RowsAreShown, PTL
<1> QED
  BY <1>1

\* What a step leaves of the sequences that hold rows other than this one.
Kept(row) ==
  /\ \A id \in Live :
       seqs[id].row \notin {-1, row} =>
         /\ id \in Live'
         /\ seqs'[id].row = seqs[id].row
         /\ seqs'[id].prompt = seqs[id].prompt
         /\ seqs'[id].chain = seqs[id].chain
         /\ Committed(id)' = Committed(id)
  /\ \A id \in Live' :
       seqs'[id].row \notin {-1, row} => id \in Live /\ seqs[id].row = seqs'[id].row

\* Those rows do not change.
LEMMA RowsKept ==
  ASSUME Base, Base', NEW row, Kept(row), NEW r \in Rows, r # row
  PROVE  /\ RowPrompt'[r] = RowPrompt[r]
         /\ RowWritten'[r] = RowWritten[r]
         /\ RowChain'[r] = RowChain[r]
<1>1. RowsShown /\ RowsShown'
  BY RowsAreShown, RowsAreShownNext
<1>2. r # -1 /\ Rows' = Rows
  BY CacheSizes DEF Rows, Pool!Rows
<1>3. CASE \E id \in Live : seqs[id].row = r
  <2>1. PICK id \in Live : seqs[id].row = r
    BY <1>3
  <2>2. /\ id \in Live' /\ seqs'[id].row = r
        /\ seqs'[id].prompt = seqs[id].prompt /\ seqs'[id].chain = seqs[id].chain
        /\ Committed(id)' = Committed(id)
    BY <1>2, <2>1 DEF Kept
  <2>3. BlocksWritten(id)' = BlocksWritten(id)
    BY <2>2 DEF BlocksWritten, NumPrompt
  <2>4. /\ RowPrompt[r] = Paged(seqs[id].prompt) /\ RowWritten[r] = BlocksWritten(id)
        /\ RowChain[r] = seqs[id].chain
    BY <1>1, <2>1 DEF RowsShown
  <2>5. /\ RowPrompt'[r] = Paged(seqs'[id].prompt) /\ RowWritten'[r] = BlocksWritten(id)'
        /\ RowChain'[r] = seqs'[id].chain
    BY <1>1, <1>2, <2>2 DEF RowsShown
  <2> QED
    BY <2>2, <2>3, <2>4, <2>5
<1>4. CASE \A id \in Live : seqs[id].row # r
  <2>1. \A id \in Live' : seqs'[id].row # r
    BY <1>2, <1>4 DEF Kept
  <2>2. RowPrompt'[r] = <<>> /\ RowWritten'[r] = 0 /\ RowChain'[r] = <<>>
    BY <1>1, <1>2, <2>1 DEF RowsShown
  <2> QED
    BY <1>1, <1>4, <2>2 DEF RowsShown
<1> QED
  BY <1>3, <1>4

\* Rows are functions on the rows of the pool.
LEMMA RowsMapped ==
  /\ RowPrompt = [r \in Rows |-> RowPrompt[r]] /\ RowPrompt' = [r \in Rows |-> RowPrompt'[r]]
  /\ RowWritten = [r \in Rows |-> RowWritten[r]] /\ RowWritten' = [r \in Rows |-> RowWritten'[r]]
  /\ RowChain = [r \in Rows |-> RowChain[r]] /\ RowChain' = [r \in Rows |-> RowChain'[r]]
<1>1. /\ RowPrompt = [r \in Rows |-> RowPrompt[r]] /\ RowWritten = [r \in Rows |-> RowWritten[r]]
      /\ RowChain = [r \in Rows |-> RowChain[r]]
  BY DEF RowPrompt, RowWritten, RowChain
<1>2. (/\ RowPrompt = [r \in Rows |-> RowPrompt[r]] /\ RowWritten = [r \in Rows |-> RowWritten[r]]
       /\ RowChain = [r \in Rows |-> RowChain[r]])'
  BY <1>1, PTL
<1>3. Rows' = Rows
  BY DEF Rows, Pool!Rows
<1> QED
  BY <1>1, <1>2, <1>3

\* A step that moves one row.
LEMMA OneRow ==
  ASSUME Base, Base', NEW row, Kept(row)
  PROVE  /\ RowPrompt' = [RowPrompt EXCEPT ![row] = RowPrompt'[row]]
         /\ RowWritten' = [RowWritten EXCEPT ![row] = RowWritten'[row]]
         /\ RowChain' = [RowChain EXCEPT ![row] = RowChain'[row]]
<1>1. \A r \in Rows : r # row =>
        /\ RowPrompt'[r] = RowPrompt[r]
        /\ RowWritten'[r] = RowWritten[r]
        /\ RowChain'[r] = RowChain[r]
  BY RowsKept
<1> QED
  BY <1>1, RowsMapped, Zenon

\* What a step leaves of a sequence's progress.
LEMMA CommittedStays ==
  ASSUME NEW id, batch' = batch, seqs'[id].prefilled = seqs[id].prefilled
  PROVE  Committed(id)' = Committed(id)
BY DEF Committed, Prefilling, ChunkOf

\* A step that moves no row keeps the rows sound.
LEMMA NoRowMoves ==
  ASSUME SP!SharingInv, Base, Base', UNCHANGED cache_vars, Kept(-1), Admitting' = Admitting
  PROVE  SP!SharingInv'
<1>1. RowPrompt' = RowPrompt /\ RowWritten' = RowWritten /\ RowChain' = RowChain
  <2>1. -1 \notin Rows
    BY CacheSizes DEF Rows, Pool!Rows
  <2> QED
    BY <2>1, OneRow, RowsMapped
<1>2. [b \in Blocks |-> NoKV]' = [b \in Blocks |-> NoKV]
  BY DEF Blocks, Pool!Blocks, NoKV
<1>3. UNCHANGED SP!vars
  BY <1>1, <1>2 DEF SP!vars, SP!cache_vars, SP!pool_vars, SP!row_vars, cache_vars, pool_vars
<1> QED
  BY <1>3, RowsFit, SP!StutterStep

\* In the frame of such a step.
LEMMA QuietStep ==
  ASSUME SP!SharingInv, Base, Base', UNCHANGED cache_vars,
         phase # "mount", phase' # "mount", Live' = Live, batch' = batch,
         \A id \in Live : /\ seqs'[id].row = seqs[id].row
                          /\ seqs'[id].prompt = seqs[id].prompt
                          /\ seqs'[id].chain = seqs[id].chain
                          /\ seqs'[id].prefilled = seqs[id].prefilled
  PROVE  SP!SharingInv'
<1>1. Kept(-1)
  BY CommittedStays DEF Kept
<1>2. Admitting' = Admitting
  BY DEF Admitting
<1> QED
  BY <1>1, <1>2, NoRowMoves

-------------------------------------------------------------------------------
(* Steps that move no row.                                                   *)

\* What holds of the rows contains what holds of the cache.
LEMMA RowsCoherent == SP!SharingInv => CacheInv
BY SharedInv DEF SP!SharingInv

\* What a step does to the pool: one move of the pool, or nothing.
PoolMove == Pool!Next \/ UNCHANGED pool_vars

\* Moves of the rows' pool are moves of the scheduler's.
LEMMA RowsMove == SP!PoolStep => PoolMove
<1>1. /\ \A n : SP!Pool!Evictions(n) = Pool!Evictions(n)
      /\ \A row : SP!Pool!Mounts(row) = Pool!Mounts(row)
      /\ SP!Pool!OneParked = Pool!OneParked
      /\ Pool!Blocks = Blocks /\ Pool!Rows = Rows
  BY SharedSets, SameRange
     DEF SP!Pool!Evictions, Pool!Evictions, SP!Pool!Mounts, Pool!Mounts,
         SP!Pool!OneParked, Pool!OneParked, Blocks, Rows
<1>2. SP!Pool!Next => Pool!Next
  BY <1>1, SharedSets, SharedOperations DEF SP!Pool!Next, Pool!Next
<1> QED
  BY <1>2 DEF SP!PoolStep, PoolMove, SP!pool_vars, pool_vars

\* A step that leaves the cache alone does not move the pool.
LEMMA NoMove == UNCHANGED cache_vars => PoolMove
BY DEF PoolMove, cache_vars

\* The step of a pass that only goes on to something else.
LEMMA StillStep ==
  ASSUME SP!SharingInv, Base, Base', UNCHANGED cache_vars, phase # "mount", phase' # "mount",
         seqs' = seqs, waiting' = waiting, running' = running, batch' = batch
  PROVE  SP!SharingInv' /\ PoolMove
<1>1. Live' = Live
  BY DEF Live
<1> QED
  BY <1>1, QuietStep, NoMove

\* The passes and the bookkeeping that moves between them.
LEMMA PhaseRows ==
  ASSUME SP!SharingInv, Base, Base',
         BeginStep \/ EndAdmission \/ EndDecodeRows \/ EndPrefillRows \/ PlanPreemption
           \/ EndRecord \/ EndUpdate
  PROVE  SP!SharingInv' /\ PoolMove
<1>1. UNCHANGED cache_vars /\ seqs' = seqs /\ waiting' = waiting /\ running' = running
  BY DEF BeginStep, EndAdmission, EndDecodeRows, EndPrefillRows, PlanPreemption, EndRecord,
         EndUpdate, queue_vars
<1>2. phase # "mount" /\ phase' # "mount"
  BY DEF BeginStep, EndAdmission, EndDecodeRows, EndPrefillRows, PlanPreemption, EndRecord,
         EndUpdate, PassEnds, Building
<1>3. batch' = batch
  <2>1. phase = "admit" => batch = <<>>
    BY ListFacts DEF Passes
  <2> QED
    BY <2>1 DEF BeginStep, EndAdmission, EndDecodeRows, EndPrefillRows, PlanPreemption,
                EndRecord, EndUpdate
<1> QED
  BY <1>1, <1>2, <1>3, StillStep

\* The queues that are given back at the end of a step, or after a failed one.
LEMMA QueueRows ==
  ASSUME SP!SharingInv, Base, Base', Live' = Live, EndAbort \/ FlushPreempted
  PROVE  SP!SharingInv' /\ PoolMove
<1>1. UNCHANGED cache_vars /\ seqs' = seqs /\ batch' = batch /\ phase # "mount" /\ phase' # "mount"
  BY DEF EndAbort, FlushPreempted
<1> QED
  BY <1>1, QuietStep, NoMove

\* A new request holds no row.
LEMMA AddRequestRows ==
  ASSUME SP!SharingInv, Base, NEW request \in Requests, AddRequest(request.prompt, request.eos)
  PROVE  SP!SharingInv' /\ PoolMove
<1>1. Base'
  BY AddRequestKeeps
<1>2. /\ phase = "idle" /\ phase' = phase /\ batch' = batch /\ running' = running
      /\ UNCHANGED cache_vars /\ next_seq_id' = next_seq_id + 1 /\ UNCHANGED step_vars
      /\ UNCHANGED <<cache_vars, running, step_vars>>
  BY DEF AddRequest, step_vars
<1>3. CASE UNCHANGED <<seqs, waiting>>
  BY <1>1, <1>2, <1>3, StillStep
<1>4. CASE /\ Len(request.prompt) \in 1 .. MaxSeqLen - 1
           /\ seqs' = [id \in DOMAIN seqs \cup {next_seq_id} |->
                         IF id = next_seq_id THEN NewSequence(request.prompt, request.eos)
                                             ELSE seqs[id]]
           /\ waiting' = Append(waiting, next_seq_id)
  <2>1. Live' = Live \cup {next_seq_id} /\ next_seq_id \notin DOMAIN seqs
    BY <1>2, <1>4, AcceptKeeps
  <2>2. Live \subseteq DOMAIN seqs
    BY ListFacts
  <2>3. seqs'[next_seq_id].row = -1
    BY <1>4 DEF NewSequence
  <2>4. \A id \in Live : seqs'[id] = seqs[id] /\ id # next_seq_id
    BY <1>4, <2>1, <2>2
  <2>5. \A id \in Live : Committed(id)' = Committed(id)
    BY <1>2, <2>4, CommittedStays
  <2>6. Kept(-1)
    BY <2>1, <2>3, <2>4, <2>5 DEF Kept
  <2>7. Admitting' = Admitting
    BY <1>2 DEF Admitting
  <2> QED
    BY <1>1, <1>2, <2>6, <2>7, NoRowMoves, NoMove
<1> QED
  BY <1>3, <1>4 DEF AddRequest

\* A sequence that was preempted comes back with the row it kept.
LEMMA ResumeRows ==
  ASSUME SP!SharingInv, Base, Resume
  PROVE  SP!SharingInv' /\ PoolMove
<1>1. Base' /\ Live' = Live
  BY ResumeKeeps
<1>2. /\ phase = "admit" /\ phase' = phase /\ batch' = batch /\ UNCHANGED cache_vars
      /\ seqs' = [seqs EXCEPT ![Head(waiting)].state = "RUNNING"]
  BY DEF Resume, step_vars
<1>3. \A id \in Live : id \in DOMAIN seqs
  BY ListFacts
<1>4. \A id \in Live : /\ seqs'[id].row = seqs[id].row
                       /\ seqs'[id].prompt = seqs[id].prompt
                       /\ seqs'[id].chain = seqs[id].chain
                       /\ seqs'[id].prefilled = seqs[id].prefilled
  <2> SUFFICES ASSUME NEW id \in Live
               PROVE  /\ seqs'[id].row = seqs[id].row
                      /\ seqs'[id].prompt = seqs[id].prompt
                      /\ seqs'[id].chain = seqs[id].chain
                      /\ seqs'[id].prefilled = seqs[id].prefilled
    OBVIOUS
  <2>1. PICK S : seqs \in [DOMAIN seqs -> Records(S)]
    BY DEF Base, Typed
  <2>2. seqs[id] \in Records(S) /\ id \in DOMAIN seqs
    BY <1>3, <2>1
  <2> QED
    BY <1>2, <2>2 DEF Records
<1> QED
  BY <1>1, <1>2, <1>4, QuietStep, NoMove

\* A force-finished sequence keeps its row until it is retired.
LEMMA ForceFinishRows ==
  ASSUME SP!SharingInv, Base, Base', ForceFinish
  PROVE  SP!SharingInv' /\ PoolMove
<1>1. /\ phase \in Passes /\ phase' = phase /\ batch' = batch /\ UNCHANGED cache_vars
      /\ waiting' = waiting /\ running' = running
      /\ seqs' = [seqs EXCEPT ![Head(Serving)].state = "FINISHED"]
  BY DEF ForceFinish, Building, Passes, queue_vars
<1>2. Live' = Live
  BY <1>1 DEF Live
<1>3. \A id \in Live : /\ seqs'[id].row = seqs[id].row
                       /\ seqs'[id].prompt = seqs[id].prompt
                       /\ seqs'[id].chain = seqs[id].chain
                       /\ seqs'[id].prefilled = seqs[id].prefilled
  <2> SUFFICES ASSUME NEW id \in Live
               PROVE  /\ seqs'[id].row = seqs[id].row
                      /\ seqs'[id].prompt = seqs[id].prompt
                      /\ seqs'[id].chain = seqs[id].chain
                      /\ seqs'[id].prefilled = seqs[id].prefilled
    OBVIOUS
  <2>1. PICK S : seqs \in [DOMAIN seqs -> Records(S)]
    BY DEF Base, Typed
  <2>2. seqs[id] \in Records(S) /\ id \in DOMAIN seqs
    BY <2>1, ListFacts
  <2> QED
    BY <1>1, <2>2 DEF Records
<1>4. phase # "mount" /\ phase' # "mount"
  BY <1>1 DEF Passes
<1> QED
  BY <1>1, <1>2, <1>3, <1>4, QuietStep, NoMove

-------------------------------------------------------------------------------
(* Steps of the batch: rows are placed, and a forward pass commits them.     *)

\* What is committed of a sequence ends where its chunk of the batch begins.
CommittedShown ==
  /\ \A id \in Live : \A i \in 1 .. Len(batch) :
       batch[i].id = id /\ ~batch[i].decode => Committed(id) = batch[i].start
  /\ \A id \in Live :
       (\A i \in 1 .. Len(batch) : batch[i].id = id => batch[i].decode)
         => Committed(id) = seqs[id].prefilled

\* The batch has one chunk for a sequence.
LEMMA CommittedIsShown == Base => CommittedShown
<1> SUFFICES ASSUME Base PROVE CommittedShown
  OBVIOUS
<1>1. DOMAIN batch = 1 .. Len(batch)
  BY ListFacts
<1>2. ASSUME NEW id \in Live, NEW i \in 1 .. Len(batch), batch[i].id = id, ~batch[i].decode
      PROVE  Committed(id) = batch[i].start
  <2>1. \A j \in DOMAIN batch : batch[j].id = id => j = i
    BY <1>1, <1>2 DEF Base, Batched
  <2>2. Prefilling(id)
    BY <1>1, <1>2 DEF Prefilling
  <2>3. (CHOOSE j \in DOMAIN batch : batch[j].id = id /\ ~batch[j].decode) = i
    BY <1>1, <1>2, <2>1
  <2> QED
    BY <2>2, <2>3 DEF Committed, ChunkOf
<1>3. ASSUME NEW id \in Live, \A i \in 1 .. Len(batch) : batch[i].id = id => batch[i].decode
      PROVE  Committed(id) = seqs[id].prefilled
  BY <1>1, <1>3 DEF Committed, Prefilling
<1> QED
  BY <1>2, <1>3 DEF CommittedShown

\* The same after a step.
LEMMA CommittedIsShownNext == Base' => CommittedShown'
<1>1. (Base => CommittedShown)'
  BY CommittedIsShown, PTL
<1> QED
  BY <1>1

\* It is a number of prompt tokens that have been booked.
LEMMA CommittedFacts ==
  ASSUME Base, NEW id \in Live
  PROVE  Committed(id) \in Nat /\ Committed(id) <= seqs[id].prefilled
<1>1. seqs[id].prefilled \in Nat
  BY ProvidedFacts DEF Sound
<1>2. CASE \E i \in 1 .. Len(batch) : batch[i].id = id /\ ~batch[i].decode
  <2>1. PICK i \in 1 .. Len(batch) : batch[i].id = id /\ ~batch[i].decode
    BY <1>2
  <2>2. Committed(id) = batch[i].start
    BY <2>1, CommittedIsShown DEF CommittedShown
  <2>3. batch[i].start + batch[i].len = seqs[id].prefilled
    BY <2>1 DEF Base, Batched
  <2>4. batch[i] \in Runs
    BY ListFacts
  <2>5. batch[i].start \in Nat /\ batch[i].len \in Nat
    BY <2>4 DEF Runs
  <2> QED
    BY <1>1, <2>2, <2>3, <2>5
<1>3. CASE \A i \in 1 .. Len(batch) : batch[i].id = id => batch[i].decode
  <2>1. Committed(id) = seqs[id].prefilled
    BY <1>3, CommittedIsShown DEF CommittedShown
  <2> QED
    BY <1>1, <2>1
<1> QED
  BY <1>2, <1>3

\* Rows of the batch are booked, not yet written.
LEMMA PlaceCommits ==
  ASSUME Base, Base', AtSequence, NEW id, id = Head(Serving),
         NEW start, NEW len, Place(id, start, len),
         phase = "prefill" => start = seqs[id].prefilled
  PROVE  /\ phase \in Passes /\ phase' = phase /\ UNCHANGED cache_vars /\ kv' = kv /\ Live' = Live
         /\ \A other \in Live : /\ seqs'[other].row = seqs[other].row
                                /\ seqs'[other].prompt = seqs[other].prompt
                                /\ seqs'[other].chain = seqs[other].chain
                                /\ seqs'[other].blocks = seqs[other].blocks
                                /\ seqs'[other].generated = seqs[other].generated
                                /\ Committed(other)' = Committed(other)
<1> DEFINE chunk == [id |-> id, decode |-> phase = "decode", start |-> start, len |-> len]
<1>1. /\ phase \in Passes /\ phase' = phase /\ UNCHANGED cache_vars /\ batch' = Append(batch, chunk)
      /\ waiting' = waiting /\ running' = running /\ kv' = kv
      /\ seqs' = IF phase = "decode" THEN seqs ELSE [seqs EXCEPT ![id].prefilled = @ + len]
  BY DEF Place, AtSequence, queue_vars
<1>2. Live' = Live
  BY <1>1 DEF Live
<1>3. /\ batch \in Seq(Runs) /\ Len(batch) \in Nat /\ Len(batch') = Len(batch) + 1
      /\ \A i \in 1 .. Len(batch) : batch'[i] = batch[i]
      /\ batch'[Len(batch) + 1] = chunk
  <2> HIDE DEF chunk
  <2> QED
    BY <1>1, ListFacts, AppendFacts, OwnElements
<1>4. id \in Live /\ id \in Range(todo) /\ ~InBatch(id) /\ DOMAIN batch = 1 .. Len(batch)
  BY ServedFacts, TodoNotPlaced, ListFacts DEF Base
<1>5. ASSUME NEW other \in Live
      PROVE  /\ seqs'[other].row = seqs[other].row
             /\ seqs'[other].prompt = seqs[other].prompt
             /\ seqs'[other].chain = seqs[other].chain
             /\ seqs'[other].blocks = seqs[other].blocks
             /\ seqs'[other].generated = seqs[other].generated
             /\ other # id => seqs'[other] = seqs[other]
  <2>1. PICK S : seqs \in [DOMAIN seqs -> Records(S)]
    BY DEF Base, Typed
  <2>2. seqs[other] \in Records(S) /\ other \in DOMAIN seqs
    BY <2>1, ListFacts
  <2> QED
    BY <1>1, <2>2 DEF Records
<1>6. CommittedShown /\ CommittedShown'
  BY CommittedIsShown, CommittedIsShownNext
<1>7. ASSUME NEW other \in Live
      PROVE  Committed(other)' = Committed(other)
  <2>1. CASE other = id /\ phase = "prefill"
    <3>1. Committed(id) = seqs[id].prefilled
      BY <1>4, <1>6 DEF CommittedShown, InBatch
    <3>2. chunk.id = id /\ ~chunk.decode /\ chunk.start = start
      BY <2>1
    <3>3. Committed(id)' = start
      <4> HIDE DEF chunk
      <4>1. Len(batch) + 1 \in 1 .. Len(batch')
        BY <1>3
      <4> QED
        BY <1>2, <1>3, <1>4, <1>6, <3>2, <4>1 DEF CommittedShown
    <3> QED
      BY <2>1, <3>1, <3>3
  <2>2. CASE other # id \/ phase = "decode"
    <3>1. seqs'[other].prefilled = seqs[other].prefilled
      BY <1>1, <1>5, <2>2
    <3>2. chunk.id = other => chunk.decode
      BY <2>2
    <3> HIDE DEF chunk
    <3>3. CASE \E i \in 1 .. Len(batch) : batch[i].id = other /\ ~batch[i].decode
      <4>1. PICK i \in 1 .. Len(batch) : batch[i].id = other /\ ~batch[i].decode
        BY <3>3
      <4>2. i \in 1 .. Len(batch') /\ batch'[i] = batch[i]
        BY <1>3
      <4> QED
        BY <1>2, <1>6, <4>1, <4>2 DEF CommittedShown
    <3>4. CASE \A i \in 1 .. Len(batch) : batch[i].id = other => batch[i].decode
      <4>1. \A i \in 1 .. Len(batch') : i \in 1 .. Len(batch) \/ i = Len(batch) + 1
        BY <1>3
      <4>2. \A i \in 1 .. Len(batch') : batch'[i].id = other => batch'[i].decode
        BY <1>3, <3>2, <3>4, <4>1
      <4> QED
        BY <1>2, <1>6, <3>1, <3>4, <4>2 DEF CommittedShown
    <3> QED
      BY <3>3, <3>4
  <2>3. phase \in {"decode", "prefill"}
    BY <1>1 DEF Passes
  <2> QED
    BY <2>1, <2>2, <2>3
<1> QED
  BY <1>1, <1>2, <1>5, <1>7

\* A sequence gets rows in the batch: what was committed of it does not change.
LEMMA PlaceRows ==
  ASSUME SP!SharingInv, Base, Base', AtSequence, NEW id, id = Head(Serving),
         NEW start, NEW len, Place(id, start, len),
         phase = "prefill" => start = seqs[id].prefilled
  PROVE  SP!SharingInv' /\ PoolMove
<1>1. /\ phase \in Passes /\ phase' = phase /\ UNCHANGED cache_vars /\ Live' = Live
      /\ \A other \in Live : /\ seqs'[other].row = seqs[other].row
                             /\ seqs'[other].prompt = seqs[other].prompt
                             /\ seqs'[other].chain = seqs[other].chain
                             /\ Committed(other)' = Committed(other)
  BY PlaceCommits
<1>2. Kept(-1)
  BY <1>1 DEF Kept
<1>3. Admitting' = Admitting
  BY <1>1 DEF Admitting, Passes
<1> QED
  BY <1>1, <1>2, <1>3, NoRowMoves, NoMove

\* Decode rows and chunks, shrunk or not.
LEMMA PlacedRows ==
  ASSUME SP!SharingInv, Base, Base', PlaceDecode \/ PlaceChunk \/ PlaceShrunkChunk
  PROVE  SP!SharingInv' /\ PoolMove
<1>1. AtSequence
  BY DEF PlaceDecode, PlaceChunk, PlaceShrunkChunk, Building, AtSequence, Passes
<1>2. CASE PlaceDecode
  <2>1. PICK id, start : id = Head(Serving) /\ start = DecodePosition(seqs[id])
    OBVIOUS
  <2>2. phase = "decode" /\ Place(id, start, 1)
    BY <1>2, <2>1 DEF PlaceDecode
  <2> QED
    BY <1>1, <2>1, <2>2, PlaceRows
<1>3. CASE PlaceChunk
  <2>1. PICK id, start, len :
          id = Head(Serving) /\ start = seqs[id].prefilled /\ len = ChunkLen(seqs[id])
    OBVIOUS
  <2>2. Place(id, start, len)
    BY <1>3, <2>1 DEF PlaceChunk
  <2> QED
    BY <1>1, <2>1, <2>2, PlaceRows
<1>4. CASE PlaceShrunkChunk
  <2>1. PICK id, start, len :
          id = Head(Serving) /\ start = seqs[id].prefilled /\ len = Covered(seqs[id])
    OBVIOUS
  <2>2. Place(id, start, len)
    BY <1>4, <2>1 DEF PlaceShrunkChunk
  <2> QED
    BY <1>1, <2>1, <2>2, PlaceRows
<1> QED
  BY <1>2, <1>3, <1>4

\* How many blocks of a prompt its first n tokens make: the last block counts
\* with the last token.
BlocksOfTokens(p, n) == IF n >= Len(p) THEN Len(Paged(p)) ELSE n \div BlockSize

\* More tokens make more blocks, and no more than hold them.
LEMMA TokenBlocks ==
  ASSUME NEW p \in {q.prompt : q \in Accepted}, NEW n \in Nat
  PROVE  /\ BlocksOfTokens(p, n) \in Nat
         /\ BlocksOfTokens(p, n) <= Len(Paged(p))
         /\ \A m \in Nat : n <= m * BlockSize => BlocksOfTokens(p, n) <= m
         /\ \A m \in Nat : n <= m => BlocksOfTokens(p, n) <= BlocksOfTokens(p, m)
<1>1. /\ Len(Paged(p)) \in Nat /\ BlockSize \in Nat \ {0}
      /\ \A m \in Int : Len(Paged(p)) <= m <=> Len(p) <= m * BlockSize
  <2>1. BlockSize \in Nat \ {0}
    BY Sizes
  <2>2. Len(Paged(p)) \in Nat /\ \A m \in Int : Len(Paged(p)) <= m <=> Len(p) <= m * BlockSize
    BY PagedFacts, Zenon
  <2> QED
    BY <2>1, <2>2
<1>0. BlockSize \in Nat \ {0}
  BY Sizes
<1>2. Len(p) \in Nat
  BY RequestsGiven, OwnElements DEF Accepted
<1>3. PICK b : b = n \div BlockSize
  OBVIOUS
<1>4. b \in Nat /\ b * BlockSize <= n
  BY <1>1, <1>3, Quotient
<1>5. ASSUME n < Len(p) PROVE b <= Len(Paged(p))
  <2>1. PICK c : c = Len(Paged(p)) /\ c \in Nat
    BY <1>1
  <2>2. Len(p) <= c * BlockSize
    BY <1>1, <2>1
  <2>3. c * BlockSize \in Nat /\ b * BlockSize \in Nat
    BY <1>1, <1>4, <2>1
  <2>4. b * BlockSize <= c * BlockSize
    BY <1>2, <1>4, <1>5, <2>2, <2>3
  <2>5. b <= c <=> b * BlockSize <= c * BlockSize
    <3>1. b \in Int /\ c \in Int
      BY <1>4, <2>1
    <3> QED
      BY ONLY <1>0, <3>1, Multiples
  <2> QED
    BY <2>1, <2>4, <2>5
<1>6. BlocksOfTokens(p, n) \in Nat /\ BlocksOfTokens(p, n) <= Len(Paged(p))
  BY <1>1, <1>2, <1>3, <1>4, <1>5 DEF BlocksOfTokens
<1>7. ASSUME NEW m \in Nat, n <= m * BlockSize PROVE BlocksOfTokens(p, n) <= m
  <2>1. m * BlockSize \in Nat /\ b * BlockSize \in Nat
    BY <1>1, <1>4
  <2>2. CASE n >= Len(p)
    <3>1. Len(p) <= m * BlockSize
      BY <1>2, <1>7, <2>1, <2>2
    <3> QED
      BY <1>1, <2>2, <3>1 DEF BlocksOfTokens
  <2>3. CASE n < Len(p)
    <3>1. b * BlockSize <= m * BlockSize
      BY <1>4, <1>7, <2>1
    <3>2. b <= m
      BY <1>1, <1>4, <3>1, Multiples
    <3> QED
      BY <1>2, <1>3, <2>3, <3>2 DEF BlocksOfTokens
  <2> QED
    BY <1>2, <2>2, <2>3
<1>8. ASSUME NEW m \in Nat, n <= m PROVE BlocksOfTokens(p, n) <= BlocksOfTokens(p, m)
  <2>1. CASE m >= Len(p)
    <3>1. BlocksOfTokens(p, m) = Len(Paged(p))
      BY <2>1 DEF BlocksOfTokens
    <3> QED
      BY <1>6, <3>1
  <2>2. CASE m < Len(p)
    <3>1. n < Len(p)
      BY <1>2, <1>8, <2>2
    <3>2. b * BlockSize <= m
      BY <1>1, <1>4, <1>8
    <3>3. b * BlockSize <= m <=> b <= m \div BlockSize
      <4>1. m \in Nat /\ b \in Int
        BY <1>4
      <4> QED
        BY ONLY <1>0, <4>1, FullBlocks
    <3> QED
      BY <1>2, <1>3, <2>2, <3>1, <3>2, <3>3 DEF BlocksOfTokens
  <2> QED
    BY <1>2, <2>1, <2>2
<1> QED
  BY <1>6, <1>7, <1>8

\* What is written of a sequence's prompt, in blocks.
LEMMA WrittenFacts ==
  ASSUME Base, NEW id \in Live
  PROVE  /\ BlocksWritten(id) = BlocksOfTokens(seqs[id].prompt, Committed(id))
         /\ seqs[id].prompt \in {q.prompt : q \in Accepted}
         /\ BlocksWritten(id) \in Nat
         /\ BlocksWritten(id) <= Len(Paged(seqs[id].prompt))
         /\ BlocksWritten(id) <= seqs[id].blocks
<1>1. BlocksWritten(id) = BlocksOfTokens(seqs[id].prompt, Committed(id))
  BY DEF BlocksWritten, BlocksOfTokens, NumPrompt
<1>2. seqs[id].prompt \in {q.prompt : q \in Accepted}
  <2>1. PICK S : seqs \in [DOMAIN seqs -> Records(S)]
    BY DEF Base, Typed
  <2>2. seqs[id] \in Records(S)
    BY <2>1, ListFacts
  <2> QED
    BY <2>2 DEF Records
<1>3. /\ seqs[id].blocks \in Nat /\ seqs[id].prefilled \in Nat
      /\ seqs[id].blocks * BlockSize \in Nat
      /\ seqs[id].prefilled <= seqs[id].blocks * BlockSize
  BY ProvidedFacts DEF Sound
<1>4. Committed(id) \in Nat /\ Committed(id) <= seqs[id].prefilled
  BY CommittedFacts
<1>5. Committed(id) <= seqs[id].blocks * BlockSize
  BY <1>3, <1>4
<1> QED
  BY <1>1, <1>2, <1>3, <1>4, <1>5, TokenBlocks

\* The same after a step.
LEMMA WrittenFactsNext ==
  Base' => \A id \in Live' :
             /\ BlocksWritten(id)' = BlocksOfTokens(seqs'[id].prompt, Committed(id)')
             /\ seqs'[id].prompt \in {q.prompt : q \in Accepted}
             /\ BlocksWritten(id)' \in Nat
             /\ BlocksWritten(id)' <= Len(Paged(seqs'[id].prompt))
             /\ BlocksWritten(id)' <= seqs'[id].blocks
<1> DEFINE Fits(id) == /\ BlocksWritten(id) = BlocksOfTokens(seqs[id].prompt, Committed(id))
                       /\ seqs[id].prompt \in {q.prompt : q \in Accepted}
                       /\ BlocksWritten(id) \in Nat
                       /\ BlocksWritten(id) <= Len(Paged(seqs[id].prompt))
                       /\ BlocksWritten(id) <= seqs[id].blocks
<1>1. Base => \A id \in Live : Fits(id)
  BY WrittenFacts
<1>2. (Base => \A id \in Live : Fits(id))'
  BY <1>1, PTL
<1> QED
  BY <1>2

\* A forward pass, or one that fails, is over the chunks of the batch: what was
\* booked of them counts as written from now on.
LEMMA CommitRows ==
  ASSUME SP!SharingInv, Base, Base', UNCHANGED cache_vars, Live' = Live, batch' = <<>>,
         phase # "mount", phase' # "mount",
         \A id \in Live : /\ seqs'[id].row = seqs[id].row
                          /\ seqs'[id].prompt = seqs[id].prompt
                          /\ seqs'[id].chain = seqs[id].chain
                          /\ seqs'[id].prefilled = seqs[id].prefilled
  PROVE  SP!SharingInv' /\ PoolMove
<1>1. RowsShown /\ RowsShown' /\ Rows' = Rows
  BY RowsAreShown, RowsAreShownNext DEF Rows, Pool!Rows
<1>2. ASSUME NEW id \in Live
      PROVE  /\ BlocksWritten(id) \in Nat /\ BlocksWritten(id)' \in Nat
             /\ BlocksWritten(id) <= BlocksWritten(id)'
             /\ BlocksWritten(id)' <= Len(Paged(seqs[id].prompt))
  <2>1. Committed(id)' = seqs[id].prefilled
    BY CommittedIsShownNext DEF CommittedShown
  <2>2. Committed(id) \in Nat /\ Committed(id) <= seqs[id].prefilled /\ seqs[id].prefilled \in Nat
    BY CommittedFacts, ProvidedFacts DEF Sound
  <2>3. /\ BlocksWritten(id) = BlocksOfTokens(seqs[id].prompt, Committed(id))
        /\ seqs[id].prompt \in {q.prompt : q \in Accepted} /\ BlocksWritten(id) \in Nat
    BY WrittenFacts
  <2>4. /\ BlocksWritten(id)' = BlocksOfTokens(seqs[id].prompt, seqs[id].prefilled)
        /\ BlocksWritten(id)' \in Nat /\ BlocksWritten(id)' <= Len(Paged(seqs[id].prompt))
    BY <2>1, WrittenFactsNext
  <2>5. BlocksOfTokens(seqs[id].prompt, Committed(id))
          <= BlocksOfTokens(seqs[id].prompt, seqs[id].prefilled)
    BY <2>2, <2>3, TokenBlocks
  <2> QED
    BY <2>3, <2>4, <2>5
<1>3. ASSUME NEW r \in Rows
      PROVE  /\ RowPrompt'[r] = RowPrompt[r] /\ RowChain'[r] = RowChain[r]
             /\ RowWritten[r] \in Nat /\ RowWritten'[r] \in Nat
             /\ RowWritten[r] <= RowWritten'[r]
             /\ RowWritten'[r] <= Len(RowPrompt[r])
             /\ RowWritten'[r] <= Len(block_tables[r])
  <2>1. CASE \E id \in Live : seqs[id].row = r
    <3>1. PICK id \in Live : seqs[id].row = r
      BY <2>1
    <3>2. /\ RowPrompt[r] = Paged(seqs[id].prompt) /\ RowPrompt'[r] = Paged(seqs[id].prompt)
          /\ RowChain[r] = seqs[id].chain /\ RowChain'[r] = seqs[id].chain
          /\ RowWritten[r] = BlocksWritten(id) /\ RowWritten'[r] = BlocksWritten(id)'
      BY <1>1, <3>1 DEF RowsShown
    <3>3. r # -1
      BY CacheSizes DEF Rows, Pool!Rows
    <3>4. BlocksWritten(id)' <= Len(block_tables[r])
      <4>1. block_tables' = block_tables
        BY DEF cache_vars, pool_vars
      <4>2. id \in Live' /\ seqs'[id].row = r
        BY <3>1
      <4>3. seqs'[id].blocks = Len(block_tables'[r])
        BY <3>3, <4>2 DEF Base, Holdings, Table
      <4> QED
        BY <4>1, <4>2, <4>3, WrittenFactsNext
    <3> QED
      BY <1>2, <3>1, <3>2, <3>4
  <2>2. CASE \A id \in Live : seqs[id].row # r
    <3>1. RowPrompt[r] = <<>> /\ RowWritten[r] = 0 /\ RowChain[r] = <<>>
      BY <1>1, <2>2 DEF RowsShown
    <3>2. RowPrompt'[r] = <<>> /\ RowWritten'[r] = 0 /\ RowChain'[r] = <<>>
      BY <1>1, <2>2 DEF RowsShown
    <3>3. Len(block_tables[r]) \in Nat
      BY RowsCoherent, PoolFacts DEF CacheInv, PoolView
    <3> QED
      BY <3>1, <3>2, <3>3
  <2> QED
    BY <2>1, <2>2
<1>4. RowPrompt' = RowPrompt /\ RowChain' = RowChain
  BY <1>3, RowsMapped
<1>5. RowWritten' \in [Rows -> Nat]
  BY <1>3, RowsMapped
<1>6. [b \in Blocks |-> NoKV]' = [b \in Blocks |-> NoKV]
  BY DEF Blocks, Pool!Blocks, NoKV
<1>7. Admitting' = Admitting
  BY DEF Admitting
<1>8. SP!Rows = Rows /\ UNCHANGED SP!cache_vars
  BY SharedSets DEF SP!cache_vars, SP!pool_vars, cache_vars, pool_vars
<1> QED
  BY <1>3, <1>4, <1>5, <1>6, <1>7, <1>8, RowsFit, SP!CommitStep, NoMove

\* Those steps.
LEMMA ForwardRows ==
  ASSUME SP!SharingInv, Base, Base', Forward \/ ForwardFails
  PROVE  SP!SharingInv' /\ PoolMove
<1>1. /\ UNCHANGED cache_vars /\ batch' = <<>> /\ phase # "mount" /\ phase' # "mount"
  BY DEF Forward, ForwardFails
<1>2. \A id \in Live : id \in DOMAIN seqs
  BY ListFacts
<1>3. CASE Forward
  <2>1. Live' = Live /\ \A id \in Live : /\ seqs'[id].row = seqs[id].row
                                        /\ seqs'[id].prompt = seqs[id].prompt
                                        /\ seqs'[id].chain = seqs[id].chain
                                        /\ seqs'[id].prefilled = seqs[id].prefilled
    BY <1>2, <1>3, ForwardKeeps
  <2> QED
    BY <1>1, <2>1, CommitRows
<1>4. CASE ForwardFails
  <2>1. seqs' = seqs /\ Live' = Live
    BY <1>4 DEF ForwardFails, queue_vars, Live
  <2> QED
    BY <1>1, <2>1, CommitRows
<1> QED
  BY <1>3, <1>4

-------------------------------------------------------------------------------
(* Steps that move a row.                                                    *)

\* Whole blocks.
LEMMA WholeBlocks ==
  ASSUME NEW n \in Nat, NEW d \in Nat \ {0}
  PROVE  (n * d) \div d = n
<1>1. PICK p : p = n * d
  OBVIOUS
<1>2. p \in Nat
  BY <1>1
<1>3. PICK q : q = p \div d /\ q \in Nat /\ q * d <= p /\ p < q * d + d
  BY <1>2, Quotient
<1>4. n * d <= p <=> n <= q
  BY <1>2, <1>3, FullBlocks
<1>5. q * d <= n * d <=> q <= n
  BY <1>3, Multiples
<1> QED
  BY <1>1, <1>3, <1>4, <1>5

\* The KV ghost stays blank.
LEMMA StaysBlank ==
  /\ [b \in Blocks |-> NoKV]' = [b \in Blocks |-> NoKV]
  /\ \A taken : SP!Clobber(taken)
<1>1. SP!Blocks = Blocks /\ Blocks' = Blocks /\ SP!NoKV = NoKV
  BY SharedSets DEF Blocks, Pool!Blocks, SP!NoKV, NoKV
<1>2. [b \in Blocks |-> NoKV]' = [b \in Blocks |-> NoKV]
  BY <1>1 DEF NoKV
<1>3. ASSUME NEW taken PROVE SP!Clobber(taken)
  <2>1. [b \in Blocks |-> NoKV]'
          = [b \in SP!Blocks |-> IF b \in SP!Range(free_blocks') \cup taken
                                   THEN SP!NoKV ELSE [c \in Blocks |-> NoKV][b]]
    BY <1>1, <1>2
  <2> QED
    BY <2>1 DEF SP!Clobber
<1> QED
  BY <1>2, <1>3

\* A step of one sequence, with its row.
LEMMA OneSequence ==
  ASSUME Base, NEW id \in Live, NEW row, DOMAIN seqs' = DOMAIN seqs, batch' = batch,
         \A other \in DOMAIN seqs \ {id} : seqs'[other] = seqs[other],
         Live' = Live \/ Live' = Live \ {id},
         seqs[id].row \in {-1, row}, seqs'[id].row \in {-1, row}
  PROVE  Kept(row)
<1>1. ASSUME NEW other \in Live, other # id
      PROVE  seqs'[other] = seqs[other] /\ other \in Live' /\ Committed(other)' = Committed(other)
  <2>1. seqs'[other] = seqs[other] /\ other \in Live'
    BY <1>1, ListFacts
  <2> QED
    BY <2>1, CommittedStays
<1> QED
  BY <1>1 DEF Kept

\* A sequence that has no chunk in the batch.
LEMMA CommittedAll ==
  ASSUME Base, NEW id \in Live, batch = <<>> \/ ~InBatch(id)
  PROVE  Committed(id) = seqs[id].prefilled
<1>1. DOMAIN batch = 1 .. Len(batch)
  BY ListFacts
<1>2. batch = <<>> => 1 .. Len(batch) = {}
  OBVIOUS
<1>3. \A i \in 1 .. Len(batch) : batch[i].id = id => batch[i].decode
  BY <1>1, <1>2 DEF InBatch
<1> QED
  BY <1>3, CommittedIsShown DEF CommittedShown

\* The row of a sequence.
LEMMA RowOfSequence ==
  ASSUME SP!SharingInv, Base, NEW id \in Live, NEW row, row = seqs[id].row, row # -1
  PROVE  /\ row \in Rows /\ row_busy[row] /\ Rows = SP!Rows
         /\ RowPrompt[row] = Paged(seqs[id].prompt)
         /\ RowWritten[row] = BlocksWritten(id)
         /\ RowChain[row] = seqs[id].chain
         /\ seqs[id].blocks = Len(block_tables[row])
         /\ phase # "mount" => row \in SP!Live /\ Admitting = SP!None
<1>1. row \in Rows
  BY ProvidedFacts DEF Sound
<1>2. row_busy[row] /\ seqs[id].blocks = Len(block_tables[row])
  BY <1>1 DEF Base, Holdings, Table
<1>3. SP!Rows = Rows /\ SP!None = -1
  BY SharedSets DEF SP!None
<1>4. phase # "mount" => row \in SP!Live /\ Admitting = SP!None
  BY <1>1, <1>2, <1>3 DEF SP!Live, Admitting
<1> QED
  BY <1>1, <1>2, <1>3, <1>4, RowsAreShown DEF RowsShown

\* The row of a sequence after a step.
LEMMA RowOfSequenceNext ==
  ASSUME Base', NEW id \in Live', NEW row \in Rows, row = seqs'[id].row
  PROVE  /\ RowPrompt'[row] = Paged(seqs'[id].prompt)
         /\ RowWritten'[row] = BlocksWritten(id)'
         /\ RowChain'[row] = seqs'[id].chain
<1>1. Rows' = Rows
  BY DEF Rows, Pool!Rows
<1> QED
  BY <1>1, RowsAreShownNext DEF RowsShown

\* A row that nobody holds any more.
LEMMA RowFreed ==
  ASSUME Base', NEW row \in Rows, \A id \in Live' : seqs'[id].row # row
  PROVE  RowPrompt'[row] = <<>> /\ RowWritten'[row] = 0 /\ RowChain'[row] = <<>>
<1>1. Rows' = Rows
  BY DEF Rows, Pool!Rows
<1> QED
  BY <1>1, RowsAreShownNext DEF RowsShown

\* A claim.
LEMMA ClaimRows ==
  ASSUME SP!SharingInv, Base, ClaimRow
  PROVE  SP!SharingInv' /\ PoolMove
<1>1. CacheInv
  BY RowsCoherent
<1>2. PICK id : id = Head(waiting)
  OBVIOUS
<1>3. /\ phase = "admit" /\ phase' = "mount" /\ waiting # <<>> /\ waiting' = waiting
      /\ seqs[id].state = "WAITING" /\ Pool!AllocateBlocks(0, <<>>)
      /\ batch' = batch /\ entries' = entries /\ lru' = lru
  BY <1>2 DEF ClaimRow, MayAdmit, queue_vars
<1>4. Base' /\ Live' = Live
  BY <1>1, ClaimRowKeeps
<1>5. PICK row \in Rows : /\ Pool!IsFirstFreeRow(row) /\ ~row_busy[row]
                          /\ seqs' = [seqs EXCEPT ![id].row = row]
                          /\ seqs'[id] = [seqs[id] EXCEPT !.row = row]
  BY <1>1, <1>2, ClaimRowKeeps
<1>6. /\ id \in Live /\ id \in DOMAIN seqs /\ seqs[id].row = -1
      /\ seqs[id].prefilled = 0 /\ seqs[id].chain = <<>>
      /\ seqs[id].prompt \in {q.prompt : q \in Accepted} /\ Sound(seqs[id])
  BY <1>1, <1>2, <1>3, FreshHead
<1>7. /\ seqs'[id].row = row /\ seqs'[id].prompt = seqs[id].prompt
      /\ seqs'[id].prefilled = 0 /\ seqs'[id].chain = <<>>
      /\ DOMAIN seqs' = DOMAIN seqs /\ \A other \in DOMAIN seqs \ {id} : seqs'[other] = seqs[other]
  <2>1. PICK S : seqs \in [DOMAIN seqs -> Records(S)]
    BY DEF Base, Typed
  <2>2. seqs[id] \in Records(S)
    BY <1>6, <2>1
  <2>3. /\ seqs'[id].row = row /\ seqs'[id].prompt = seqs[id].prompt
        /\ seqs'[id].prefilled = seqs[id].prefilled /\ seqs'[id].chain = seqs[id].chain
    BY <1>5, <2>2 DEF Records
  <2> QED
    BY <1>5, <1>6, <2>3
<1>8. Kept(row)
  BY <1>3, <1>4, <1>6, <1>7, OneSequence
<1>9. RowPrompt'[row] = Paged(seqs[id].prompt) /\ RowWritten'[row] = 0 /\ RowChain'[row] = <<>>
  <2>1. /\ RowPrompt'[row] = Paged(seqs'[id].prompt) /\ RowWritten'[row] = BlocksWritten(id)'
        /\ RowChain'[row] = seqs'[id].chain
    BY <1>4, <1>6, <1>7, RowOfSequenceNext
  <2>2. BlocksWritten(id)' = 0
    <3>1. batch = <<>>
      BY <1>3, ListFacts DEF Passes
    <3>2. Committed(id)' = 0
      BY <1>3, <1>6, <1>7, <3>1, CommittedAll, CommittedStays
    <3>3. NumPrompt(seqs[id]) \in Nat \ {0} /\ NumPrompt(seqs'[id]) = NumPrompt(seqs[id])
      BY <1>6, <1>7 DEF Sound, NumPrompt
    <3>4. 0 \div BlockSize = 0
      BY Sizes
    <3> QED
      BY <3>2, <3>3, <3>4 DEF BlocksWritten
  <2> QED
    BY <1>7, <2>1, <2>2
<1>10. RowWritten[row] = 0 /\ RowChain[row] = <<>>
  <2>1. \A other \in Live : seqs[other].row # row
    BY <1>5 DEF Base, Holdings
  <2> QED
    BY <2>1, RowsAreShown DEF RowsShown
<1>11. /\ RowPrompt' = [RowPrompt EXCEPT ![row] = Paged(seqs[id].prompt)]
       /\ RowWritten' = RowWritten /\ RowChain' = RowChain
  <2>1. /\ RowPrompt' = [RowPrompt EXCEPT ![row] = RowPrompt'[row]]
        /\ RowWritten' = [RowWritten EXCEPT ![row] = RowWritten'[row]]
        /\ RowChain' = [RowChain EXCEPT ![row] = RowChain'[row]]
    BY <1>4, <1>8, OneRow
  <2> QED
    BY <1>9, <1>10, <2>1, RowsMapped
<1>12. Admitting = SP!None /\ Admitting' = row
  BY <1>2, <1>3, <1>7 DEF Admitting, SP!None
<1>13. PICK prompt : prompt = Paged(seqs[id].prompt) /\ prompt \in PagedPrompts
  BY <1>6 DEF PagedPrompts
<1>14. SP!Claim(prompt)
  BY <1>3, <1>5, <1>11, <1>12, <1>13, StaysBlank, SharedSets, SharedOperations DEF SP!Claim
<1> QED
  BY <1>12, <1>13, <1>14, RowsFit, RowsMove, SP!ClaimStep

\* A mount.
LEMMA MountRows ==
  ASSUME SP!SharingInv, Base, MountPrefix
  PROVE  SP!SharingInv' /\ PoolMove
<1>1. CacheInv
  BY RowsCoherent
<1>2. PICK id : id = Head(waiting)
  OBVIOUS
<1>3. PICK row, chain : row = seqs[id].row /\ chain = Lookup(Paged(seqs[id].prompt))
  OBVIOUS
<1>4. /\ phase = "mount" /\ phase' = "admit" /\ batch' = batch
  BY DEF MountPrefix
<1>5. /\ Base' /\ Live' = Live
      /\ MountMatch(row, chain) /\ id \in Live /\ id \in DOMAIN seqs
      /\ Len(chain) \in Nat /\ Len(chain) < Len(Paged(seqs[id].prompt))
      /\ seqs' = [seqs EXCEPT ![id] = seqs'[id]]
      /\ seqs'[id].prompt = seqs[id].prompt /\ seqs'[id].row = row
      /\ seqs'[id].prefilled = Len(chain) * BlockSize
      /\ seqs'[id].prefilled < NumPrompt(seqs'[id])
      /\ seqs'[id].chain = <<>>
  BY <1>1, <1>2, <1>3, MountPrefixKeeps
<1>6. /\ seqs[id].state = "WAITING" /\ waiting # <<>>
  BY <1>2, <1>4 DEF Base, Queues
<1>7. row \in Rows /\ row # -1 /\ seqs[id].chain = <<>> /\ seqs[id].row = row
  BY <1>1, <1>2, <1>3, <1>4, <1>6, FreshHead
<1>8. DOMAIN seqs' = DOMAIN seqs /\ \A other \in DOMAIN seqs \ {id} : seqs'[other] = seqs[other]
  <2>1. PICK t : t = seqs'[id]
    OBVIOUS
  <2>2. seqs' = [seqs EXCEPT ![id] = t]
    BY <1>5, <2>1
  <2> QED
    BY <2>2
<1>9. Kept(row)
  BY <1>4, <1>5, <1>7, <1>8, OneSequence
<1>10. /\ row_busy[row] /\ RowPrompt[row] = Paged(seqs[id].prompt) /\ RowChain[row] = <<>>
  BY <1>5, <1>7, RowOfSequence
<1>11. RowPrompt'[row] = RowPrompt[row] /\ RowWritten'[row] = Len(chain) /\ RowChain'[row] = <<>>
  <2>1. /\ RowPrompt'[row] = Paged(seqs'[id].prompt) /\ RowWritten'[row] = BlocksWritten(id)'
        /\ RowChain'[row] = seqs'[id].chain
    BY <1>5, <1>7, RowOfSequenceNext
  <2>2. BlocksWritten(id)' = Len(chain)
    <3>1. batch' = <<>>
      BY <1>4, ListFacts DEF Passes
    <3>2. Committed(id)' = Len(chain) * BlockSize
      <4>1. 1 .. Len(batch') = {}
        BY <3>1
      <4> QED
        BY <1>5, <4>1, CommittedIsShownNext DEF CommittedShown
    <3>3. ~(Committed(id)' >= NumPrompt(seqs'[id]))
      <4>1. NumPrompt(seqs'[id]) \in Nat
        BY <1>5, <1>8, TypedFactsNext DEF Base, Sound
      <4>2. Len(chain) * BlockSize \in Nat
        BY <1>5, Sizes
      <4> QED
        BY <1>5, <3>2, <4>1, <4>2
    <3>4. (Len(chain) * BlockSize) \div BlockSize = Len(chain)
      <4>1. BlockSize \in Nat \ {0}
        BY Sizes
      <4> QED
        BY <1>5, <4>1, WholeBlocks
    <3> QED
      BY <3>2, <3>3, <3>4 DEF BlocksWritten
  <2> QED
    BY <1>5, <1>10, <2>1, <2>2
<1>12. /\ RowPrompt' = RowPrompt /\ RowWritten' = [RowWritten EXCEPT ![row] = Len(chain)]
       /\ RowChain' = RowChain
  <2>1. /\ RowPrompt' = [RowPrompt EXCEPT ![row] = RowPrompt'[row]]
        /\ RowWritten' = [RowWritten EXCEPT ![row] = RowWritten'[row]]
        /\ RowChain' = [RowChain EXCEPT ![row] = RowChain'[row]]
    BY <1>5, <1>9, OneRow
  <2>2. RowPrompt' = RowPrompt
    BY <1>11, <2>1, RowsMapped, Zenon
  <2>3. RowChain' = RowChain
    BY <1>10, <1>11, <2>1, RowsMapped
  <2> QED
    BY <1>11, <2>1, <2>2, <2>3
<1>13. Admitting = row /\ Admitting' = SP!None /\ Admitting # SP!None
  BY <1>2, <1>4, <1>7 DEF Admitting, SP!None
<1>14. SP!Mount(Admitting)
  <2>1. SP!Lookup(RowPrompt[row]) = chain /\ SP!MountMatch(row, chain)
    BY <1>3, <1>5, <1>10, SharedEffects
  <2>2. SP!Mount(row)
    BY <1>12, <1>13, <2>1, StaysBlank DEF SP!Mount
  <2> QED
    BY <1>13, <2>2
<1> QED
  BY <1>13, <1>14, RowsFit, RowsMove, SP!MountStep

\* A block is appended.
LEMMA GrowRows ==
  ASSUME SP!SharingInv, Base, Grow
  PROVE  SP!SharingInv' /\ PoolMove
<1>1. CacheInv
  BY RowsCoherent
<1>2. PICK id : id = Head(Serving)
  OBVIOUS
<1>3. PICK row, s : row = seqs[id].row /\ s = seqs[id]
  OBVIOUS
<1>4. /\ AtSequence /\ phase \in Passes /\ ShortBlocks(s) > 0 /\ AppendBlock(row)
      /\ seqs' = [seqs EXCEPT ![id].blocks = @ + 1]
      /\ waiting' = waiting /\ running' = running /\ phase' = phase /\ batch' = batch
  BY <1>2, <1>3 DEF Grow, Building, AtSequence, Passes, queue_vars, step_vars
<1>5. Base'
  BY <1>1, GrowKeeps
<1>6. Live' = Live
  BY <1>4 DEF Live
<1>7. /\ id \in Live /\ id \in DOMAIN seqs /\ id \in Range(todo) /\ s.state = "RUNNING"
      /\ Complete(s) <=> phase = "decode"
      /\ ~InBatch(id) /\ Sound(s)
  BY <1>2, <1>3, <1>4, ServedFacts, TodoNotPlaced, TypedFacts DEF Base
<1>8. row # -1 /\ phase # "mount"
  BY <1>3, <1>4, <1>7, RowOf DEF Passes
<1>9. /\ row \in Rows /\ RowPrompt[row] = Paged(s.prompt) /\ RowWritten[row] = BlocksWritten(id)
      /\ RowChain[row] = s.chain /\ s.blocks = Len(block_tables[row])
      /\ row \in SP!Live /\ Admitting = SP!None
  BY <1>3, <1>7, <1>8, RowOfSequence
<1>10. /\ seqs'[id].row = row /\ seqs'[id].prompt = s.prompt /\ seqs'[id].chain = s.chain
       /\ seqs'[id].prefilled = s.prefilled
       /\ DOMAIN seqs' = DOMAIN seqs /\ \A other \in DOMAIN seqs \ {id} : seqs'[other] = seqs[other]
  <2>1. PICK S : seqs \in [DOMAIN seqs -> Records(S)]
    BY DEF Base, Typed
  <2>2. s \in Records(S)
    BY <1>3, <1>7, <2>1
  <2> QED
    BY <1>3, <1>4, <1>7, <2>2 DEF Records
<1>11. RowPrompt' = RowPrompt /\ RowWritten' = RowWritten /\ RowChain' = RowChain
  <2>1. Kept(-1)
    <3>1. ASSUME NEW other \in Live
          PROVE  /\ seqs'[other].row = seqs[other].row
                 /\ seqs'[other].prompt = seqs[other].prompt
                 /\ seqs'[other].chain = seqs[other].chain
                 /\ seqs'[other].prefilled = seqs[other].prefilled
      <4>1. other \in DOMAIN seqs
        BY ListFacts
      <4> QED
        BY <1>3, <1>10, <4>1
    <3> QED
      BY <1>4, <1>6, <3>1, CommittedStays DEF Kept
  <2>2. -1 \notin Rows
    BY CacheSizes DEF Rows, Pool!Rows
  <2> QED
    BY <1>5, <2>1, <2>2, OneRow, RowsMapped
<1>12. Len(block_tables[row]) < Len(RowPrompt[row]) \/ RowWritten[row] = Len(RowPrompt[row])
  <2>1. CASE phase = "decode"
    <3>1. Committed(id) = s.prefilled
      BY <1>3, <1>7, CommittedAll
    <3>2. Committed(id) >= NumPrompt(s)
      BY <1>7, <2>1, <3>1 DEF Sound
    <3> QED
      BY <1>3, <1>9, <3>2 DEF BlocksWritten
  <2>2. CASE phase = "prefill"
    <3>1. /\ s.blocks * BlockSize <= s.prefilled + ChunkLen(s) - 1
          /\ s.blocks * BlockSize \in Nat /\ s.prefilled \in Nat /\ ChunkLen(s) \in Nat
      BY <1>2, <1>3, <1>4, <2>2, ChunkFacts
    <3>2. ChunkLen(s) <= NumPrompt(s) - s.prefilled
      BY <1>2, <1>3, <1>4, <2>2, ServedFacts DEF Base
    <3>3. NumPrompt(s) \in Nat /\ s.blocks \in Nat
      BY <1>7 DEF Sound
    <3>4. ~(NumPrompt(s) <= s.blocks * BlockSize)
      BY <3>1, <3>2, <3>3
    <3>5. s.prompt \in {q.prompt : q \in Accepted}
      BY <1>3, <1>7, WrittenFacts
    <3>6. /\ Len(Paged(s.prompt)) \in Nat
          /\ \A m \in Int : Len(Paged(s.prompt)) <= m <=> Len(s.prompt) <= m * BlockSize
      BY <3>5, PagedFacts, Zenon
    <3>7. ~(Len(Paged(s.prompt)) <= s.blocks)
      BY <3>3, <3>4, <3>6 DEF NumPrompt
    <3> QED
      BY <1>9, <3>3, <3>6, <3>7
  <2> QED
    BY <1>4, <2>1, <2>2 DEF Passes
<1>13. Admitting' = Admitting
  BY <1>4, <1>8 DEF Admitting
<1>14. SP!Grow(row)
  <2>1. SP!AppendBlock(row)
    BY <1>4, SharedEffects
  <2> QED
    BY <1>11, <1>12, <1>13, <2>1, StaysBlank DEF SP!Grow, SP!row_vars
<1> QED
  BY <1>9, <1>14, RowsFit, RowsMove, SP!GrowStep

\* A block is recorded.
LEMMA RecordRows ==
  ASSUME SP!SharingInv, Base, RecordBlock
  PROVE  SP!SharingInv' /\ PoolMove
<1>1. CacheInv
  BY RowsCoherent
<1>2. PICK id : id = Head(Unrecorded)
  OBVIOUS
<1>3. PICK row, chain, i, tokens, h :
        /\ row = seqs[id].row /\ chain = seqs[id].chain /\ i = Len(chain) + 1
        /\ tokens = Paged(seqs[id].prompt)[i] /\ h = BlockHash(Before(chain, i), tokens)
  OBVIOUS
<1>4. /\ Base' /\ Live' = Live /\ id \in Live /\ id \in DOMAIN seqs
      /\ seqs[id].state = "RUNNING" /\ phase = "record"
      /\ InsertBlock(h, Before(chain, i), tokens, Table(id)[i])
      /\ i \in Nat /\ i >= 1 /\ i <= seqs[id].prefilled \div BlockSize
      /\ i <= Cacheable(Paged(seqs[id].prompt))
      /\ DOMAIN seqs' = DOMAIN seqs
      /\ seqs'[id] = [seqs[id] EXCEPT !.chain = Append(chain, h)]
      /\ \A other \in DOMAIN seqs \ {id} : seqs'[other] = seqs[other]
  BY <1>1, <1>2, <1>3, RecordBlockKeeps
<1>5. phase' = phase /\ batch' = batch /\ batch = <<>>
  BY <1>4, ListFacts DEF RecordBlock, step_vars, Passes
<1>6. row # -1 /\ row \in Rows
  BY <1>3, <1>4, RowOf
<1>7. /\ RowPrompt[row] = Paged(seqs[id].prompt) /\ RowWritten[row] = BlocksWritten(id)
      /\ RowChain[row] = chain /\ row \in SP!Live /\ Admitting = SP!None
  BY <1>3, <1>4, <1>6, RowOfSequence
<1>8. /\ seqs'[id].row = row /\ seqs'[id].prompt = seqs[id].prompt
      /\ seqs'[id].prefilled = seqs[id].prefilled /\ seqs'[id].chain = Append(chain, h)
  <2>1. PICK S : seqs \in [DOMAIN seqs -> Records(S)]
    BY DEF Base, Typed
  <2>2. seqs[id] \in Records(S)
    BY <1>4, <2>1
  <2> QED
    BY <1>3, <1>4, <2>2 DEF Records
<1>9. Kept(row)
  BY <1>3, <1>4, <1>5, <1>6, <1>8, OneSequence
<1>10. Committed(id)' = Committed(id) /\ Committed(id) = seqs[id].prefilled
  BY <1>4, <1>5, <1>8, CommittedStays, CommittedAll
<1>11. /\ RowPrompt'[row] = RowPrompt[row] /\ RowWritten'[row] = RowWritten[row]
       /\ RowChain'[row] = Append(chain, h)
  <2>1. /\ RowPrompt'[row] = Paged(seqs'[id].prompt) /\ RowWritten'[row] = BlocksWritten(id)'
        /\ RowChain'[row] = seqs'[id].chain
    BY <1>4, <1>6, <1>8, RowOfSequenceNext
  <2>2. BlocksWritten(id)' = BlocksWritten(id)
    BY <1>8, <1>10 DEF BlocksWritten, NumPrompt
  <2> QED
    BY <1>7, <1>8, <2>1, <2>2
<1>12. /\ RowPrompt' = RowPrompt /\ RowWritten' = RowWritten
       /\ RowChain' = [RowChain EXCEPT ![row] = Append(chain, h)]
  <2>1. /\ RowPrompt' = [RowPrompt EXCEPT ![row] = RowPrompt'[row]]
        /\ RowWritten' = [RowWritten EXCEPT ![row] = RowWritten'[row]]
        /\ RowChain' = [RowChain EXCEPT ![row] = RowChain'[row]]
    BY <1>4, <1>9, OneRow
  <2> QED
    BY <1>11, <2>1, RowsMapped
<1>13. i <= RowWritten[row]
  <2>1. /\ Cacheable(Paged(seqs[id].prompt)) = Len(Paged(seqs[id].prompt)) - 1
        /\ Len(Paged(seqs[id].prompt)) \in Nat
    BY <1>4, WrittenFacts, PagedFacts
  <2> QED
    BY <1>4, <1>7, <1>10, <2>1 DEF BlocksWritten
<1>14. Admitting' = Admitting
  BY <1>4, <1>5 DEF Admitting
<1>15. SP!RecordBlock(row)
  <2>1. /\ SP!Before(chain, i) = Before(chain, i)
        /\ SP!Cacheable(Paged(seqs[id].prompt)) = Cacheable(Paged(seqs[id].prompt))
        /\ SP!InsertBlock(h, Before(chain, i), tokens, block_tables[row][i])
    BY <1>3, <1>4, SharedEffects DEF Table
  <2> QED
    BY <1>3, <1>4, <1>7, <1>12, <1>13, <1>14, <2>1, StaysBlank DEF SP!RecordBlock
<1> QED
  BY <1>7, <1>15, RowsFit, RowsMove, SP!RecordStep

\* A sequence ends.
LEMMA RetireRows ==
  ASSUME SP!SharingInv, Base, NEW id \in Range(running), phase \in {"abort", "update"}, Retire(id)
  PROVE  SP!SharingInv' /\ PoolMove
<1>1. CacheInv
  BY RowsCoherent
<1>2. PICK row : row = seqs[id].row
  OBVIOUS
<1>3. /\ Base' /\ Live' = Live \ {id} /\ id \in DOMAIN seqs
      /\ row \in Rows /\ Pool!FreeBlocksFrom(row, 0)
      /\ DOMAIN seqs' = DOMAIN seqs
      /\ \A other \in DOMAIN seqs \ {id} : seqs'[other] = seqs[other]
      /\ seqs'[id] = [seqs[id] EXCEPT !.state = "FINISHED"]
  BY <1>1, <1>2, RetireKeeps
<1>4. /\ phase' = phase /\ batch' = batch /\ entries' = entries /\ lru' = lru
  BY DEF Retire, step_vars
<1>5. id \in Live
  BY ListFacts
<1>6. row # -1 /\ phase # "mount"
  BY <1>3, CacheSizes DEF Rows, Pool!Rows
<1>7. row \in SP!Live /\ Admitting = SP!None
  BY <1>2, <1>5, <1>6, RowOfSequence
<1>8. seqs'[id].row = row
  <2>1. PICK S : seqs \in [DOMAIN seqs -> Records(S)]
    BY DEF Base, Typed
  <2>2. seqs[id] \in Records(S)
    BY <1>3, <2>1
  <2> QED
    BY <1>2, <1>3, <2>2 DEF Records
<1>9. Kept(row)
  BY <1>2, <1>3, <1>4, <1>5, <1>8, OneSequence
<1>10. RowPrompt'[row] = <<>> /\ RowWritten'[row] = 0 /\ RowChain'[row] = <<>>
  <2>1. ASSUME NEW other \in Live' PROVE seqs'[other].row # row
    <3>1. other \in Live /\ other # id /\ other \in DOMAIN seqs
      BY <1>3, ListFacts
    <3>2. seqs'[other].row = seqs[other].row
      BY <1>3, <3>1
    <3>3. seqs[other].row # seqs[id].row
      BY <1>2, <1>5, <1>6, <3>1 DEF Base, Holdings
    <3> QED
      BY <1>2, <3>2, <3>3
  <2> QED
    BY <1>3, <2>1, RowFreed
<1>11. /\ RowPrompt' = [RowPrompt EXCEPT ![row] = <<>>]
       /\ RowWritten' = [RowWritten EXCEPT ![row] = 0]
       /\ RowChain' = [RowChain EXCEPT ![row] = <<>>]
  BY <1>3, <1>9, <1>10, OneRow
<1>12. Admitting' = Admitting
  BY <1>4, <1>6 DEF Admitting
<1>13. SP!Finish(row)
  BY <1>3, <1>4, <1>11, <1>12, StaysBlank, SharedOperations DEF SP!Finish
<1> QED
  BY <1>7, <1>13, RowsFit, RowsMove, SP!FinishStep

\* What a cut leaves of the written blocks.
LEMMA CutBlocks ==
  ASSUME NEW p \in {q.prompt : q \in Accepted}, NEW n \in Nat, NEW keep \in Nat,
         n <= Len(p), keep * BlockSize < Len(p) => keep * BlockSize <= n
  PROVE  BlocksOfTokens(p, IF keep * BlockSize < Len(p) THEN keep * BlockSize ELSE n)
           = IF BlocksOfTokens(p, n) <= keep THEN BlocksOfTokens(p, n) ELSE keep
<1>1. BlockSize \in Nat \ {0} /\ Len(p) \in Nat
  BY Sizes, RequestsGiven, OwnElements DEF Accepted
<1>2. PICK cut : cut = keep * BlockSize
  OBVIOUS
<1>3. cut \in Nat
  BY <1>1, <1>2
<1>4. BlocksOfTokens(p, n) \in Nat
  BY TokenBlocks
<1>5. CASE cut < Len(p)
  <2>1. cut \div BlockSize = keep
    BY <1>1, <1>2, WholeBlocks
  <2>2. BlocksOfTokens(p, cut) = keep
    BY <1>1, <1>3, <1>5, <2>1 DEF BlocksOfTokens
  <2>3. keep <= BlocksOfTokens(p, n)
    BY <1>2, <1>3, <1>5, <2>2, TokenBlocks
  <2> QED
    BY <1>2, <1>4, <1>5, <2>2, <2>3
<1>6. CASE ~(cut < Len(p))
  <2>1. n <= keep * BlockSize
    BY <1>1, <1>2, <1>3, <1>6
  <2>2. BlocksOfTokens(p, n) <= keep
    BY <2>1, TokenBlocks
  <2> QED
    BY <1>2, <1>6, <2>2
<1> QED
  BY <1>5, <1>6

\* A planned cut.
LEMMA PreemptRows ==
  ASSUME SP!SharingInv, Base, Preempt
  PROVE  SP!SharingInv' /\ PoolMove
<1>1. CacheInv
  BY RowsCoherent
<1>2. PICK id, keep : id = Head(victims)[1] /\ keep = Head(victims)[2]
  OBVIOUS
<1>3. PICK row, s : row = seqs[id].row /\ s = seqs[id]
  OBVIOUS
<1>4. /\ victims # <<>> /\ Pool!FreeBlocksFrom(row, keep)
      /\ entries' = entries /\ lru' = lru /\ seqs' = [seqs EXCEPT ![id] = Truncated(@, keep)]
      /\ running' = running /\ waiting' = waiting /\ phase' = phase /\ batch' = batch
  BY <1>2, <1>3 DEF Preempt, queue_vars
<1>5. PICK head : head = Head(Serving)
  OBVIOUS
<1>6. AtSequence /\ phase \in Passes
  BY <1>4 DEF Base, Planned, Unhurried, AtSequence
<1>7. /\ id \in Range(running) /\ seqs[id].state = "RUNNING" /\ ~InBatch(id) /\ id # head
      /\ keep \in 1 .. seqs[id].blocks - 1
  <2>1. PICK list : list = victims
    OBVIOUS
  <2>2. list \in Seq(Nat \X Nat) /\ list # <<>>
    BY <1>4, <2>1, ListFacts
  <2>3. 1 \in 1 .. Len(list) /\ Head(list) = list[1]
    BY <2>2
  <2>4. 1 \in 1 .. Len(victims) /\ id = victims[1][1] /\ keep = victims[1][2]
    BY <1>2, <2>1, <2>3
  <2> QED
    BY <1>5, <2>4 DEF Base, Planned
<1>8. id \in DOMAIN seqs /\ id \in Live
  BY <1>7, ListFacts
<1>9. Sound(s) /\ s.blocks \in Nat
  BY <1>3, <1>8, TypedFacts DEF Base, Sound
<1>10. PICK S : seqs \in [DOMAIN seqs -> Records(S)]
  BY DEF Base, Typed
<1>11. s \in Records(S)
  BY <1>3, <1>8, <1>10
<1>12. /\ s.prefilled <= NumPrompt(s) /\ (s.generated > 0 => Complete(s)) /\ s.generated < Target(s)
       /\ Len(s.chain) * BlockSize <= s.prefilled
  BY <1>3, <1>6, <1>7, <1>8 DEF Base, Measured, Passes
<1>13. ~Complete(s) => s.blocks * BlockSize <= s.prefilled + BlockSize
  <2>1. ~Served(id)
    BY <1>5, <1>7 DEF Served
  <2> QED
    BY <1>3, <1>7, <1>8, <2>1, ProvidedFacts
<1>14. PICK t : t = Truncated(s, keep)
  OBVIOUS
<1>15. /\ t \in Records(S) /\ t.prompt = s.prompt /\ t.row = s.row
       /\ t.prefilled = (IF keep * BlockSize < NumPrompt(s) THEN keep * BlockSize ELSE s.prefilled)
       /\ t.chain = SubSeq(s.chain, 1, IF Len(s.chain) <= keep THEN Len(s.chain) ELSE keep)
  <2>1. keep \in 1 .. s.blocks - 1
    BY <1>3, <1>7
  <2> QED
    BY <1>11, <1>12, <1>13, <1>14, <2>1, TruncatedFacts
<1>16. seqs' = [seqs EXCEPT ![id] = t]
  BY <1>3, <1>4, <1>14
<1>17. /\ DOMAIN seqs' = DOMAIN seqs /\ seqs'[id] = t
       /\ \A other \in DOMAIN seqs \ {id} : seqs'[other] = seqs[other]
  BY <1>8, <1>10, <1>15, <1>16, SeqsUpdated
<1>18. Base'
  BY <1>1, PreemptKeeps
<1>19. Live' = Live
  BY <1>4 DEF Live
<1>20. row # -1 /\ phase # "mount"
  BY <1>3, <1>6, <1>7, <1>8, RowOf DEF Passes
<1>21. /\ row \in Rows /\ RowPrompt[row] = Paged(s.prompt) /\ RowWritten[row] = BlocksWritten(id)
       /\ RowChain[row] = s.chain /\ s.blocks = Len(block_tables[row])
       /\ row \in SP!Live /\ Admitting = SP!None
  BY <1>3, <1>8, <1>20, RowOfSequence
<1>22. Kept(row)
  BY <1>3, <1>4, <1>8, <1>15, <1>17, <1>19, OneSequence
<1>23. /\ RowPrompt'[row] = Paged(t.prompt) /\ RowWritten'[row] = BlocksWritten(id)'
       /\ RowChain'[row] = t.chain
  BY <1>3, <1>8, <1>15, <1>17, <1>18, <1>19, <1>21, RowOfSequenceNext
<1>24. RowWritten'[row] = Min({RowWritten[row], keep})
  <2>1. Committed(id) = s.prefilled
    BY <1>3, <1>7, <1>8, CommittedAll
  <2>2. Committed(id)' = t.prefilled
    <3>1. \A i \in 1 .. Len(batch') : batch'[i].id = id => batch'[i].decode
      <4>1. DOMAIN batch = 1 .. Len(batch)
        BY ListFacts
      <4> QED
        BY <1>4, <1>7, <4>1 DEF InBatch
    <3> QED
      BY <1>8, <1>17, <1>18, <1>19, <3>1, CommittedIsShownNext DEF CommittedShown
  <2>3. /\ BlocksWritten(id) = BlocksOfTokens(s.prompt, s.prefilled)
        /\ s.prompt \in {q.prompt : q \in Accepted} /\ BlocksWritten(id) \in Nat
    BY <1>3, <1>8, <2>1, WrittenFacts
  <2>4. BlocksWritten(id)' = BlocksOfTokens(s.prompt, t.prefilled)
    BY <1>8, <1>15, <1>17, <1>18, <1>19, <2>2, WrittenFactsNext
  <2>5. keep \in Nat /\ s.prefilled \in Nat /\ NumPrompt(s) = Len(s.prompt) /\ NumPrompt(s) \in Nat
    BY <1>7, <1>9 DEF Sound, NumPrompt
  <2>6. keep * BlockSize < Len(s.prompt) => keep * BlockSize <= s.prefilled
    <3>1. CASE Complete(s)
      <4>1. s.prefilled >= NumPrompt(s)
        BY <3>1 DEF Complete
      <4>2. keep * BlockSize \in Nat
        BY <2>5, Sizes
      <4> QED
        BY <2>5, <4>1, <4>2
    <3>2. CASE ~Complete(s)
      <4>1. PICK n : n = s.blocks /\ n \in Nat /\ keep + 1 <= n
        BY <1>3, <1>7, <1>9
      <4>2. keep + 1 \in Int /\ n \in Int /\ BlockSize \in Nat \ {0}
        BY <2>5, <4>1, Sizes
      <4>3. (keep + 1) * BlockSize <= n * BlockSize
        BY <4>1, <4>2, Multiples
      <4>4. (keep + 1) * BlockSize = keep * BlockSize + BlockSize /\ n * BlockSize \in Nat
            /\ keep * BlockSize \in Nat
        BY <2>5, <4>1, <4>2
      <4>5. n * BlockSize <= s.prefilled + BlockSize
        BY <1>13, <3>2, <4>1
      <4> QED
        BY <2>5, <4>2, <4>3, <4>4, <4>5
    <3> QED
      BY <3>1, <3>2
  <2>7. PICK w : w = BlocksWritten(id)
    OBVIOUS
  <2>8. BlocksWritten(id)' = IF w <= keep THEN w ELSE keep
    <3>1. s.prefilled <= Len(s.prompt)
      BY <1>12, <2>5
    <3>2. BlocksOfTokens(s.prompt, IF keep * BlockSize < Len(s.prompt) THEN keep * BlockSize
                                                                     ELSE s.prefilled)
            = IF BlocksOfTokens(s.prompt, s.prefilled) <= keep
                THEN BlocksOfTokens(s.prompt, s.prefilled) ELSE keep
      BY <2>3, <2>5, <2>6, <3>1, CutBlocks
    <3> QED
      BY <1>15, <2>3, <2>4, <2>5, <2>7, <3>2
  <2>9. Min({w, keep}) = IF w <= keep THEN w ELSE keep
    <3>1. w \in Int /\ keep \in Int
      BY <2>3, <2>5, <2>7
    <3> QED
      BY <3>1, MinOfTwo
  <2> QED
    BY <1>21, <1>23, <2>7, <2>8, <2>9
<1>25. RowChain'[row] = SubSeq(RowChain[row], 1, Min({Len(RowChain[row]), keep}))
  <2>1. PICK len : len = Len(s.chain)
    OBVIOUS
  <2>2. len \in Int /\ keep \in Int
    BY <1>7, <1>11, <2>1, RecordFacts
  <2>3. Min({len, keep}) = IF len <= keep THEN len ELSE keep
    BY <2>2, MinOfTwo
  <2> QED
    BY <1>15, <1>21, <1>23, <2>1, <2>3
<1>26. RowPrompt'[row] = RowPrompt[row]
  BY <1>15, <1>21, <1>23
<1>27. /\ RowPrompt' = RowPrompt
       /\ RowWritten' = [RowWritten EXCEPT ![row] = Min({@, keep})]
       /\ RowChain' = [RowChain EXCEPT ![row] = SubSeq(@, 1, Min({Len(@), keep}))]
  <2>1. /\ RowPrompt' = [RowPrompt EXCEPT ![row] = RowPrompt'[row]]
        /\ RowWritten' = [RowWritten EXCEPT ![row] = RowWritten'[row]]
        /\ RowChain' = [RowChain EXCEPT ![row] = RowChain'[row]]
    BY <1>18, <1>22, OneRow
  <2> QED
    BY <1>24, <1>25, <1>26, <2>1, RowsMapped
<1>28. Admitting' = Admitting
  BY <1>4, <1>20 DEF Admitting
<1>29. keep \in Nat /\ keep < Len(block_tables[row]) /\ keep \in 1 .. MaxBlocksPerSeq
  <2>1. Len(block_tables[row]) \in 0 .. MaxBlocksPerSeq
    BY <1>1, <1>21, PoolFacts DEF CacheInv, PoolView
  <2>2. MaxBlocksPerSeq \in Nat
    BY CacheSizes
  <2> QED
    BY <1>3, <1>7, <1>9, <1>21, <2>1, <2>2
<1>30. SP!Cut(row, keep)
  <2>1. SP!Pool!FreeBlocksFrom(row, keep)
    BY <1>4, SharedOperations
  <2>2. \A T : SP!Min(T) = Min(T)
    BY SharedSets
  <2> QED
    BY <1>4, <1>27, <1>28, <1>29, <2>1, <2>2, StaysBlank DEF SP!Cut
<1> QED
  BY <1>21, <1>29, <1>30, RowsFit, RowsMove, SP!CutStep

\* At the start no row is held.
LEMMA InitRows == Init => SP!SharingInv
<1> SUFFICES ASSUME Init PROVE SP!SharingInv
  OBVIOUS
<1>1. Base
  BY InitBase
<1>2. Live = {} /\ Rows = SP!Rows /\ Blocks = SP!Blocks
  <2>1. running = <<>> /\ waiting = <<>>
    BY DEF Init
  <2>2. Range(<<>>) = {}
    BY DEF Range
  <2> QED
    BY <2>1, <2>2, SharedSets DEF Live
<1>3. /\ RowPrompt = [r \in SP!Rows |-> <<>>] /\ RowWritten = [r \in SP!Rows |-> 0]
      /\ RowChain = [r \in SP!Rows |-> <<>>]
  BY <1>2 DEF RowPrompt, RowWritten, RowChain, Owned
<1>4. Admitting = SP!None
  BY DEF Init, Admitting, SP!None
<1>5. SP!CacheInit
  <2>1. Pool!Init /\ entries = [h \in {} |-> {}] /\ lru = <<>>
    BY DEF Init, CacheInit
  <2>2. SP!Pool!Blocks = Pool!Blocks /\ SP!Pool!Rows = Pool!Rows
    BY SharedSets, SameSets
  <2>3. SP!Pool!Init = Pool!Init
    BY <2>2 DEF Pool!Init, SP!Pool!Init
  <2> QED
    BY <2>1, <2>3 DEF SP!CacheInit
<1>6. SP!Init
  BY <1>2, <1>3, <1>4, <1>5 DEF SP!Init, SP!NoKV, NoKV
<1> QED
  BY <1>6, RowsFit, SP!InitSharing

=============================================================================
