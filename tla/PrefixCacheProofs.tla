--------------------------- MODULE PrefixCacheProofs ---------------------------
(***************************************************************************)
(* What each call into the prefix cache does to the cache and to the pool, *)
(* for every pool, cache size and hash function: the pool only ever makes  *)
(* moves of its own, and the pins of the pool stay the cache's entries.    *)
(***************************************************************************)
EXTENDS PrefixCache, FiniteSetTheorems, SequenceTheorems, WellFoundedInduction, TLAPS

\* What is proved of the pool.
PP == INSTANCE BlockAllocatorProofs

-------------------------------------------------------------------------------
(* Numbers and places.                                                       *)

\* A nonempty set of naturals has a least element.
LEMMA LeastNatural ==
  ASSUME NEW T, T \subseteq Nat, T # {}
  PROVE  \E n \in T : \A m \in T : n <= m
<1>1. PICK n \in T : \A m \in T : ~ (<<m, n>> \in OpToRel(<, Nat))
  BY NatLessThanWellFounded, WFMin
<1>2. \A m \in T : ~ (m < n)
  BY <1>1 DEF OpToRel
<1> QED
  BY <1>2

\* A nonempty set of naturals up to n has a greatest element.
LEMMA GreatestNatural ==
  ASSUME NEW n \in Nat, NEW T, T \subseteq 0 .. n, T # {}
  PROVE  \E m \in T : \A k \in T : m >= k
<1> DEFINE gaps == {n - k : k \in T}
<1>1. gaps \subseteq Nat /\ gaps # {}
  <2>1. \A k \in T : k \in Nat /\ n - k \in Nat
    <3> TAKE k \in T
    <3>1. k \in 0 .. n
      OBVIOUS
    <3> QED
      BY <3>1
  <2> QED
    BY <2>1
<1>2. PICK g \in gaps : \A h \in gaps : g <= h
  BY <1>1, LeastNatural
<1>3. PICK m \in T : g = n - m
  BY <1>2
<1>4. ASSUME NEW k \in T PROVE m >= k
  <2>1. n - m <= n - k
    BY <1>2, <1>3
  <2> QED
    BY <2>1
<1> QED
  BY <1>4

\* The place of an index among those that stay: it numbers them from 1 on.
LEMMA Places ==
  ASSUME NEW n \in Nat, NEW stays \in SUBSET (1 .. n)
  PROVE  LET Place(i) == Cardinality({j \in stays : j <= i})
         IN  /\ Cardinality(stays) \in Nat
             /\ \A i \in stays : Place(i) \in 1 .. Cardinality(stays)
             /\ \A i, j \in stays : Place(i) = Place(j) => i = j
             /\ \A k \in 1 .. Cardinality(stays) : \E i \in stays : Place(i) = k
<1> DEFINE UpTo(i) == {j \in stays : j <= i}
           place == [i \in stays |-> Cardinality(UpTo(i))]
           size == Cardinality(stays)
<1>1. IsFiniteSet(1 .. n)
  BY FS_Interval
<1>2. IsFiniteSet(stays) /\ size \in Nat
  BY <1>1, FS_Subset, FS_CardinalityType
<1>3. \A i \in stays : IsFiniteSet(UpTo(i)) /\ Cardinality(UpTo(i)) \in Nat
  <2> TAKE i \in stays
  <2>1. UpTo(i) \in SUBSET stays
    OBVIOUS
  <2> QED
    BY <1>2, <2>1, FS_Subset, FS_CardinalityType
<1>4. \A i \in stays : Cardinality(UpTo(i)) \in 1 .. size
  <2> TAKE i \in stays
  <2>1. UpTo(i) \in SUBSET stays /\ i \in UpTo(i)
    OBVIOUS
  <2>2. Cardinality(UpTo(i)) <= size
    BY <1>2, <2>1, FS_Subset
  <2>3. Cardinality(UpTo(i)) # 0
    BY <1>3, <2>1, FS_EmptySet
  <2> QED
    BY <1>2, <1>3, <2>2, <2>3
<1>5. ASSUME NEW i \in stays, NEW j \in stays, i < j
      PROVE  Cardinality(UpTo(i)) < Cardinality(UpTo(j))
  <2>0. ASSUME NEW k \in stays PROVE k \in Nat
    <3>1. k \in 1 .. n
      OBVIOUS
    <3> QED
      BY <3>1
  <2>1. UpTo(i) \in SUBSET UpTo(j) /\ j \in UpTo(j) /\ j \notin UpTo(i)
    <3>1. j \in UpTo(j) /\ j \notin UpTo(i)
      BY <1>5, <2>0
    <3>2. \A k \in stays : k <= i => k <= j
      BY <1>5, <2>0
    <3> QED
      BY <3>1, <3>2
  <2>2. UpTo(i) # UpTo(j)
    BY <2>1
  <2> HIDE DEF UpTo
  <2>3. /\ Cardinality(UpTo(i)) <= Cardinality(UpTo(j))
        /\ Cardinality(UpTo(i)) # Cardinality(UpTo(j))
    BY <1>3, <2>1, <2>2, FS_Subset
  <2> QED
    BY <1>3, <2>3
<1>6. \A i, j \in stays : Cardinality(UpTo(i)) = Cardinality(UpTo(j)) => i = j
  <2> TAKE i, j \in stays
  <2>1. i < j \/ j < i \/ i = j
    OBVIOUS
  <2> HIDE DEF UpTo
  <2> QED
    BY <1>3, <1>5, <2>1
<1>7. place \in Injection(stays, 1 .. size)
  <2> HIDE DEF UpTo, size
  <2>1. place \in [stays -> 1 .. size]
    BY <1>4
  <2> QED
    BY <1>6, <2>1 DEF Injection, IsInjective
<1>8. IsFiniteSet(1 .. size) /\ Cardinality(1 .. size) = size
  <2> HIDE DEF size
  <2>1. 1 \in Int /\ size \in Int
    BY <1>2
  <2>2. IsFiniteSet(1 .. size) /\ Cardinality(1 .. size) = IF 1 > size THEN 0 ELSE size - 1 + 1
    BY <2>1, FS_Interval
  <2> QED
    BY <1>2, <2>2
<1>9. place \in Surjection(stays, 1 .. size)
  <2>1. Cardinality(stays) = Cardinality(1 .. size)
    BY <1>8
  <2> HIDE DEF place
  <2> QED
    BY <1>7, <1>8, <2>1, FS_Injection
<1>10. \A k \in 1 .. size : \E i \in stays : Cardinality(UpTo(i)) = k
  <2> HIDE DEF UpTo, size
  <2> QED
    BY <1>9 DEF Surjection
<1> QED
  BY <1>2, <1>4, <1>6, <1>10

-------------------------------------------------------------------------------
(* Sequences.                                                                *)

\* A sequence is one of its own elements.
LEMMA OwnElements ==
  ASSUME NEW S, NEW s \in Seq(S)
  PROVE  /\ s \in Seq(Range(s))
         /\ Range(s) \subseteq S
         /\ Len(s) \in Nat /\ DOMAIN s = 1 .. Len(s)
         /\ \A i \in 1 .. Len(s) : s[i] \in S
<1>1. /\ Len(s) \in Nat /\ DOMAIN s = 1 .. Len(s)
      /\ s = [i \in 1 .. Len(s) |-> s[i]]
      /\ \A i \in 1 .. Len(s) : s[i] \in S
  BY LenProperties, ElementOfSeq
<1>2. \A i \in 1 .. Len(s) : s[i] \in Range(s)
  BY <1>1 DEF Range
<1>3. s \in [1 .. Len(s) -> Range(s)]
  BY <1>1, <1>2
<1>4. s \in Seq(Range(s))
  BY <1>1, <1>3
<1> QED
  BY <1>1, <1>4 DEF Range

\* One more element at the back.
LEMMA AppendFacts ==
  ASSUME NEW S, NEW s \in Seq(S), NEW x
  PROVE  /\ Append(s, x) \in Seq(S \cup {x})
         /\ Len(Append(s, x)) = Len(s) + 1
         /\ \A i \in 1 .. Len(s) : Append(s, x)[i] = s[i]
         /\ Append(s, x)[Len(s) + 1] = x
<1>1. s \in Seq(S \cup {x})
  BY SeqMonotonic
<1> QED
  BY <1>1, AppendProperties

\* A sequence reversed has the same elements.
LEMMA Reversed ==
  ASSUME NEW S, NEW s \in Seq(S)
  PROVE  LET back == [i \in 1 .. Len(s) |-> s[(Len(s) - i) + 1]]
         IN  /\ back \in Seq(S)
             /\ Range(back) = Range(s)
             /\ IsInjective(s) => IsInjective(back)
<1> DEFINE back == [i \in 1 .. Len(s) |-> s[(Len(s) - i) + 1]]
<1>1. /\ Len(s) \in Nat /\ DOMAIN s = 1 .. Len(s)
      /\ \A i \in 1 .. Len(s) : s[i] \in S
  BY OwnElements
<1>2. /\ DOMAIN back = 1 .. Len(s)
      /\ \A i \in 1 .. Len(s) : /\ (Len(s) - i) + 1 \in 1 .. Len(s)
                                /\ back[i] = s[(Len(s) - i) + 1]
                                /\ s[i] = back[(Len(s) - i) + 1]
  BY <1>1
<1>3. back \in [1 .. Len(s) -> S]
  BY <1>1, <1>2
<1>4. back \in Seq(S)
  BY <1>1, <1>3
<1> HIDE DEF back
<1>5. Range(back) = Range(s)
  BY <1>1, <1>2 DEF Range
<1>6. ASSUME IsInjective(s) PROVE IsInjective(back)
  <2> SUFFICES ASSUME NEW i \in 1 .. Len(s), NEW j \in 1 .. Len(s), back[i] = back[j]
               PROVE  i = j
    BY <1>2 DEF IsInjective
  <2>1. (Len(s) - i) + 1 = (Len(s) - j) + 1
    BY <1>1, <1>2, <1>6 DEF IsInjective
  <2> QED
    BY <1>1, <2>1
<1> QED
  BY <1>4, <1>5, <1>6 DEF back

\* A sequence of different elements without its first.
LEMMA Headed ==
  ASSUME NEW S, NEW s \in Seq(S), s # <<>>
  PROVE  /\ Head(s) \in S /\ Head(s) = s[1] /\ Head(s) \in Range(s)
         /\ Tail(s) \in Seq(S) /\ Len(s) > 0 /\ Len(Tail(s)) = Len(s) - 1
         /\ \A i \in 1 .. Len(s) - 1 : Tail(s)[i] = s[i + 1]
         /\ Range(Tail(s)) \subseteq Range(s)
         /\ IsInjective(s) => /\ IsInjective(Tail(s))
                              /\ Range(Tail(s)) = Range(s) \ {Head(s)}
<1>1. /\ Len(s) \in Nat /\ Len(s) > 0 /\ DOMAIN s = 1 .. Len(s)
      /\ \A i \in 1 .. Len(s) : s[i] \in S
  OBVIOUS
<1>2. Tail(s) \in Seq(S) /\ Len(Tail(s)) = Len(s) - 1 /\ Head(s) = s[1]
  OBVIOUS
<1>3. \A i \in 1 .. Len(s) - 1 : Tail(s)[i] = s[i + 1]
  OBVIOUS
<1> DEFINE t == Tail(s)
<1>4. t \in Seq(S) /\ DOMAIN t = 1 .. Len(s) - 1 /\ \A i \in 1 .. Len(s) - 1 : t[i] = s[i + 1]
  BY <1>2, <1>3
<1> HIDE DEF t
<1>5. Range(s) = {s[i] : i \in 1 .. Len(s)}
  BY <1>1 DEF Range
<1>6. Range(t) = {t[i] : i \in 1 .. Len(s) - 1}
  BY <1>4 DEF Range
<1>7. Range(t) \subseteq Range(s)
  BY <1>1, <1>4, <1>5, <1>6
<1>8. ASSUME IsInjective(s)
      PROVE  IsInjective(t) /\ Range(t) = Range(s) \ {s[1]}
  <2>1. \A i, j \in 1 .. Len(s) : s[i] = s[j] => i = j
    BY <1>1, <1>8 DEF IsInjective
  <2>2. \A i, j \in 1 .. Len(s) - 1 : t[i] = t[j] => i = j
    BY <1>1, <1>4, <2>1
  <2>3. IsInjective(t)
    BY <1>4, <2>2 DEF IsInjective
  <2>4. ASSUME NEW x \in Range(s), x # s[1]
        PROVE  x \in Range(t)
    <3>1. PICK i \in 1 .. Len(s) : x = s[i]
      BY <1>5
    <3>2. i - 1 \in 1 .. Len(s) - 1 /\ t[i - 1] = x
      BY <1>1, <1>4, <2>4, <3>1
    <3> QED
      BY <1>6, <3>2
  <2>5. s[1] \notin Range(t)
    BY <1>1, <1>4, <1>6, <2>1
  <2> QED
    BY <1>7, <2>3, <2>4, <2>5
<1>9. s[1] \in S /\ s[1] \in Range(s)
  BY <1>1, <1>5
<1> QED
  BY <1>1, <1>2, <1>3, <1>7, <1>8, <1>9 DEF t

\* A sequence of different elements with one more behind it.
LEMMA Appended ==
  ASSUME NEW S, NEW s \in Seq(S), NEW x \in S
  PROVE  /\ Append(s, x) \in Seq(S) /\ Append(s, x) # <<>>
         /\ Len(Append(s, x)) = Len(s) + 1
         /\ Range(Append(s, x)) = Range(s) \cup {x}
         /\ IsInjective(s) /\ x \notin Range(s) => IsInjective(Append(s, x))
<1>1. PICK t : t = Append(s, x)
  OBVIOUS
<1>2. /\ t \in Seq(S) /\ Len(t) = Len(s) + 1 /\ Len(s) \in Nat
      /\ DOMAIN t = 1 .. Len(s) + 1 /\ DOMAIN s = 1 .. Len(s) /\ t # <<>>
      /\ \A i \in 1 .. Len(s) : t[i] = s[i]
      /\ t[Len(s) + 1] = x
  BY <1>1
<1>3. Range(t) = {t[i] : i \in 1 .. Len(s) + 1} /\ Range(s) = {s[i] : i \in 1 .. Len(s)}
  BY <1>2 DEF Range
<1>4. Range(t) = Range(s) \cup {x}
  BY <1>2, <1>3
<1>5. ASSUME IsInjective(s), x \notin Range(s)
      PROVE  IsInjective(t)
  <2>1. \A i, j \in 1 .. Len(s) : s[i] = s[j] => i = j
    BY <1>2, <1>5 DEF IsInjective
  <2>2. \A i \in 1 .. Len(s) : s[i] # x
    BY <1>3, <1>5
  <2>3. \A i, j \in 1 .. Len(s) + 1 : t[i] = t[j] => i = j
    BY <1>2, <2>1, <2>2
  <2> QED
    BY <1>2, <2>3 DEF IsInjective
<1> QED
  BY <1>1, <1>2, <1>4, <1>5, Zenon

\* A sequence has no more elements than places.
LEMMA RangeCount ==
  ASSUME NEW S, NEW s \in Seq(S)
  PROVE  /\ IsFiniteSet(Range(s)) /\ Cardinality(Range(s)) \in Nat
         /\ Cardinality(Range(s)) <= Len(s)
<1>1. Len(s) \in Nat /\ DOMAIN s = 1 .. Len(s)
  OBVIOUS
<1>2. IsFiniteSet(1 .. Len(s)) /\ Cardinality(1 .. Len(s)) = Len(s)
  BY <1>1, FS_Interval
<1>3. s \in [1 .. Len(s) -> Range(s)]
  BY <1>1 DEF Range
<1>4. s \in Surjection(1 .. Len(s), Range(s))
  BY <1>1, <1>3 DEF Range, Surjection
<1> QED
  BY <1>2, <1>4, FS_Surjection, FS_CardinalityType

-------------------------------------------------------------------------------
(* Recursion over the places of a sequence.                                  *)

\* What holds at 0, and one place on wherever it holds, holds up to n.
LEMMA UpwardClosed ==
  ASSUME NEW n \in Nat, NEW T, 0 \in T, \A k \in 1 .. n : k - 1 \in T => k \in T
  PROVE  0 .. n \subseteq T
<1> SUFFICES ASSUME ~(0 .. n \subseteq T) PROVE FALSE
  OBVIOUS
<1> DEFINE Outside == {k \in 0 .. n : k \notin T}
<1>1. PICK k \in Outside : \A m \in Outside : k <= m
  <2>1. Outside \subseteq Nat /\ Outside # {}
    OBVIOUS
  <2> HIDE DEF Outside
  <2> QED
    BY <2>1, LeastNatural
<1>2. k \in 1 .. n /\ k - 1 \in 0 .. n /\ k - 1 \notin Outside
  BY <1>1
<1> QED
  BY <1>1, <1>2

\* A step function takes S to S at each of n places, and f follows it.
Maintains(step, n, S) == \A k \in 1 .. n : \A x \in S : step[<<k, x>>] \in S
Follows(f, first, step, n) == f[0] = first /\ \A k \in 1 .. n : f[k] = step[<<k, f[k - 1]>>]

\* A step function with a first value defines a function on 0 .. n.
LEMMA Recursion ==
  ASSUME NEW S, NEW first \in S, NEW n \in Nat, NEW step, Maintains(step, n, S)
  PROVE  \E f \in [0 .. n -> S] : Follows(f, first, step, n)
<1> USE DEF Maintains, Follows
<1> DEFINE Solves(f, m) ==
             /\ f \in [0 .. m -> S]
             /\ f[0] = first /\ \A k \in 1 .. m : f[k] = step[<<k, f[k - 1]>>]
           T == {m \in 0 .. n : \E f : Solves(f, m)}
<1>1. 0 \in T
  <2>1. Solves([k \in 0 .. 0 |-> first], 0)
    OBVIOUS
  <2> HIDE DEF Solves
  <2> QED
    BY <2>1
<1>2. ASSUME NEW m \in 1 .. n, m - 1 \in T
      PROVE  m \in T
  <2>1. PICK f : Solves(f, m - 1)
    BY <1>2
  <2>2. f[m - 1] \in S /\ step[<<m, f[m - 1]>>] \in S
    BY <2>1
  <2> DEFINE g == [k \in 0 .. m |-> IF k = m THEN step[<<m, f[m - 1]>>] ELSE f[k]]
  <2>3. g \in [0 .. m -> S]
    BY <2>1, <2>2
  <2>4. g[0] = first
    BY <2>1
  <2>5. ASSUME NEW k \in 1 .. m PROVE g[k] = step[<<k, g[k - 1]>>]
    <3>1. g[k - 1] = f[k - 1]
      OBVIOUS
    <3>2. CASE k = m
      <4>1. g[m] = step[<<m, f[m - 1]>>]
        OBVIOUS
      <4> HIDE DEF g
      <4> QED
        BY <3>1, <3>2, <4>1
    <3>3. CASE k # m
      <4>1. g[k] = f[k] /\ k \in 1 .. m - 1
        BY <3>3
      <4>2. f[k] = step[<<k, f[k - 1]>>]
        BY <2>1, <4>1
      <4> QED
        BY <3>1, <4>1, <4>2
    <3> QED
      BY <3>2, <3>3
  <2>6. Solves(g, m)
    BY <2>3, <2>4, <2>5
  <2> HIDE DEF Solves, g
  <2> QED
    BY <2>6
<1>3. n \in T
  <2> HIDE DEF T
  <2> QED
    BY <1>1, <1>2, UpwardClosed
<1> QED
  BY <1>3

-------------------------------------------------------------------------------
(* The pool the cache works on is the one the proofs are about.              *)

\* The pool of the cache has the sizes the proofs about pools assume.
LEMMA PoolSized == PP!PoolSizes
BY CacheSizes DEF PP!PoolSizes

\* The pool's cardinality, and the proofs', are the cache's.
LEMMA SameCount ==
  \A S : Pool!Cardinality(S) = Cardinality(S) /\ PP!Cardinality(S) = Cardinality(S)
BY DEF Pool!Cardinality, PP!Cardinality, Cardinality

\* So are what a sequence lists and whether it lists it once.
LEMMA SameRange ==
  \A s : /\ Pool!Range(s) = Range(s) /\ PP!Range(s) = Range(s)
         /\ Pool!IsInjective(s) = IsInjective(s) /\ PP!IsInjective(s) = IsInjective(s)
BY DEF Pool!Range, PP!Range, Range, Pool!IsInjective, PP!IsInjective, IsInjective

\* What the pool's proofs say of joined sequences holds of the cache's.
LEMMA ConcatRange ==
  ASSUME NEW S, NEW s \in Seq(S), NEW t \in Seq(S)
  PROVE  Range(s \o t) = Range(s) \cup Range(t)
BY PoolSized, PP!ConcatRange, SameRange

\* So for sequences of different elements.
LEMMA ConcatInjective ==
  ASSUME NEW S, NEW s \in Seq(S), NEW t \in Seq(S),
         IsInjective(s), IsInjective(t), Range(s) \cap Range(t) = {}
  PROVE  IsInjective(s \o t)
BY PoolSized, PP!ConcatInjective, SameRange

\* The sets the pool's operations read are those of the proofs.
LEMMA SameSets ==
  /\ Blocks = Pool!Blocks /\ Rows = Pool!Rows
  /\ Pool!Blocks = PP!Blocks /\ Pool!Rows = PP!Rows
  /\ Pool!Parked = PP!Parked /\ Pool!Mountable = PP!Mountable
  /\ Pool!OneParked = PP!OneParked
  /\ \A n : Pool!Evictions(n) = PP!Evictions(n)
  /\ \A row : Pool!Mounts(row) = PP!Mounts(row)
  /\ \A b : Pool!Holders(b) = PP!Holders(b)
<1>1. Pool!Blocks = PP!Blocks /\ Pool!Rows = PP!Rows
  BY DEF Pool!Blocks, PP!Blocks, Pool!Rows, PP!Rows
<1>2. Pool!Parked = PP!Parked /\ Pool!Mountable = PP!Mountable
  BY <1>1 DEF Pool!Parked, PP!Parked, Pool!Mountable, PP!Mountable
<1>3. \A n : Pool!Evictions(n) = PP!Evictions(n)
  BY <1>2, SameRange DEF Pool!Evictions, PP!Evictions
<1>4. \A row : Pool!Mounts(row) = PP!Mounts(row)
  BY <1>2 DEF Pool!Mounts, PP!Mounts
<1>5. \A b : Pool!Holders(b) = PP!Holders(b)
  BY <1>1, SameRange DEF Pool!Holders, PP!Holders
<1>6. Pool!OneParked = PP!OneParked
  BY <1>2 DEF Pool!OneParked, PP!OneParked
<1> QED
  BY <1>1, <1>2, <1>3, <1>4, <1>5, <1>6 DEF Blocks, Rows

\* The pool's operations are those of the proofs.
LEMMA SameOperations ==
  /\ \A n, ev : Pool!AllocateBlocks(n, ev) = PP!AllocateBlocks(n, ev)
  /\ \A row, n, ev : Pool!AppendBlocks(row, n, ev) = PP!AppendBlocks(row, n, ev)
  /\ \A row, blocks : Pool!ReserveSharedPrefix(row, blocks) = PP!ReserveSharedPrefix(row, blocks)
  /\ \A row, start : Pool!FreeBlocksFrom(row, start) = PP!FreeBlocksFrom(row, start)
  /\ \A b, ev : Pool!MarkCached(b, ev) = PP!MarkCached(b, ev)
<1>1. /\ \A free, n : Pool!Popped(free, n) = PP!Popped(free, n)
      /\ \A s, t : Pool!InTableOrder(s, t) = PP!InTableOrder(s, t)
      /\ \A r : Pool!IsFirstFreeRow(r) = PP!IsFirstFreeRow(r)
      /\ \A ev : Pool!Unpin(ev) = PP!Unpin(ev)
      /\ \A s : Pool!Freed(s) = PP!Freed(s)
      /\ \A free : Pool!FallShort(free) = PP!FallShort(free)
  BY SameRange, SameSets
     DEF Pool!Popped, PP!Popped, Pool!InTableOrder, PP!InTableOrder,
         Pool!IsFirstFreeRow, PP!IsFirstFreeRow, Pool!Unpin, PP!Unpin,
         Pool!Freed, PP!Freed, Pool!FallShort, PP!FallShort
<1>2. \A row, free, n : Pool!Take(row, free, n) = PP!Take(row, free, n)
  BY <1>1, SameRange, SameSets DEF Pool!Take, PP!Take
<1>3. \A row, blocks : Pool!CanMount(row, blocks) = PP!CanMount(row, blocks)
  BY SameRange, SameSets DEF Pool!CanMount, PP!CanMount
<1>4. \A n, ev : Pool!AllocateBlocks(n, ev) = PP!AllocateBlocks(n, ev)
  BY <1>1, <1>2, SameSets DEF Pool!AllocateBlocks, PP!AllocateBlocks
<1>5. \A row, n, ev : Pool!AppendBlocks(row, n, ev) = PP!AppendBlocks(row, n, ev)
  BY <1>1, <1>2 DEF Pool!AppendBlocks, PP!AppendBlocks
<1>6. \A row, blocks :
        Pool!ReserveSharedPrefix(row, blocks) = PP!ReserveSharedPrefix(row, blocks)
  BY <1>3, SameRange, SameSets DEF Pool!ReserveSharedPrefix, PP!ReserveSharedPrefix
<1>7. \A row, start : Pool!FreeBlocksFrom(row, start) = PP!FreeBlocksFrom(row, start)
  <2> TAKE row, start
  <2>1. PICK dropped : dropped = SubSeq(block_tables[row], start + 1, Len(block_tables[row]))
    OBVIOUS
  <2>2. /\ Pool!Freed(dropped) = PP!Freed(dropped)
        /\ Pool!Cardinality(Pool!Freed(dropped)) = PP!Cardinality(PP!Freed(dropped))
        /\ Pool!Range(dropped) = PP!Range(dropped) /\ Pool!Blocks = PP!Blocks
        /\ \A s : /\ Pool!Range(s) = PP!Range(s)
                 /\ Pool!InTableOrder(s, dropped) = PP!InTableOrder(s, dropped)
    BY <1>1, SameCount, SameRange, SameSets
  <2> QED
    BY <2>1, <2>2 DEF Pool!FreeBlocksFrom, PP!FreeBlocksFrom
<1>8. \A b, ev : Pool!MarkCached(b, ev) = PP!MarkCached(b, ev)
  BY SameRange, SameSets DEF Pool!MarkCached, PP!MarkCached
<1> QED
  BY <1>4, <1>5, <1>6, <1>7, <1>8

\* A move of the cache's pool is a move of the pool the proofs are about.
LEMMA SameNext == Pool!Next => PP!Next
BY SameSets, SameOperations DEF Pool!Next, PP!Next

\* Both start from the same empty pool.
LEMMA SameInit == Pool!Init => PP!Init
BY SameSets DEF Pool!Init, PP!Init

-------------------------------------------------------------------------------
(* The invariant.                                                            *)

\* The pool's own invariant.
PoolInv == Pool!TypeOK /\ Pool!InvariantHolds /\ Pool!RowsOwned

\* What it says of a table's entries, place by place.
PoolView ==
  /\ free_blocks \in Seq(Blocks)
  /\ ref_counts \in [Blocks -> Nat]
  /\ cached \in [Blocks -> BOOLEAN]
  /\ block_tables \in [Rows -> Seq(Blocks)]
  /\ row_busy \in [Rows -> BOOLEAN]
  /\ \A r \in Rows :
       /\ Len(block_tables[r]) \in 0 .. MaxBlocksPerSeq
       /\ DOMAIN block_tables[r] = 1 .. Len(block_tables[r])
       /\ ~row_busy[r] => block_tables[r] = <<>>
       /\ \A i \in 1 .. Len(block_tables[r]) :
            /\ block_tables[r][i] \in Blocks
            /\ block_tables[r][i] \notin Range(free_blocks)
            /\ ref_counts[block_tables[r][i]] # 0
            /\ \A j \in 1 .. Len(block_tables[r]) :
                 block_tables[r][i] = block_tables[r][j] => i = j
  /\ \A b \in Blocks : cached[b] => b \notin Range(free_blocks)

\* The types of the cache's own state.
CacheTyped ==
  /\ lru \in Seq(DOMAIN entries)
  /\ \A h \in DOMAIN entries : entries[h].block \in Blocks

CacheInv == PoolInv /\ CacheTyped /\ CacheCoherent

\* The invariant of the cache's pool is the one proved inductive for pools.
LEMMA SameInv == PoolInv <=> PP!IInv /\ PP!RowsOwned
BY SameCount, SameSets, SameRange
   DEF PoolInv, PP!IInv, Pool!TypeOK, PP!TypeOK, Pool!InvariantHolds, PP!InvariantHolds,
       Pool!RowsOwned, PP!RowsOwned, Pool!FreeListDistinct, PP!FreeListDistinct,
       Pool!NoAlias, PP!NoAlias, Pool!RefCountExact, PP!RefCountExact,
       Pool!ThreeStates, PP!ThreeStates

\* An empty pool has the pool's invariant.
LEMMA InitPoolInv == Pool!Init => PoolInv
<1> SUFFICES ASSUME Pool!Init PROVE PP!IInv /\ PP!RowsOwned
  BY SameInv
<1>1. PP!Init
  BY SameInit
<1>2. PP!IInv
  BY <1>1, PoolSized, PP!InitIInv
<1>3. PP!RowsOwned
  BY <1>1, CacheSizes, LenProperties DEF PP!Init, PP!RowsOwned, PP!Rows
<1> QED
  BY <1>2, <1>3

\* Every move of the pool keeps its invariant.
LEMMA PoolMoves == PoolInv /\ (Pool!Next \/ UNCHANGED pool_vars) => PoolInv'
<1> SUFFICES ASSUME PoolInv, Pool!Next \/ UNCHANGED pool_vars PROVE PoolInv'
  OBVIOUS
<1>1. PP!IInv /\ PP!RowsOwned
  BY SameInv
<1>2. [PP!Next]_PP!vars
  BY SameNext DEF pool_vars, PP!vars
<1>3. (PP!IInv /\ PP!RowsOwned)'
  BY <1>1, <1>2, PoolSized, PP!NextIInv, PP!NextRowsOwned
<1>4. (PoolInv <=> PP!IInv /\ PP!RowsOwned)'
  BY SameInv, PTL
<1> QED
  BY <1>3, <1>4

\* The pool's invariant, entry by entry of its tables.
LEMMA PoolFacts == PoolInv => PoolView
<1> SUFFICES ASSUME PoolInv PROVE PoolView
  OBVIOUS
<1>1. /\ free_blocks \in Seq(Blocks)
      /\ ref_counts \in [Blocks -> Nat]
      /\ cached \in [Blocks -> BOOLEAN]
      /\ block_tables \in [Rows -> Seq(Blocks)]
      /\ row_busy \in [Rows -> BOOLEAN]
  BY SameSets DEF PoolInv, Pool!TypeOK
<1>2. \A b \in Blocks : b \in Range(free_blocks) <=> ref_counts[b] = 0 /\ ~cached[b]
  BY SameSets, SameRange DEF PoolInv, Pool!InvariantHolds, Pool!ThreeStates
<1>3. ASSUME NEW r \in Rows
      PROVE  /\ Len(block_tables[r]) \in 0 .. MaxBlocksPerSeq
             /\ DOMAIN block_tables[r] = 1 .. Len(block_tables[r])
             /\ ~row_busy[r] => block_tables[r] = <<>>
             /\ \A i \in 1 .. Len(block_tables[r]) :
                  /\ block_tables[r][i] \in Blocks
                  /\ block_tables[r][i] \notin Range(free_blocks)
                  /\ ref_counts[block_tables[r][i]] # 0
                  /\ \A j \in 1 .. Len(block_tables[r]) :
                       block_tables[r][i] = block_tables[r][j] => i = j
  <2>1. /\ Len(block_tables[r]) \in Nat
        /\ DOMAIN block_tables[r] = 1 .. Len(block_tables[r])
        /\ \A i \in 1 .. Len(block_tables[r]) : block_tables[r][i] \in Blocks
    BY <1>1, OwnElements
  <2>2. /\ Len(block_tables[r]) <= MaxBlocksPerSeq
        /\ ~row_busy[r] => block_tables[r] = <<>>
    BY SameSets DEF PoolInv, Pool!RowsOwned
  <2>3. IsInjective(block_tables[r])
    BY SameSets, SameRange DEF PoolInv, Pool!InvariantHolds, Pool!NoAlias
  <2>4. ASSUME NEW i \in 1 .. Len(block_tables[r])
        PROVE  ref_counts[block_tables[r][i]] # 0
    <3>1. block_tables[r][i] \in PP!Blocks /\ r \in PP!Rows
      BY <2>1, SameSets
    <3>2. r \in PP!Holders(block_tables[r][i])
      BY <2>1, <3>1, SameRange DEF PP!Holders, Range
    <3> QED
      BY <3>1, <3>2, SameInv, PoolSized, PP!UnheldBlock
  <2> QED
    BY <1>2, <2>1, <2>2, <2>3, <2>4, CacheSizes DEF IsInjective
<1> QED
  BY <1>1, <1>2, <1>3 DEF PoolView

\* The same after a step.
LEMMA PoolFactsNext == PoolInv' => PoolView'
BY PoolFacts, PTL

-------------------------------------------------------------------------------
(* The LRU list.                                                             *)

\* Unlinking entries leaves the others, each once.
LEMMA UnlinkedFacts ==
  ASSUME NEW S, lru \in Seq(S), IsInjective(lru), NEW gone
  PROVE  /\ Unlinked(gone) \in Seq(Range(lru) \ Range(gone))
         /\ IsInjective(Unlinked(gone))
         /\ Range(Unlinked(gone)) = Range(lru) \ Range(gone)
<1> DEFINE stays == {i \in DOMAIN lru : lru[i] \notin Range(gone)}
           Place(i) == Cardinality({j \in stays : j <= i})
           at == [k \in 1 .. Cardinality(stays) |-> CHOOSE i \in stays : Place(i) = k]
<1>1. Len(lru) \in Nat /\ DOMAIN lru = 1 .. Len(lru)
  BY OwnElements
<1>2. stays \in SUBSET (1 .. Len(lru))
  BY <1>1
<1>3. /\ Cardinality(stays) \in Nat
      /\ \A i \in stays : Place(i) \in 1 .. Cardinality(stays)
      /\ \A i, j \in stays : Place(i) = Place(j) => i = j
      /\ \A k \in 1 .. Cardinality(stays) : \E i \in stays : Place(i) = k
  <2> HIDE DEF stays
  <2> QED
    BY <1>1, <1>2, Places
<1>4. Unlinked(gone) = [k \in 1 .. Cardinality(stays) |-> lru[at[k]]]
  BY DEF Unlinked
<1> HIDE DEF Place
<1>5. \A k \in 1 .. Cardinality(stays) : at[k] \in stays /\ Place(at[k]) = k
  BY <1>3
<1>6. \A i \in stays : at[Place(i)] = i /\ Place(i) \in 1 .. Cardinality(stays)
  BY <1>3, <1>5
<1>7. /\ \A i \in stays : i \in DOMAIN lru /\ lru[i] \in Range(lru) \ Range(gone)
      /\ \A x \in Range(lru) \ Range(gone) : \E i \in stays : x = lru[i]
  BY DEF Range
<1> DEFINE n == Cardinality(stays)
           left == [k \in 1 .. n |-> lru[at[k]]]
<1> HIDE DEF stays, at, n
<1>8. left \in [1 .. n -> Range(lru) \ Range(gone)] /\ n \in Nat
  BY <1>3, <1>5, <1>7 DEF n
<1>9. left \in Seq(Range(lru) \ Range(gone))
  BY <1>8
<1>10. IsInjective(left)
  <2> SUFFICES ASSUME NEW k \in 1 .. n, NEW l \in 1 .. n, left[k] = left[l]
               PROVE  k = l
    BY DEF IsInjective
  <2>1. at[k] = at[l]
    BY <1>5, <1>7 DEF IsInjective, n
  <2> QED
    BY <1>5, <2>1 DEF n
<1>11. Range(left) = Range(lru) \ Range(gone)
  <2>1. ASSUME NEW x \in Range(lru) \ Range(gone) PROVE x \in Range(left)
    <3>1. PICK i \in stays : x = lru[i]
      BY <1>7
    <3>2. Place(i) \in 1 .. n /\ left[Place(i)] = x
      BY <1>6, <3>1 DEF n
    <3> QED
      BY <3>2 DEF Range
  <2>2. ASSUME NEW x \in Range(left) PROVE x \in Range(lru) \ Range(gone)
    BY <1>8, <2>2 DEF Range
  <2> QED
    BY <2>1, <2>2
<1> QED
  BY <1>4, <1>9, <1>10, <1>11 DEF n

-------------------------------------------------------------------------------
(* Eviction.                                                                 *)

\* What the walk of the LRU list may give up: nothing, or one entry whose block
\* no row references.
IsEviction(ev) ==
  \/ ev = <<>>
  \/ \E h \in DOMAIN entries : ev = <<h>> /\ ref_counts[entries[h].block] = 0

\* The cache's invariant, entry by entry.
LEMMA CacheFacts ==
  ASSUME CacheInv
  PROVE  /\ lru \in Seq(DOMAIN entries) /\ IsInjective(lru) /\ Range(lru) = DOMAIN entries
         /\ IsFiniteSet(DOMAIN entries) /\ Cardinality(DOMAIN entries) \in 0 .. 2 * MaxEntries
         /\ \A h \in DOMAIN entries : entries[h].block \in Blocks /\ cached[entries[h].block]
         /\ \A b \in Blocks : cached[b] => \E h \in DOMAIN entries : entries[h].block = b
         /\ \A g, h \in DOMAIN entries : entries[g].block = entries[h].block => g = h
<1>1. /\ lru \in Seq(DOMAIN entries) /\ IsInjective(lru) /\ Range(lru) = DOMAIN entries
      /\ \A h \in DOMAIN entries : entries[h].block \in Blocks
      /\ \A b \in Blocks : cached[b] <=> \E h \in DOMAIN entries : entries[h].block = b
      /\ \A g, h \in DOMAIN entries : entries[g].block = entries[h].block => g = h
      /\ Cardinality(DOMAIN entries) <= 2 * MaxEntries
  BY SameRange DEF CacheInv, CacheTyped, CacheCoherent
<1>2. IsFiniteSet(DOMAIN entries)
  <2>1. Len(lru) \in Nat /\ DOMAIN lru = 1 .. Len(lru)
    BY <1>1, OwnElements
  <2>2. IsFiniteSet(1 .. Len(lru))
    BY <2>1, FS_Interval
  <2>3. lru \in Surjection(1 .. Len(lru), DOMAIN entries)
    <3>1. lru \in [1 .. Len(lru) -> DOMAIN entries]
      BY <1>1, <2>1
    <3>2. \A h \in DOMAIN entries : \E i \in 1 .. Len(lru) : lru[i] = h
      BY <1>1, <2>1 DEF Range
    <3> QED
      BY <3>1, <3>2 DEF Surjection
  <2> QED
    BY <2>2, <2>3, FS_Surjection
<1>3. Cardinality(DOMAIN entries) \in Nat
  BY <1>2, FS_CardinalityType
<1> QED
  BY <1>1, <1>2, <1>3, CacheSizes

\* What the LRU walk gives up is an entry whose block no row references, or nothing.
LEMMA WalkFindsIdle == CacheInv => IsEviction(EvictLRU)
<1> SUFFICES ASSUME CacheInv PROVE IsEviction(EvictLRU)
  OBVIOUS
<1> DEFINE idle == {i \in DOMAIN lru : ref_counts[entries[lru[i]].block] = 0}
<1>1. CASE idle = {}
  BY <1>1 DEF EvictLRU, IsEviction
<1>2. CASE idle # {}
  <2>1. Len(lru) \in Nat /\ DOMAIN lru = 1 .. Len(lru) /\ \A i \in DOMAIN lru : lru[i] \in DOMAIN entries
    BY CacheFacts, OwnElements
  <2>2. idle \subseteq 0 .. Len(lru)
    BY <2>1
  <2>3. \E m \in idle : \A k \in idle : m >= k
    <3> HIDE DEF idle
    <3> QED
      BY <1>2, <2>1, <2>2, GreatestNatural
  <2>4. Max(idle) \in idle
    <3> HIDE DEF idle
    <3> QED
      BY <2>3 DEF Max
  <2>5. EvictLRU = <<lru[Max(idle)]>>
    BY <1>2 DEF EvictLRU
  <2>6. lru[Max(idle)] \in DOMAIN entries /\ ref_counts[entries[lru[Max(idle)]].block] = 0
    BY <2>1, <2>4
  <2> QED
    BY <2>5, <2>6 DEF IsEviction
<1> QED
  BY <1>1, <1>2

\* The blocks of what is evicted are parked, and nothing else of the cache
\* points at them.
LEMMA EvictionFacts ==
  ASSUME CacheInv, NEW ev, IsEviction(ev)
  PROVE  /\ Range(ev) \subseteq DOMAIN entries
         /\ BlocksOf(ev) \in Pool!OneParked
         /\ free_blocks = <<>> \/ ev = <<>> => BlocksOf(ev) \in Pool!Evictions(1)
         /\ \A h \in DOMAIN entries : entries[h].block \in Range(BlocksOf(ev)) <=> h \in Range(ev)
         /\ \A h \in Range(ev) : ref_counts[entries[h].block] = 0
<1> USE SameSets, SameRange
<1>1. CASE ev = <<>>
  <2>1. BlocksOf(ev) = <<>> /\ Range(ev) = {} /\ Range(BlocksOf(ev)) = {}
    BY <1>1 DEF BlocksOf, Range
  <2>2. <<>> \in Pool!Evictions(1)
    <3>1. PoolView
      BY PoolFacts DEF CacheInv
    <3>2. Len(free_blocks) \in Nat
      BY <3>1, LenProperties DEF PoolView
    <3>3. IsInjective(<<>>) /\ <<>> \in [1 .. 0 -> Pool!Parked]
      BY DEF IsInjective
    <3>4. CASE 1 - Len(free_blocks) <= 0
      BY <3>4 DEF Pool!Evictions
    <3>5. CASE ~(1 - Len(free_blocks) <= 0)
      BY <3>2, <3>3, <3>5 DEF Pool!Evictions
    <3> QED
      BY <3>4, <3>5
  <2> QED
    BY <2>1, <2>2 DEF Pool!OneParked
<1>2. ASSUME NEW h \in DOMAIN entries, ev = <<h>>, ref_counts[entries[h].block] = 0
      PROVE  /\ Range(ev) \subseteq DOMAIN entries
             /\ BlocksOf(ev) \in Pool!OneParked
             /\ free_blocks = <<>> => BlocksOf(ev) \in Pool!Evictions(1)
             /\ \A g \in DOMAIN entries :
                  entries[g].block \in Range(BlocksOf(ev)) <=> g \in Range(ev)
             /\ \A g \in Range(ev) : ref_counts[entries[g].block] = 0
  <2> DEFINE b == entries[h].block
  <2>1. BlocksOf(ev) = <<b>>
    BY <1>2 DEF BlocksOf
  <2>2. Range(ev) = {h} /\ Range(<<b>>) = {b}
    BY <1>2 DEF Range
  <2>3. b \in Pool!Parked
    BY <1>2, CacheFacts DEF Pool!Parked
  <2>4. free_blocks = <<>> => <<b>> \in Pool!Evictions(1)
    <3>1. IsInjective(<<b>>) /\ <<b>> \in [1 .. 1 -> Pool!Parked]
      BY <2>3 DEF IsInjective
    <3> QED
      BY <3>1 DEF Pool!Evictions
  <2>5. \A g \in DOMAIN entries : entries[g].block = b => g = h
    BY CacheFacts
  <2> HIDE DEF b
  <2>6. BlocksOf(ev) \in Pool!OneParked
    BY <2>1, <2>3 DEF Pool!OneParked
  <2> QED
    BY <1>2, <2>1, <2>2, <2>4, <2>5, <2>6 DEF b
<1> QED
  BY <1>1, <1>2 DEF IsEviction

\* What is left after an eviction is coherent with the pins that are left.
LEMMA LeftFacts ==
  ASSUME CacheInv, NEW ev, IsEviction(ev)
  PROVE  /\ DOMAIN Without(ev) = DOMAIN entries \ Range(ev)
         /\ \A h \in DOMAIN Without(ev) : Without(ev)[h] = entries[h]
         /\ Unlinked(ev) \in Seq(DOMAIN Without(ev))
         /\ IsInjective(Unlinked(ev)) /\ Range(Unlinked(ev)) = DOMAIN Without(ev)
         /\ IsFiniteSet(DOMAIN Without(ev))
         /\ Cardinality(DOMAIN Without(ev)) \in Nat
         /\ ev = <<>> => Cardinality(DOMAIN Without(ev)) = Cardinality(DOMAIN entries)
         /\ ev # <<>> => Cardinality(DOMAIN Without(ev)) = Cardinality(DOMAIN entries) - 1
<1>1. /\ DOMAIN Without(ev) = DOMAIN entries \ Range(ev)
      /\ \A h \in DOMAIN Without(ev) : Without(ev)[h] = entries[h]
  BY DEF Without
<1>2. /\ Unlinked(ev) \in Seq(DOMAIN Without(ev))
      /\ IsInjective(Unlinked(ev)) /\ Range(Unlinked(ev)) = DOMAIN Without(ev)
  <2>1. lru \in Seq(DOMAIN entries) /\ IsInjective(lru) /\ Range(lru) = DOMAIN entries
    BY CacheFacts
  <2> QED
    BY <1>1, <2>1, UnlinkedFacts
<1>3. /\ IsFiniteSet(DOMAIN Without(ev)) /\ Cardinality(DOMAIN Without(ev)) \in Nat
      /\ ev = <<>> => Cardinality(DOMAIN Without(ev)) = Cardinality(DOMAIN entries)
      /\ ev # <<>> => Cardinality(DOMAIN Without(ev)) = Cardinality(DOMAIN entries) - 1
  <2>1. IsFiniteSet(DOMAIN entries) /\ Cardinality(DOMAIN entries) \in Nat
    BY CacheFacts
  <2>2. CASE ev = <<>>
    <3>0. Range(<<>>) = {}
      BY DEF Range
    <3>1. DOMAIN entries \ Range(ev) = DOMAIN entries
      BY <2>2, <3>0
    <3> QED
      BY <1>1, <2>1, <2>2, <3>1
  <2>3. ASSUME NEW h \in DOMAIN entries, ev = <<h>>
        PROVE  /\ IsFiniteSet(DOMAIN entries \ Range(ev))
               /\ Cardinality(DOMAIN entries \ Range(ev)) = Cardinality(DOMAIN entries) - 1
    <3>1. Range(ev) = {h}
      BY <2>3 DEF Range
    <3> QED
      BY <2>1, <3>1, FS_RemoveElement
  <2>4. CASE ev # <<>>
    <3>1. /\ IsFiniteSet(DOMAIN entries \ Range(ev))
          /\ Cardinality(DOMAIN entries \ Range(ev)) = Cardinality(DOMAIN entries) - 1
      BY <2>3, <2>4 DEF IsEviction
    <3>2. IsFiniteSet(DOMAIN Without(ev)) /\ Cardinality(DOMAIN Without(ev)) \in Nat
      BY <1>1, <3>1, FS_CardinalityType
    <3> QED
      BY <1>1, <2>4, <3>1, <3>2
  <2> QED
    BY <2>2, <2>4
<1> QED
  BY <1>1, <1>2, <1>3

\* The pins an eviction leaves are those of the entries it leaves.
LEMMA PinsLeft ==
  ASSUME CacheInv, NEW ev, IsEviction(ev), NEW b \in Blocks
  PROVE  cached[b] /\ b \notin Range(BlocksOf(ev))
           <=> \E h \in DOMAIN Without(ev) : entries[h].block = b
<1>1. DOMAIN Without(ev) = DOMAIN entries \ Range(ev)
  BY LeftFacts
<1> QED
  BY <1>1, CacheFacts, EvictionFacts

\* The cache's invariant again, from its parts.
LEMMA CoherentNext ==
  ASSUME PoolInv',
         lru' \in Seq(DOMAIN entries'), IsInjective(lru'), Range(lru') = DOMAIN entries',
         \A h \in DOMAIN entries' : entries'[h].block \in Blocks,
         \A b \in Blocks : cached'[b] <=> \E h \in DOMAIN entries' : entries'[h].block = b,
         \A g, h \in DOMAIN entries' : entries'[g].block = entries'[h].block => g = h,
         Cardinality(DOMAIN entries') <= 2 * MaxEntries
  PROVE  CacheInv'
BY SameRange DEF CacheInv, CacheTyped, CacheCoherent, Blocks, Pool!Blocks

-------------------------------------------------------------------------------
(* The effects.  Each is a move of the pool, or leaves it alone, and keeps   *)
(* the pins of the pool the entries of the cache.                            *)

\* A row grows by a block, which may have been evicted for it.
LEMMA AppendBlockKeeps ==
  ASSUME CacheInv, NEW row \in Rows, AppendBlock(row)
  PROVE  Pool!Next /\ CacheInv'
<1> DEFINE ev == Reclaimed
<1>1. IsEviction(ev) /\ (free_blocks = <<>> \/ ev = <<>>)
  BY WalkFindsIdle DEF Reclaimed, IsEviction
<1>2. Pool!AppendBlocks(row, 1, BlocksOf(ev)) /\ entries' = Without(ev) /\ lru' = Unlinked(ev)
  BY DEF AppendBlock
<1> HIDE DEF ev
<1>3. BlocksOf(ev) \in Pool!Evictions(1)
  BY <1>1, EvictionFacts
<1>4. 1 \in 1 .. MaxBlocksPerSeq
  <2>1. Len(block_tables[row]) \in 0 .. MaxBlocksPerSeq
    BY PoolFacts DEF CacheInv, PoolView
  <2> QED
    BY <1>2, <2>1, CacheSizes DEF Pool!AppendBlocks
<1>5. Pool!Next
  BY <1>2, <1>3, <1>4, SameSets DEF Pool!Next
<1>6. PoolInv'
  BY <1>5, PoolMoves DEF CacheInv
<1>7. \A b \in Blocks : cached'[b] <=> cached[b] /\ b \notin Range(BlocksOf(ev))
  BY <1>2, SameSets, SameRange DEF Pool!AppendBlocks, Pool!Unpin
<1>8. /\ \A h \in DOMAIN entries' : h \in DOMAIN entries /\ entries'[h] = entries[h]
      /\ lru' \in Seq(DOMAIN entries') /\ IsInjective(lru') /\ Range(lru') = DOMAIN entries'
      /\ Cardinality(DOMAIN entries') <= Cardinality(DOMAIN entries)
      /\ Cardinality(DOMAIN entries') \in Nat
      /\ \A b \in Blocks : cached'[b] <=> \E h \in DOMAIN entries' : entries'[h].block = b
  <2> DEFINE left == Without(ev)
             list == Unlinked(ev)
  <2>1. DOMAIN left = DOMAIN entries \ Range(ev) /\ \A h \in DOMAIN left : left[h] = entries[h]
    BY <1>1, LeftFacts
  <2>2. list \in Seq(DOMAIN left) /\ IsInjective(list) /\ Range(list) = DOMAIN left
    BY <1>1, LeftFacts
  <2>3. /\ Cardinality(DOMAIN left) \in Nat
        /\ ev = <<>> => Cardinality(DOMAIN left) = Cardinality(DOMAIN entries)
        /\ ev # <<>> => Cardinality(DOMAIN left) = Cardinality(DOMAIN entries) - 1
    BY <1>1, LeftFacts
  <2>4. Cardinality(DOMAIN entries) \in 0 .. 2 * MaxEntries
    BY CacheFacts
  <2>5. \A b \in Blocks : cached[b] /\ b \notin Range(BlocksOf(ev))
                          <=> \E h \in DOMAIN left : entries[h].block = b
    BY <1>1, PinsLeft
  <2>6. entries' = left /\ lru' = list
    BY <1>2
  <2> HIDE DEF left, list
  <2>7. Cardinality(DOMAIN left) <= Cardinality(DOMAIN entries)
    BY <2>3, <2>4, CacheSizes
  <2> QED
    BY <1>7, <2>1, <2>2, <2>3, <2>5, <2>6, <2>7
<1>9. /\ \A h \in DOMAIN entries' : entries'[h].block \in Blocks
      /\ \A g, h \in DOMAIN entries' : entries'[g].block = entries'[h].block => g = h
      /\ Cardinality(DOMAIN entries') <= 2 * MaxEntries
  BY <1>8, CacheFacts, CacheSizes
<1> QED
  BY <1>5, <1>6, <1>8, <1>9, CoherentNext

\* A block some row holds is recorded, unless its hash is taken or the cache is
\* full.  The caller sees to it that no other entry has the block already.
LEMMA InsertBlockKeeps ==
  ASSUME CacheInv, NEW h, NEW prev, NEW tokens, NEW block \in Blocks,
         ref_counts[block] # 0,
         \A g \in DOMAIN entries : entries[g].block = block => g = h,
         InsertBlock(h, prev, tokens, block)
  PROVE  (Pool!Next \/ UNCHANGED pool_vars) /\ CacheInv'
<1> DEFINE full == Cardinality(DOMAIN entries) >= MaxEntries
           ev == IF full THEN EvictLRU ELSE <<>>
           room == ev # <<>> \/ Cardinality(DOMAIN entries) < HardMaxEntries
           entry == [prev |-> prev, tokens |-> tokens, block |-> block]
<1>1. CASE UNCHANGED cache_vars
  <2>1. UNCHANGED pool_vars /\ entries' = entries /\ lru' = lru
    BY <1>1 DEF cache_vars
  <2>2. PoolInv'
    BY <2>1, PoolMoves DEF CacheInv
  <2>3. cached' = cached
    BY <2>1 DEF pool_vars
  <2> QED
    BY <2>1, <2>2, <2>3, CacheFacts, CoherentNext
<1>2. ASSUME h \notin DOMAIN entries, room,
             Pool!MarkCached(block, BlocksOf(ev)),
             entries' = [g \in DOMAIN Without(ev) \cup {h} |-> IF g = h THEN entry ELSE entries[g]],
             lru' = <<h>> \o Unlinked(ev)
      PROVE  Pool!Next /\ CacheInv'
  <2>1. IsEviction(ev)
    BY WalkFindsIdle DEF IsEviction
  <2>2. ev # <<>> \/ Cardinality(DOMAIN entries) < 2 * MaxEntries
    BY <1>2 DEF HardMaxEntries
  <2>3. entry.block = block
    OBVIOUS
  <2> HIDE DEF ev, entry
  <2>4. Pool!Next
    BY <1>2, <2>1, EvictionFacts, SameSets DEF Pool!Next
  <2>5. PoolInv'
    BY <2>4, PoolMoves DEF CacheInv
  <2>6. \A b \in Blocks : cached'[b] <=> b = block \/ (cached[b] /\ b \notin Range(BlocksOf(ev)))
    BY <1>2, SameSets, SameRange DEF Pool!MarkCached
  <2>7. /\ DOMAIN entries' = DOMAIN Without(ev) \cup {h}
        /\ h \notin DOMAIN Without(ev)
        /\ entries'[h] = entry
        /\ \A g \in DOMAIN Without(ev) : g \in DOMAIN entries /\ entries'[g] = entries[g]
    <3>1. DOMAIN Without(ev) = DOMAIN entries \ Range(ev)
      BY <2>1, LeftFacts
    <3> QED
      BY <1>2, <3>1
  <2>8. /\ \A b \in Blocks : cached'[b] <=> \E g \in DOMAIN entries' : entries'[g].block = b
        /\ \A g \in DOMAIN entries' : entries'[g].block \in Blocks
        /\ \A f, g \in DOMAIN entries' : entries'[f].block = entries'[g].block => f = g
    <3>1. \A b \in Blocks :
            cached[b] /\ b \notin Range(BlocksOf(ev))
              <=> \E g \in DOMAIN Without(ev) : entries[g].block = b
      BY <2>1, PinsLeft
    <3>2. \A g \in DOMAIN entries : entries[g].block # block
      BY <1>2
    <3>3. \A g \in DOMAIN entries : entries[g].block \in Blocks
      BY CacheFacts
    <3>4. \A f, g \in DOMAIN entries : entries[f].block = entries[g].block => f = g
      BY CacheFacts
    <3> QED
      BY <2>3, <2>6, <2>7, <3>1, <3>2, <3>3, <3>4
  <2>9. lru' \in Seq(DOMAIN entries') /\ IsInjective(lru') /\ Range(lru') = DOMAIN entries'
    <3> DEFINE rest == Unlinked(ev)
    <3>1. rest \in Seq(DOMAIN Without(ev)) /\ IsInjective(rest) /\ Range(rest) = DOMAIN Without(ev)
      BY <2>1, LeftFacts
    <3> HIDE DEF rest
    <3>2. PICK keys : keys = DOMAIN Without(ev) \cup {h}
      OBVIOUS
    <3>3. rest \in Seq(keys) /\ Range(rest) \cap {h} = {}
      BY <2>7, <3>1, <3>2, SeqMonotonic
    <3>4. PICK head : head = <<h>>
      OBVIOUS
    <3>5. head \in Seq(keys) /\ IsInjective(head) /\ Range(head) = {h}
      BY <3>2, <3>4 DEF IsInjective, Range
    <3>6. head \o rest \in Seq(keys)
      BY <3>3, <3>5, ConcatProperties
    <3>7. IsInjective(head \o rest)
      BY <3>1, <3>3, <3>5, ConcatInjective
    <3>8. Range(head \o rest) = keys
      <4>1. Range(head \o rest) = Range(head) \cup Range(rest)
        BY <3>3, <3>5, ConcatRange
      <4> QED
        BY <3>1, <3>2, <3>5, <4>1
    <3>9. lru' = head \o rest /\ DOMAIN entries' = keys
      BY <1>2, <2>7, <3>2, <3>4 DEF rest
    <3> QED
      BY <3>6, <3>7, <3>8, <3>9
  <2>10. Cardinality(DOMAIN entries') <= 2 * MaxEntries
    <3>1. /\ IsFiniteSet(DOMAIN Without(ev)) /\ Cardinality(DOMAIN Without(ev)) \in Nat
          /\ ev = <<>> => Cardinality(DOMAIN Without(ev)) = Cardinality(DOMAIN entries)
          /\ ev # <<>> => Cardinality(DOMAIN Without(ev)) = Cardinality(DOMAIN entries) - 1
      BY <2>1, LeftFacts
    <3>2. Cardinality(DOMAIN Without(ev) \cup {h}) = Cardinality(DOMAIN Without(ev)) + 1
      BY <2>7, <3>1, FS_AddElement
    <3>3. Cardinality(DOMAIN entries) \in 0 .. 2 * MaxEntries
      BY CacheFacts
    <3> QED
      BY <2>2, <2>7, <3>1, <3>2, <3>3, CacheSizes
  <2> QED
    BY <2>4, <2>5, <2>8, <2>9, <2>10, CoherentNext
<1> QED
  BY <1>1, <1>2 DEF InsertBlock

\* A match is mounted in front of a row, or there is none.
LEMMA MountMatchKeeps ==
  ASSUME CacheInv, NEW row \in Rows, NEW chain \in Seq(DOMAIN entries),
         MountMatch(row, chain)
  PROVE  (Pool!Next \/ UNCHANGED pool_vars) /\ CacheInv'
<1> DEFINE blocks == BlocksOf(chain)
           rest == Unlinked(chain)
<1>1. /\ Len(chain) \in Nat /\ DOMAIN chain = 1 .. Len(chain)
      /\ \A i \in 1 .. Len(chain) : chain[i] \in DOMAIN entries
      /\ Range(chain) \subseteq DOMAIN entries
  BY OwnElements
<1>2. entries' = entries /\ lru' = Reverse(chain) \o rest
  BY DEF MountMatch, Touched
<1>3. ASSUME chain # <<>>
      PROVE  Pool!Next /\ IsInjective(chain) /\ cached' = cached
  <2>1. Pool!ReserveSharedPrefix(row, blocks)
    BY <1>3 DEF MountMatch
  <2>2. /\ DOMAIN blocks = 1 .. Len(chain)
        /\ \A i \in 1 .. Len(chain) : blocks[i] = entries[chain[i]].block
    BY <1>1 DEF BlocksOf
  <2>3. /\ IsInjective(blocks)
        /\ Len(blocks) > 0 /\ Len(block_tables[row]) + Len(blocks) <= MaxBlocksPerSeq
        /\ Range(blocks) \subseteq Pool!Mountable
        /\ cached' = cached
    BY <2>1, SameRange DEF Pool!ReserveSharedPrefix, Pool!CanMount
  <2> HIDE DEF blocks
  <2>4. Len(blocks) = Len(chain)
    BY <1>1, <2>2
  <2>5. IsInjective(chain)
    BY <1>1, <2>2, <2>3 DEF IsInjective
  <2>6. blocks \in Pool!Mounts(row)
    <3>1. blocks \in [1 .. Len(chain) -> Pool!Mountable]
      <4>1. blocks = [i \in 1 .. Len(chain) |-> blocks[i]]
        BY <2>2 DEF blocks, BlocksOf
      <4>2. \A i \in 1 .. Len(chain) : blocks[i] \in Pool!Mountable
        BY <2>2, <2>3 DEF Range
      <4> QED
        BY <4>1, <4>2
    <3>2. Len(block_tables[row]) \in 0 .. MaxBlocksPerSeq
      BY PoolFacts DEF CacheInv, PoolView
    <3>3. Len(chain) \in 1 .. MaxBlocksPerSeq
      BY <1>1, <2>3, <2>4, <3>2, CacheSizes
    <3> QED
      BY <3>1, <3>3 DEF Pool!Mounts
  <2>7. Pool!Next
    BY <2>1, <2>6, SameSets DEF Pool!Next
  <2> QED
    BY <2>3, <2>5, <2>7
<1>4. ASSUME chain = <<>>
      PROVE  UNCHANGED pool_vars /\ IsInjective(chain) /\ cached' = cached
  <2>1. UNCHANGED pool_vars
    BY <1>4 DEF MountMatch
  <2>2. IsInjective(<<>>)
    BY DEF IsInjective
  <2> QED
    BY <1>4, <2>1, <2>2 DEF pool_vars
<1>5. (Pool!Next \/ UNCHANGED pool_vars) /\ IsInjective(chain) /\ cached' = cached
  BY <1>3, <1>4
<1>6. PoolInv'
  BY <1>5, PoolMoves DEF CacheInv
<1>7. lru' \in Seq(DOMAIN entries') /\ IsInjective(lru') /\ Range(lru') = DOMAIN entries'
  <2> DEFINE front == Reverse(chain)
  <2>1. PICK keys : keys = DOMAIN entries
    OBVIOUS
  <2>2. front \in Seq(keys) /\ IsInjective(front) /\ Range(front) = Range(chain)
    BY <1>5, <2>1, Reversed DEF Reverse
  <2>3. /\ rest \in Seq(keys) /\ IsInjective(rest)
        /\ Range(rest) = keys \ Range(chain)
    <3>1. lru \in Seq(keys) /\ IsInjective(lru) /\ Range(lru) = keys
      BY <2>1, CacheFacts
    <3>2. /\ rest \in Seq(keys \ Range(chain)) /\ IsInjective(rest)
          /\ Range(rest) = keys \ Range(chain)
      BY <3>1, UnlinkedFacts
    <3> HIDE DEF rest
    <3> QED
      BY <3>2, SeqMonotonic
  <2> HIDE DEF front, rest
  <2>4. front \o rest \in Seq(keys)
    BY <2>2, <2>3, ConcatProperties
  <2>5. IsInjective(front \o rest)
    BY <2>2, <2>3, ConcatInjective
  <2>6. Range(front \o rest) = Range(front) \cup Range(rest)
    BY <2>2, <2>3, ConcatRange
  <2> QED
    BY <1>1, <1>2, <2>1, <2>2, <2>3, <2>4, <2>5, <2>6 DEF front
<1>8. /\ \A h \in DOMAIN entries' : entries'[h].block \in Blocks
      /\ \A b \in Blocks : cached'[b] <=> \E h \in DOMAIN entries' : entries'[h].block = b
      /\ \A g, h \in DOMAIN entries' : entries'[g].block = entries'[h].block => g = h
      /\ Cardinality(DOMAIN entries') <= 2 * MaxEntries
  <2>1. entries' = entries /\ cached' = cached
    BY <1>2, <1>5
  <2>2. /\ \A h \in DOMAIN entries : entries[h].block \in Blocks
        /\ \A b \in Blocks : cached[b] <=> \E h \in DOMAIN entries : entries[h].block = b
        /\ \A g, h \in DOMAIN entries : entries[g].block = entries[h].block => g = h
        /\ Cardinality(DOMAIN entries) <= 2 * MaxEntries
    BY SameSets DEF CacheInv, CacheTyped, CacheCoherent
  <2> QED
    BY <2>1, <2>2
<1> QED
  BY <1>5, <1>6, <1>7, <1>8, CoherentNext

\* A move of the pool that pins and unpins nothing leaves the cache coherent.
LEMMA PoolMoveKeeps ==
  ASSUME CacheInv, Pool!Next \/ UNCHANGED pool_vars, cached' = cached,
         entries' = entries, lru' = lru
  PROVE  CacheInv'
<1>1. PoolInv'
  BY PoolMoves DEF CacheInv
<1>2. (CacheTyped /\ CacheCoherent)'
  BY DEF CacheInv, CacheTyped, CacheCoherent, Blocks, Pool!Blocks
<1> QED
  BY <1>1, <1>2 DEF CacheInv

\* A row is claimed without blocks.
LEMMA ClaimKeeps ==
  ASSUME CacheInv, Pool!AllocateBlocks(0, <<>>), entries' = entries, lru' = lru
  PROVE  Pool!Next /\ CacheInv'
<1>1. PoolView
  BY PoolFacts DEF CacheInv
<1>2. <<>> \in Pool!Evictions(0)
  <2>1. Len(free_blocks) \in Nat
    BY <1>1, LenProperties DEF PoolView
  <2> QED
    BY <2>1 DEF Pool!Evictions
<1>3. Pool!Next
  BY <1>2, CacheSizes DEF Pool!Next
<1>4. cached' = cached
  <2>1. cached' = [b \in Blocks |-> cached[b] /\ b \notin Range(<<>>)]
    BY SameSets, SameRange DEF Pool!AllocateBlocks, Pool!Unpin
  <2>2. Range(<<>>) = {}
    BY DEF Range
  <2> QED
    BY <1>1, <2>1, <2>2 DEF PoolView
<1> QED
  BY <1>3, <1>4, PoolMoveKeeps

\* A row gives up its blocks from one of them on.
LEMMA ReleaseKeeps ==
  ASSUME CacheInv, NEW row \in Rows, NEW start, Pool!FreeBlocksFrom(row, start),
         entries' = entries, lru' = lru
  PROVE  Pool!Next /\ CacheInv'
<1>1. PoolView
  BY PoolFacts DEF CacheInv
<1>2. start \in 0 .. Len(block_tables[row]) /\ cached' = cached
  BY DEF Pool!FreeBlocksFrom
<1>3. start \in 0 .. MaxBlocksPerSeq
  BY <1>1, <1>2, CacheSizes DEF PoolView
<1>4. Pool!Next
  BY <1>3, SameSets DEF Pool!Next
<1> QED
  BY <1>2, <1>4, PoolMoveKeeps

-------------------------------------------------------------------------------
(* What the effects leave in place, table entry by table entry.              *)

\* A grown table keeps its blocks, and the new one was nobody's and is not pinned.
LEMMA AppendBlockFacts ==
  ASSUME CacheInv, NEW row \in Rows, AppendBlock(row)
  PROVE  LET was == block_tables[row]
             is == block_tables'[row]
         IN  /\ row_busy' = row_busy
             /\ \A r \in Rows \ {row} : block_tables'[r] = block_tables[r]
             /\ Len(was) <= Len(is) /\ \A i \in 1 .. Len(was) : is[i] = was[i]
             /\ \A i \in Len(was) + 1 .. Len(is) :
                  /\ is[i] \in Blocks /\ ~cached'[is[i]]
                  /\ \A r \in Rows : \A j \in 1 .. Len(block_tables[r]) : block_tables[r][j] # is[i]
             /\ \A b \in Blocks : cached'[b] => cached[b]
             /\ \A b \in Blocks : cached[b] /\ ref_counts[b] # 0 => cached'[b]
             /\ \A h \in DOMAIN entries' : h \in DOMAIN entries /\ entries'[h] = entries[h]
<1> DEFINE ev == Reclaimed
           blocks == BlocksOf(ev)
           was == block_tables[row]
           is == block_tables'[row]
<1>1. IsEviction(ev) /\ (free_blocks = <<>> \/ ev = <<>>)
  BY WalkFindsIdle DEF Reclaimed, IsEviction
<1>2. Pool!AppendBlocks(row, 1, blocks) /\ entries' = Without(ev)
  BY DEF AppendBlock
<1> HIDE DEF ev, blocks
<1>3. blocks \in Pool!Evictions(1)
  BY <1>1, EvictionFacts DEF blocks
<1>4. /\ row \in PP!Rows /\ blocks \in PP!Evictions(1) /\ PP!AppendBlocks(row, 1, blocks)
      /\ PP!IInv /\ PP!PoolSizes /\ 1 \in Nat
  BY <1>2, <1>3, SameSets, SameOperations, SameInv, PoolSized DEF CacheInv
<1>5. /\ row_busy' = row_busy
      /\ \A r \in PP!Rows \ {row} : block_tables'[r] = block_tables[r]
      /\ Len(was) <= Len(is) /\ \A i \in 1 .. Len(was) : is[i] = was[i]
      /\ \A i \in Len(was) + 1 .. Len(is) :
           is[i] \in PP!Blocks /\ PP!Holders(is[i]) = {} /\ ~cached'[is[i]]
      /\ cached' = [b \in PP!Blocks |-> cached[b] /\ b \notin PP!Range(blocks)]
  BY <1>4, PP!GrowthFacts
<1>6. ASSUME NEW b, PP!Holders(b) = {}, NEW r \in Rows, NEW j \in 1 .. Len(block_tables[r])
      PROVE  block_tables[r][j] # b
  <2>1. DOMAIN block_tables[r] = 1 .. Len(block_tables[r])
    BY PoolFacts DEF CacheInv, PoolView
  <2>2. r \in PP!Rows /\ r \notin PP!Holders(b)
    BY <1>6, SameSets
  <2>3. b \notin Range(block_tables[r])
    BY <2>2, SameRange DEF PP!Holders
  <2> QED
    BY <2>1, <2>3 DEF Range
<1>7. \A b \in Blocks : cached'[b] <=> cached[b] /\ b \notin Range(blocks)
  BY <1>5, SameSets, SameRange
<1>8. \A b \in Range(blocks) : ref_counts[b] = 0
  <2>1. /\ \A h \in Range(ev) : ref_counts[entries[h].block] = 0
        /\ DOMAIN blocks = DOMAIN ev
        /\ \A i \in DOMAIN ev : blocks[i] = entries[ev[i]].block
    BY <1>1, EvictionFacts DEF blocks, BlocksOf
  <2> QED
    BY <2>1 DEF Range
<1>9. \A h \in DOMAIN entries' : h \in DOMAIN entries /\ entries'[h] = entries[h]
  BY <1>2 DEF Without
<1>10. \A i \in Len(was) + 1 .. Len(is) :
         /\ is[i] \in Blocks /\ ~cached'[is[i]]
         /\ \A r \in Rows : \A j \in 1 .. Len(block_tables[r]) : block_tables[r][j] # is[i]
  BY <1>5, <1>6, SameSets
<1>11. /\ \A b \in Blocks : cached'[b] => cached[b]
       /\ \A b \in Blocks : cached[b] /\ ref_counts[b] # 0 => cached'[b]
  BY <1>7, <1>8
<1>12. \A r \in Rows \ {row} : block_tables'[r] = block_tables[r]
  BY <1>5, SameSets
<1>13. /\ row_busy' = row_busy
       /\ Len(was) <= Len(is) /\ \A i \in 1 .. Len(was) : is[i] = was[i]
  BY <1>5
<1> QED
  BY <1>9, <1>10, <1>11, <1>12, <1>13

\* An insertion moves no block; it pins its own block and unpins only idle ones.
LEMMA InsertBlockFacts ==
  ASSUME CacheInv, NEW h, NEW prev, NEW tokens, NEW block \in Blocks,
         ref_counts[block] # 0, InsertBlock(h, prev, tokens, block)
  PROVE  /\ row_busy' = row_busy /\ block_tables' = block_tables
         /\ \A b \in Blocks : cached'[b] => cached[b] \/ b = block
         /\ \A b \in Blocks : cached[b] /\ ref_counts[b] # 0 => cached'[b]
         /\ \A g \in DOMAIN entries' :
              \/ g \in DOMAIN entries /\ entries'[g] = entries[g]
              \/ g = h /\ h \notin DOMAIN entries /\ entries'[g].block = block
<1> DEFINE full == Cardinality(DOMAIN entries) >= MaxEntries
           ev == IF full THEN EvictLRU ELSE <<>>
           blocks == BlocksOf(ev)
           entry == [prev |-> prev, tokens |-> tokens, block |-> block]
<1>1. CASE UNCHANGED cache_vars
  BY <1>1 DEF cache_vars, pool_vars
<1>2. ASSUME h \notin DOMAIN entries,
             Pool!MarkCached(block, blocks),
             entries' = [g \in DOMAIN Without(ev) \cup {h} |-> IF g = h THEN entry ELSE entries[g]]
      PROVE  /\ row_busy' = row_busy /\ block_tables' = block_tables
             /\ \A b \in Blocks : cached'[b] => cached[b] \/ b = block
             /\ \A b \in Blocks : cached[b] /\ ref_counts[b] # 0 => cached'[b]
             /\ \A g \in DOMAIN entries' :
                  \/ g \in DOMAIN entries /\ entries'[g] = entries[g]
                  \/ g = h /\ entries'[g].block = block
  <2>1. IsEviction(ev)
    BY WalkFindsIdle DEF IsEviction
  <2>2. entry.block = block
    OBVIOUS
  <2> HIDE DEF ev, entry, blocks
  <2>3. /\ row_busy' = row_busy /\ block_tables' = block_tables
        /\ \A b \in Blocks : cached'[b] <=> b = block \/ (cached[b] /\ b \notin Range(blocks))
    BY <1>2, SameSets, SameRange DEF Pool!MarkCached
  <2>4. \A b \in Range(blocks) : ref_counts[b] = 0
    <3>1. /\ \A g \in Range(ev) : ref_counts[entries[g].block] = 0
          /\ DOMAIN blocks = DOMAIN ev
          /\ \A i \in DOMAIN ev : blocks[i] = entries[ev[i]].block
      BY <2>1, EvictionFacts DEF blocks, BlocksOf
    <3> QED
      BY <3>1 DEF Range
  <2>5. \A g \in DOMAIN entries' :
          \/ g \in DOMAIN entries /\ entries'[g] = entries[g]
          \/ g = h /\ entries'[g].block = block
    BY <1>2, <2>2 DEF Without
  <2> QED
    BY <2>3, <2>4, <2>5
<1> QED
  BY <1>1, <1>2 DEF InsertBlock

\* A mounted table is the blocks of the match.
LEMMA MountMatchFacts ==
  ASSUME CacheInv, NEW row \in Rows, block_tables[row] = <<>>,
         NEW chain \in Seq(DOMAIN entries), MountMatch(row, chain)
  PROVE  /\ row_busy' = row_busy /\ cached' = cached /\ entries' = entries
         /\ free_blocks' = free_blocks
         /\ \A r \in Rows \ {row} : block_tables'[r] = block_tables[r]
         /\ Len(block_tables'[row]) = Len(chain)
         /\ \A i \in 1 .. Len(chain) : block_tables'[row][i] = entries[chain[i]].block
<1> DEFINE blocks == BlocksOf(chain)
<1>0. PoolView
  BY PoolFacts DEF CacheInv
<1>1. CASE chain = <<>>
  BY <1>1 DEF MountMatch, pool_vars
<1>2. CASE chain # <<>>
  <2>1. /\ Len(chain) \in Nat /\ DOMAIN chain = 1 .. Len(chain)
        /\ \A i \in 1 .. Len(chain) : chain[i] \in DOMAIN entries
    BY OwnElements
  <2>2. /\ blocks \in [1 .. Len(chain) -> Blocks]
        /\ \A i \in 1 .. Len(chain) : blocks[i] = entries[chain[i]].block
    BY <2>1, CacheFacts DEF BlocksOf
  <2>3. /\ row_busy' = row_busy /\ cached' = cached /\ free_blocks' = free_blocks
        /\ block_tables' = [block_tables EXCEPT ![row] = blocks \o block_tables[row]]
    BY <1>2 DEF MountMatch, Pool!ReserveSharedPrefix
  <2> HIDE DEF blocks
  <2>4. blocks \in Seq(Blocks) /\ Len(blocks) = Len(chain)
    BY <2>1, <2>2
  <2>5. blocks \o <<>> = blocks
    BY <2>4
  <2>6. block_tables' = [block_tables EXCEPT ![row] = blocks]
    BY <2>3, <2>5
  <2>7. block_tables'[row] = blocks /\ \A r \in Rows \ {row} : block_tables'[r] = block_tables[r]
    BY <1>0, <2>6 DEF PoolView
  <2>8. entries' = entries
    BY DEF MountMatch
  <2> QED
    BY <2>2, <2>3, <2>4, <2>7, <2>8
<1> QED
  BY <1>1, <1>2

\* A claim takes the first free row and nothing else.
LEMMA ClaimFacts ==
  ASSUME CacheInv, Pool!AllocateBlocks(0, <<>>)
  PROVE  /\ cached' = cached /\ block_tables' = block_tables
         /\ Range(free_blocks') = Range(free_blocks)
         /\ \E row \in Rows : /\ Pool!IsFirstFreeRow(row) /\ ~row_busy[row]
                             /\ row_busy' = [row_busy EXCEPT ![row] = TRUE]
<1>1. PoolView
  BY PoolFacts DEF CacheInv
<1>2. PICK row \in Rows :
        /\ Pool!IsFirstFreeRow(row) /\ Pool!Unpin(<<>>)
        /\ \/ Pool!Take(row, free_blocks \o <<>>, 0) /\ row_busy' = [row_busy EXCEPT ![row] = TRUE]
           \/ Len(free_blocks \o <<>>) < 0
  BY SameSets DEF Pool!AllocateBlocks
<1>3. free_blocks \o <<>> = free_blocks /\ Len(free_blocks) \in Nat
  BY <1>1, LenProperties DEF PoolView
<1>4. Pool!Take(row, free_blocks, 0) /\ row_busy' = [row_busy EXCEPT ![row] = TRUE]
  BY <1>2, <1>3
<1>5. ~row_busy[row]
  BY <1>2 DEF Pool!IsFirstFreeRow
<1>6. cached' = cached
  <2>1. cached' = [b \in Blocks |-> cached[b] /\ b \notin Range(<<>>)]
    BY <1>2, SameSets, SameRange DEF Pool!Unpin
  <2>2. Range(<<>>) = {}
    BY DEF Range
  <2> QED
    BY <1>1, <2>1, <2>2 DEF PoolView
<1>7. block_tables' = block_tables
  <2>1. Pool!Popped(free_blocks, 0) = <<>>
    BY DEF Pool!Popped
  <2>2. block_tables' = [block_tables EXCEPT ![row] = @ \o <<>>]
    BY <1>4, <2>1 DEF Pool!Take
  <2>3. block_tables[row] \o <<>> = block_tables[row]
    BY <1>1 DEF PoolView
  <2> QED
    BY <1>1, <2>2, <2>3 DEF PoolView
<1>8. Range(free_blocks') = Range(free_blocks)
  <2>1. free_blocks' = SubSeq(free_blocks, 1, Len(free_blocks) - 0)
    BY <1>4 DEF Pool!Take
  <2>2. SubSeq(free_blocks, 1, Len(free_blocks)) = free_blocks
    BY <1>1 DEF PoolView
  <2>3. Len(free_blocks) - 0 = Len(free_blocks)
    BY <1>3
  <2> QED
    BY <2>1, <2>2, <2>3
<1> QED
  BY <1>2, <1>4, <1>5, <1>6, <1>7, <1>8

\* A release shortens one table and pins and unpins nothing.
LEMMA ReleaseFacts ==
  ASSUME CacheInv, NEW row \in Rows, NEW start, Pool!FreeBlocksFrom(row, start)
  PROVE  /\ start \in 0 .. Len(block_tables[row]) /\ cached' = cached
         /\ \A r \in Rows \ {row} : /\ block_tables'[r] = block_tables[r]
                                    /\ row_busy'[r] = row_busy[r]
         /\ Len(block_tables'[row]) = start
         /\ \A i \in 1 .. start : block_tables'[row][i] = block_tables[row][i]
         /\ row_busy'[row] => row_busy[row] /\ start # 0
<1> DEFINE table == block_tables[row]
<1>1. PoolView
  BY PoolFacts DEF CacheInv
<1>2. /\ start \in 0 .. Len(table) /\ cached' = cached
      /\ block_tables' = [block_tables EXCEPT ![row] = SubSeq(table, 1, start)]
      /\ row_busy' = [row_busy EXCEPT ![row] = @ /\ start > 0]
  BY DEF Pool!FreeBlocksFrom
<1>3. /\ block_tables'[row] = SubSeq(table, 1, start)
      /\ \A r \in Rows \ {row} : block_tables'[r] = block_tables[r] /\ row_busy'[r] = row_busy[r]
      /\ row_busy'[row] = (row_busy[row] /\ start > 0)
  BY <1>1, <1>2 DEF PoolView
<1>4. Len(SubSeq(table, 1, start)) = start
      /\ \A i \in 1 .. start : SubSeq(table, 1, start)[i] = table[i]
  <2>1. table \in Seq(Blocks) /\ Len(table) \in Nat /\ \A i \in 1 .. Len(table) : table[i] \in Blocks
    BY <1>1, OwnElements DEF PoolView
  <2> HIDE DEF table
  <2>2. 1 \in 1 .. Len(table) + 1 /\ start \in 1 - 1 .. Len(table)
    BY <1>2, <2>1
  <2> QED
    BY <2>1, <2>2, SubSeqProperties
<1>5. row_busy'[row] => row_busy[row] /\ start # 0
  <2>1. row_busy'[row] => row_busy[row] /\ start > 0
    BY <1>3, Zenon
  <2> QED
    BY <2>1
<1>6. /\ \A r \in Rows \ {row} : block_tables'[r] = block_tables[r] /\ row_busy'[r] = row_busy[r]
      /\ Len(block_tables'[row]) = start
      /\ \A i \in 1 .. start : block_tables'[row][i] = block_tables[row][i]
  BY <1>3, <1>4
<1> QED
  BY <1>2, <1>5, <1>6

-------------------------------------------------------------------------------
(* What a cut gives back.                                                    *)

\* A block that is mounted once is in one row.
LEMMA OnceMounted ==
  ASSUME CacheInv, NEW r \in Rows, NEW q \in Rows,
         NEW i \in 1 .. Len(block_tables[r]), NEW j \in 1 .. Len(block_tables[q]),
         block_tables[r][i] = block_tables[q][j], ref_counts[block_tables[r][i]] = 1
  PROVE  r = q /\ i = j
<1>1. PoolView /\ PoolInv
  BY PoolFacts DEF CacheInv
<1>2. PICK b \in Blocks : b = block_tables[r][i] /\ b = block_tables[q][j] /\ ref_counts[b] = 1
  BY <1>1 DEF PoolView
<1>3. Cardinality(Pool!Holders(b)) = 1
  BY <1>1, <1>2, SameSets, SameCount DEF PoolInv, Pool!InvariantHolds, Pool!RefCountExact
<1>4. Pool!Holders(b) = {row \in Rows : b \in Range(block_tables[row])}
  BY SameSets, SameRange DEF Pool!Holders
<1>5. r \in Pool!Holders(b) /\ q \in Pool!Holders(b)
  BY <1>1, <1>2, <1>4 DEF PoolView, Range
<1>6. IsFiniteSet(Pool!Holders(b))
  <2>1. IsFiniteSet(Rows)
    BY CacheSizes, FS_Interval DEF Rows, Pool!Rows
  <2> QED
    BY <1>4, <2>1, FS_Subset
<1>7. r = q
  BY <1>3, <1>5, <1>6, FS_Singleton
<1> QED
  BY <1>1, <1>2, <1>7 DEF PoolView

\* A cut frees the blocks nobody else has, and what is free or another row's
\* alone stays so.
LEMMA CutFrees ==
  ASSUME CacheInv, CacheInv', NEW row \in Rows, NEW start, Pool!FreeBlocksFrom(row, start)
  PROVE  /\ Range(free_blocks) \subseteq Range(free_blocks')
         /\ \A i \in start + 1 .. Len(block_tables[row]) :
              LET b == block_tables[row][i]
              IN  ref_counts[b] = 1 /\ ~cached[b] => b \in Range(free_blocks')
         /\ \A r \in Rows \ {row} : \A i \in 1 .. Len(block_tables[r]) :
              ref_counts[block_tables[r][i]] = 1 => ref_counts'[block_tables[r][i]] = 1
<1> DEFINE table == block_tables[row]
           dropped == SubSeq(table, start + 1, Len(table))
<1>1. PoolView /\ PoolInv /\ PoolInv'
  BY PoolFacts DEF CacheInv
<1>2. /\ start \in 0 .. Len(table) /\ cached' = cached
      /\ ref_counts' = [b \in Blocks |-> IF b \in Range(dropped) THEN ref_counts[b] - 1
                                                                 ELSE ref_counts[b]]
  BY SameSets, SameRange DEF Pool!FreeBlocksFrom
<1>3. \A b \in Blocks : b \in Range(free_blocks) <=> ref_counts[b] = 0 /\ ~cached[b]
  BY <1>1, SameSets, SameRange DEF PoolInv, Pool!InvariantHolds, Pool!ThreeStates
<1>4. \A b \in Blocks : b \in Range(free_blocks') <=> ref_counts'[b] = 0 /\ ~cached'[b]
  BY <1>1, SameSets, SameRange DEF PoolInv, Pool!InvariantHolds, Pool!ThreeStates
<1>5. table \in Seq(Blocks) /\ Len(table) \in Nat /\ \A i \in 1 .. Len(table) : table[i] \in Blocks
  BY <1>1, OwnElements DEF PoolView
<1>6. /\ \A i \in start + 1 .. Len(table) : table[i] \in Range(dropped)
      /\ \A b \in Range(dropped) : \E i \in 1 .. Len(table) : b = table[i]
  <2> HIDE DEF table
  <2>1. /\ Len(dropped) = Len(table) - start /\ DOMAIN dropped = 1 .. Len(dropped)
        /\ \A i \in 1 .. Len(dropped) : dropped[i] = table[start + i]
    BY <1>2, <1>5
  <2> HIDE DEF dropped
  <2>2. ASSUME NEW i \in start + 1 .. Len(table) PROVE table[i] \in Range(dropped)
    <3>1. i - start \in 1 .. Len(dropped) /\ start + (i - start) = i
      BY <1>2, <1>5, <2>1
    <3>2. dropped[i - start] = table[i]
      BY <2>1, <3>1
    <3> QED
      BY <2>1, <3>1, <3>2 DEF Range
  <2>3. ASSUME NEW b \in Range(dropped) PROVE \E i \in 1 .. Len(table) : b = table[i]
    <3>1. PICK k \in 1 .. Len(dropped) : b = dropped[k]
      BY <2>1 DEF Range
    <3>2. start + k \in 1 .. Len(table) /\ b = table[start + k]
      BY <1>2, <1>5, <2>1, <3>1
    <3> QED
      BY <3>2
  <2> QED
    BY <2>2, <2>3
<1> HIDE DEF dropped
<1>7. Range(free_blocks) \subseteq Range(free_blocks')
  <2> SUFFICES ASSUME NEW b \in Range(free_blocks) PROVE b \in Range(free_blocks')
    OBVIOUS
  <2>1. b \in Blocks
    BY <1>1, OwnElements DEF PoolView, Range
  <2>2. b \notin Range(dropped)
    <3>1. \A i \in 1 .. Len(table) : table[i] \notin Range(free_blocks)
      BY <1>1 DEF PoolView
    <3> QED
      BY <1>6, <3>1
  <2> QED
    BY <1>2, <1>3, <1>4, <2>1, <2>2
<1>8. ASSUME NEW i \in start + 1 .. Len(table), ref_counts[table[i]] = 1, ~cached[table[i]]
      PROVE  table[i] \in Range(free_blocks')
  <2>1. i \in 1 .. Len(table)
    BY <1>2, <1>5
  <2> QED
    BY <1>2, <1>4, <1>5, <1>6, <1>8, <2>1
<1>9. ASSUME NEW r \in Rows \ {row}, NEW i \in 1 .. Len(block_tables[r]),
             ref_counts[block_tables[r][i]] = 1
      PROVE  ref_counts'[block_tables[r][i]] = 1
  <2>1. block_tables[r][i] \in Blocks
    BY <1>1 DEF PoolView
  <2>2. block_tables[r][i] \notin Range(dropped)
    BY <1>6, <1>9, OnceMounted
  <2> QED
    BY <1>2, <1>9, <2>1, <2>2
<1> QED
  BY <1>7, <1>8, <1>9

\* The free list counts its blocks once.
LEMMA FreeCount ==
  ASSUME CacheInv
  PROVE  IsFiniteSet(Range(free_blocks)) /\ Cardinality(Range(free_blocks)) = Len(free_blocks)
<1>1. free_blocks \in Seq(Blocks) /\ IsInjective(free_blocks)
  BY SameSets, SameRange
     DEF CacheInv, PoolInv, Pool!TypeOK, Pool!InvariantHolds, Pool!FreeListDistinct
<1>2. PICK n : n = Len(free_blocks)
  OBVIOUS
<1>3. n \in Nat /\ DOMAIN free_blocks = 1 .. n /\ free_blocks = [i \in 1 .. n |-> free_blocks[i]]
  BY <1>1, <1>2
<1>4. IsFiniteSet(1 .. n) /\ Cardinality(1 .. n) = n
  BY <1>3, FS_Interval
<1>5. free_blocks \in Bijection(1 .. n, Range(free_blocks))
  BY <1>1, <1>3 DEF Bijection, Injection, Surjection, IsInjective, Range
<1>6. ExistsBijection(1 .. n, Range(free_blocks))
  BY <1>5 DEF ExistsBijection
<1> QED
  BY <1>2, <1>4, <1>6, FS_Bijection

-------------------------------------------------------------------------------
(* Lookup.                                                                   *)

\* lookup returns a chain of hits, no longer than the prompt allows.
LEMMA LookupFacts ==
  ASSUME NEW prompt, Cacheable(prompt) \in Nat
  PROVE  LET chain == Lookup(prompt)
         IN  /\ chain \in Seq(DOMAIN entries)
             /\ Len(chain) <= Cacheable(prompt)
             /\ \A i \in 1 .. Len(chain) : Hits(chain, prompt, i)
<1> DEFINE n == Cacheable(prompt)
           matches == {chain \in UNION {[1 .. k -> DOMAIN entries] : k \in 0 .. n} :
                         \A i \in DOMAIN chain : Hits(chain, prompt, i)}
           lengths == {Len(chain) : chain \in matches}
<1>1. ASSUME NEW chain \in matches
      PROVE  /\ chain \in Seq(DOMAIN entries)
             /\ Len(chain) \in 0 .. n
             /\ \A i \in 1 .. Len(chain) : Hits(chain, prompt, i)
  <2>1. PICK k \in 0 .. n : chain \in [1 .. k -> DOMAIN entries]
    OBVIOUS
  <2>2. k \in Nat /\ Len(chain) = k /\ DOMAIN chain = 1 .. k
    BY <2>1
  <2>3. \A i \in DOMAIN chain : Hits(chain, prompt, i)
    OBVIOUS
  <2> QED
    BY <2>1, <2>2, <2>3
<1>2. <<>> \in matches
  <2>1. <<>> \in [1 .. 0 -> DOMAIN entries] /\ 0 \in 0 .. n
    OBVIOUS
  <2>2. DOMAIN <<>> = {}
    OBVIOUS
  <2> QED
    BY <2>1, <2>2
<1>3. Lookup(prompt) = CHOOSE chain \in matches : \A other \in matches : Len(other) <= Len(chain)
  BY DEF Lookup
<1> HIDE DEF matches
<1>4. lengths \subseteq 0 .. n /\ lengths # {}
  BY <1>1, <1>2
<1>5. PICK m \in lengths : \A k \in lengths : m >= k
  BY <1>4, GreatestNatural
<1>6. PICK longest \in matches : Len(longest) = m
  BY <1>5
<1>7. \A other \in matches : Len(other) <= Len(longest)
  BY <1>1, <1>5, <1>6
<1>8. Lookup(prompt) \in matches
  BY <1>3, <1>7
<1> QED
  BY <1>1, <1>8

=============================================================================
