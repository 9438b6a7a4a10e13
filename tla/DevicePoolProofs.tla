---------------------------- MODULE DevicePoolProofs ----------------------------
(***************************************************************************)
(* The memory pool for every device size, alignment, set of request sizes, *)
(* placement by the driver and refusal of a cudaFree.                      *)
(***************************************************************************)
EXTENDS DevicePool, FiniteSetTheorems, WellFoundedInduction, TLAPS

Buffers == [ptr : Nat, size : Nat \ {0}]

Backed(bs, lv) ==
  /\ \A l \in lv : \E b \in bs : b.busy /\ b.data = l.ptr /\ b.byte_size >= l.size
  /\ \A b \in bs : b.busy => \E l \in lv : l.ptr = b.data
  /\ \A l, m \in lv : l.ptr = m.ptr => l = m

\* What every operation keeps, stated of any blocks, regions and buffers: a step
\* is one or two changes to them, and each has its lemma below.
Sound(bs, regs, lv) ==
  /\ Typed(bs, regs) /\ lv \subseteq Buffers
  /\ Inside(bs, regs) /\ Apart(bs) /\ Covered(bs, regs) /\ Coalesced(bs)
  /\ Backed(bs, lv)

\* The inductive invariant.
IInv == Sound(blocks, regions, live) /\ refused \subseteq DOMAIN regions

-------------------------------------------------------------------------------
(* Arithmetic.                                                               *)

\* A nonempty set of naturals has a least element.
LEMMA LeastNatural ==
  ASSUME NEW T, T \subseteq Nat, T # {}
  PROVE  \E n \in T : \A m \in T : n <= m
<1>1. PICK n \in T : \A m \in T : ~ (<<m, n>> \in OpToRel(<, Nat))
  BY NatLessThanWellFounded, WFMin
<1>2. \A m \in T : ~ (m < n)
  BY <1>1 DEF OpToRel
<1> QED
  BY <1>2

\* round_up returns a positive size that is large enough.
LEMMA RoundedUp ==
  ASSUME NEW n \in Nat \ {0}
  PROVE  RoundUp(n) \in Nat \ {0} /\ RoundUp(n) >= n
<1> DEFINE q == (n + Alignment - 1) \div Alignment
<1>1. Alignment \in Nat \ {0}
  BY DeviceConstants
<1>2. q \in Nat
  BY <1>1
<1>3. q * Alignment >= n
  BY <1>1
<1>4. q * Alignment \in Nat
  BY <1>1, <1>2
<1> HIDE DEF q
<1>5. RoundUp(n) = q * Alignment
  BY DEF RoundUp, q
<1> QED
  BY <1>3, <1>4, <1>5

\* The members of a block.
LEMMA BlockMembers ==
  ASSUME NEW bs, NEW regs, Typed(bs, regs), NEW b \in bs
  PROVE  /\ b.data \in Nat /\ b.byte_size \in Nat \ {0} /\ b.busy \in BOOLEAN
         /\ b.region \in DOMAIN regs /\ b.region \in Nat /\ regs[b.region] \in Nat \ {0}
         /\ End(b) \in Nat /\ b.data < End(b) /\ End(b) = b.data + b.byte_size
BY DEF Typed, End

\* Covered, read as bounds.
LEMMA CoveredBounds ==
  ASSUME NEW bs, NEW regs, Typed(bs, regs)
  PROVE  Covered(bs, regs) <=>
           \A r \in DOMAIN regs : \A a \in Nat :
             r <= a /\ a < r + regs[r]
               => \E b \in bs : b.region = r /\ b.data <= a /\ a < End(b)
<1>1. \A r \in DOMAIN regs : r \in Nat /\ regs[r] \in Nat \ {0}
  BY DEF Typed
<1>2. \A r \in DOMAIN regs : \A a :
        a \in r .. r + regs[r] - 1 <=> a \in Nat /\ r <= a /\ a < r + regs[r]
  BY <1>1
<1>3. \A b \in bs : \A a \in Nat : a \in Cells(b) <=> b.data <= a /\ a < End(b)
  BY BlockMembers DEF Cells
<1> QED
  BY <1>2, <1>3 DEF Covered

\* Blocks that start at one address are one block.
LEMMA OneBlockAt ==
  ASSUME NEW bs, NEW regs, Typed(bs, regs), Apart(bs), NEW b \in bs, NEW c \in bs,
         b.data = c.data
  PROVE  b = c
BY BlockMembers DEF Apart

-------------------------------------------------------------------------------
(* An idle block is handed out, with or without its tail.                    *)

\* Reuse: the idle block becomes a busy head and, if it is kept, an idle tail.
LEMMA SplitKeeps ==
  ASSUME NEW bs, NEW regs, NEW lv, Sound(bs, regs, lv),
         NEW b \in bs, ~b.busy,
         NEW n \in Nat \ {0}, NEW w \in Nat \ {0}, n <= w, w <= b.byte_size
  PROVE  Sound((bs \ {b}) \cup Split(b, w), regs, lv \cup {[ptr |-> b.data, size |-> n]})
<1> DEFINE whole == ~(b.byte_size - w >= Alignment)
           size == IF whole THEN b.byte_size ELSE w
           head == BlockOf(b.data, size, TRUE, b.region)
           tail == BlockOf(b.data + w, b.byte_size - w, FALSE, b.region)
           tails == IF whole THEN {} ELSE {tail}
           new == (bs \ {b}) \cup {head} \cup tails
           buffer == [ptr |-> b.data, size |-> n]
<1>0. Typed(bs, regs) /\ lv \subseteq Buffers /\ Inside(bs, regs) /\ Apart(bs)
      /\ Covered(bs, regs) /\ Coalesced(bs) /\ Backed(bs, lv)
  BY DEF Sound
<1>1. /\ b.data \in Nat /\ b.byte_size \in Nat \ {0} /\ b.region \in DOMAIN regs
      /\ b.region \in Nat /\ End(b) = b.data + b.byte_size
  BY <1>0, BlockMembers
<1>2. Alignment \in Nat \ {0}
  BY DeviceConstants
<1>3. Split(b, w) = {head} \cup tails
  BY DEF Split
<1>4. /\ head.data = b.data /\ head.byte_size = size /\ head.busy = TRUE
      /\ head.region = b.region /\ End(head) = b.data + size
      /\ head = BlockOf(head.data, head.byte_size, head.busy, head.region)
  BY DEF BlockOf, End
<1>5. /\ size \in Nat \ {0} /\ size >= w /\ size <= b.byte_size
      /\ tails = {} => size = b.byte_size
  <2>1. CASE whole
    <3>1. size = b.byte_size
      BY <2>1
    <3> HIDE DEF size
    <3> QED
      BY <1>1, <3>1
  <2>2. CASE ~whole
    <3>1. size = w /\ tails # {}
      BY <2>2
    <3> HIDE DEF size, tails
    <3> QED
      BY <1>1, <3>1
  <2> QED
    BY <2>1, <2>2
<1>6. \A t \in tails :
        /\ t.data = End(head) /\ t.data \in Nat /\ t.byte_size \in Nat \ {0}
        /\ t.busy = FALSE /\ t.region = b.region /\ End(t) = End(b)
        /\ t = BlockOf(t.data, t.byte_size, t.busy, t.region)
  BY <1>1, <1>2, <1>4 DEF BlockOf, End
<1>7. \A s, t \in tails : s = t
  OBVIOUS
<1> HIDE DEF size, head, tails
<1>8. \A c \in bs \ {b} : /\ c.data \in Nat /\ End(c) \in Nat /\ c.data < End(c)
                          /\ End(c) <= b.data \/ End(b) <= c.data
  BY <1>0, BlockMembers DEF Apart
<1>t. Typed(new, regs)
  BY <1>0, <1>1, <1>4, <1>5, <1>6 DEF Typed
<1>i. Inside(new, regs)
  <2>1. b.region <= b.data /\ End(b) <= b.region + regs[b.region]
    BY <1>0 DEF Inside
  <2>2. regs[b.region] \in Nat
    BY <1>0, BlockMembers
  <2> QED
    BY <1>0, <1>1, <1>4, <1>5, <1>6, <2>1, <2>2 DEF Inside
<1>a. Apart(new)
  <2> SUFFICES ASSUME NEW c \in new, NEW d \in new, c # d
               PROVE  End(c) <= d.data \/ End(d) <= c.data
    BY DEF Apart
  <2>1. CASE c \in bs \ {b} /\ d \in bs \ {b}
    BY <1>0, <2>1 DEF Apart
  <2>2. \A x \in bs \ {b} : \A y \in {head} \cup tails :
          End(x) <= y.data \/ End(y) <= x.data
    BY <1>1, <1>4, <1>5, <1>6, <1>8
  <2>3. \A y \in tails : End(head) <= y.data
    BY <1>1, <1>4, <1>5, <1>6
  <2> QED
    BY <1>7, <2>1, <2>2, <2>3
<1>c. Covered(new, regs)
  <2> SUFFICES ASSUME NEW r \in DOMAIN regs, NEW a \in Nat, r <= a, a < r + regs[r]
               PROVE  \E c \in new : c.region = r /\ c.data <= a /\ a < End(c)
    BY <1>t, CoveredBounds
  <2>1. PICK c \in bs : c.region = r /\ c.data <= a /\ a < End(c)
    BY <1>0, CoveredBounds
  <2>2. CASE c # b
    BY <2>1, <2>2
  <2>3. CASE c = b
    <3>1. CASE a < End(head)
      BY <1>4, <2>1, <2>3, <3>1
    <3>2. CASE ~(a < End(head))
      <4>1. PICK t \in tails : TRUE
        BY <1>1, <1>4, <1>5, <2>1, <2>3, <3>2
      <4> QED
        BY <1>1, <1>4, <1>5, <1>6, <2>1, <2>3, <3>2, <4>1
    <3> QED
      BY <3>1, <3>2
  <2> QED
    BY <2>2, <2>3
<1>d. Coalesced(new)
  <2> SUFFICES ASSUME NEW c \in new, NEW d \in new, ~c.busy, ~d.busy,
                      c.region = d.region, End(c) = d.data
               PROVE  FALSE
    BY DEF Coalesced, Idle
  <2>1. \A x, y \in bs : ~x.busy /\ ~y.busy /\ x.region = y.region => End(x) # y.data
    BY <1>0 DEF Coalesced, Idle
  <2>2. c # head /\ d # head
    BY <1>4
  <2>3. CASE c \in tails
    <3>1. d \notin tails
      <4>1. d \in tails => d = c
        BY <1>7, <2>3
      <4> QED
        BY <1>1, <1>6, <2>3, <4>1 DEF End
    <3>2. d \in bs /\ End(b) = d.data /\ d.region = b.region
      BY <1>6, <2>2, <2>3, <3>1
    <3> QED
      BY <2>1, <3>2
  <2>4. CASE d \in tails /\ c \in bs \ {b}
    BY <1>1, <1>4, <1>5, <1>6, <1>8, <2>4
  <2> QED
    BY <2>1, <2>2, <2>3, <2>4
<1>b. Backed(new, lv \cup {buffer})
  <2>1. buffer.ptr = b.data /\ buffer.size = n
    OBVIOUS
  <2>2. \A l \in lv : l.ptr # b.data
    BY <1>0, OneBlockAt DEF Backed
  <2>3. \A l \in lv \cup {buffer} :
          \E c \in new : c.busy /\ c.data = l.ptr /\ c.byte_size >= l.size
    BY <1>0, <1>1, <1>4, <1>5, <2>1 DEF Backed
  <2>4. \A c \in new : c.busy => \E l \in lv \cup {buffer} : l.ptr = c.data
    BY <1>0, <1>4, <1>6, <2>1 DEF Backed
  <2>5. \A l, m \in lv \cup {buffer} : l.ptr = m.ptr => l = m
    BY <1>0, <2>1, <2>2 DEF Backed
  <2> QED
    BY <2>3, <2>4, <2>5 DEF Backed
<1>l. lv \cup {buffer} \subseteq Buffers
  BY <1>0, <1>1 DEF Buffers
<1>9. (bs \ {b}) \cup Split(b, w) = new
  BY <1>3
<1> QED
  BY <1>9, <1>t, <1>l, <1>i, <1>a, <1>c, <1>d, <1>b DEF Sound

-------------------------------------------------------------------------------
(* The driver gives a region, and takes regions back.                        *)

\* Grow: a region beside all others, with one busy block.
LEMMA FreshKeeps ==
  ASSUME NEW bs, NEW regs, NEW lv, Sound(bs, regs, lv),
         NEW n \in Nat \ {0}, NEW w \in Nat \ {0}, n <= w,
         NEW base \in Room(regs, w)
  PROVE  Sound(bs \cup {BlockOf(base, w, TRUE, base)}, RegionsWith(regs, base, w),
               lv \cup {[ptr |-> base, size |-> n]})
<1> DEFINE fresh == BlockOf(base, w, TRUE, base)
           new == bs \cup {fresh}
           more == RegionsWith(regs, base, w)
           buffer == [ptr |-> base, size |-> n]
<1>0. Typed(bs, regs) /\ lv \subseteq Buffers /\ Inside(bs, regs) /\ Apart(bs)
      /\ Covered(bs, regs) /\ Coalesced(bs) /\ Backed(bs, lv)
  BY DEF Sound
<1>1. /\ base \in Nat
      /\ \A r \in DOMAIN regs : base + w <= r \/ r + regs[r] <= base
  BY DeviceConstants DEF Room
<1>2. \A r \in DOMAIN regs : r \in Nat /\ regs[r] \in Nat \ {0}
  BY <1>0 DEF Typed
<1>3. base \notin DOMAIN regs
  BY <1>1, <1>2
<1>4. /\ DOMAIN more = DOMAIN regs \cup {base}
      /\ more[base] = w
      /\ \A r \in DOMAIN regs : more[r] = regs[r]
      /\ more \in [DOMAIN more -> Nat \ {0}]
  BY <1>2, <1>3 DEF RegionsWith
<1>5. /\ fresh.data = base /\ fresh.byte_size = w /\ fresh.busy = TRUE
      /\ fresh.region = base /\ End(fresh) = base + w
      /\ fresh = BlockOf(fresh.data, fresh.byte_size, fresh.busy, fresh.region)
  BY DEF BlockOf, End
<1>6. buffer.ptr = base /\ buffer.size = n
  OBVIOUS
<1> HIDE DEF more, fresh, buffer
<1>7. \A c \in bs : End(c) <= base \/ base + w <= c.data
  <2> SUFFICES ASSUME NEW c \in bs PROVE End(c) <= base \/ base + w <= c.data
    OBVIOUS
  <2>1. /\ c.data \in Nat /\ End(c) \in Nat
        /\ c.region \in DOMAIN regs /\ c.region \in Nat /\ regs[c.region] \in Nat
    BY <1>0, BlockMembers
  <2>2. c.region <= c.data /\ End(c) <= c.region + regs[c.region]
    BY <1>0 DEF Inside
  <2> QED
    BY <1>1, <2>1, <2>2
<1>8. \A c \in bs : c.data \in Nat /\ c.data < End(c) /\ c.data # base
  BY <1>0, <1>1, <1>7, BlockMembers
<1>t. Typed(new, more)
  BY <1>0, <1>1, <1>4, <1>5 DEF Typed
<1>i. Inside(new, more)
  BY <1>0, <1>1, <1>4, <1>5 DEF Inside, Typed
<1>a. Apart(new)
  BY <1>0, <1>5, <1>7 DEF Apart
<1>c. Covered(new, more)
  <2> SUFFICES ASSUME NEW r \in DOMAIN more, NEW a \in Nat, r <= a, a < r + more[r]
               PROVE  \E c \in new : c.region = r /\ c.data <= a /\ a < End(c)
    BY <1>t, CoveredBounds
  <2>1. CASE r = base
    BY <1>4, <1>5, <2>1
  <2>2. CASE r \in DOMAIN regs
    BY <1>0, <1>4, <2>2, CoveredBounds
  <2> QED
    BY <1>4, <2>1, <2>2
<1>d. Coalesced(new)
  BY <1>0, <1>5 DEF Coalesced, Idle
<1>b. Backed(new, lv \cup {buffer})
  <2>1. \A l \in lv : l.ptr # base
    BY <1>0, <1>8 DEF Backed
  <2>2. \A l \in lv \cup {buffer} :
          \E c \in new : c.busy /\ c.data = l.ptr /\ c.byte_size >= l.size
    BY <1>0, <1>5, <1>6 DEF Backed
  <2>3. \A c \in new : c.busy => \E l \in lv \cup {buffer} : l.ptr = c.data
    BY <1>0, <1>5, <1>6 DEF Backed
  <2>4. \A l, m \in lv \cup {buffer} : l.ptr = m.ptr => l = m
    BY <1>0, <1>6, <2>1 DEF Backed
  <2> QED
    BY <2>2, <2>3, <2>4 DEF Backed
<1>l. lv \cup {buffer} \subseteq Buffers
  BY <1>0, <1>1 DEF Buffers, buffer
<1>9. Sound(new, more, lv \cup {buffer})
  BY <1>t, <1>l, <1>i, <1>a, <1>c, <1>d, <1>b DEF Sound
<1> QED
  BY <1>9 DEF more, fresh, buffer

\* A block that covers its region is the only one there, so that what stays
\* keeps its region.
LEMMA DropKeeps ==
  ASSUME NEW bs, NEW lv, Sound(bs, regions, lv), NEW freed \in SUBSET WholeIdle(bs)
  PROVE  /\ Sound(bs \ freed, RegionsWithout(freed), lv)
         /\ {b.region : b \in WholeIdle(bs) \ freed} \subseteq DOMAIN RegionsWithout(freed)
<1> DEFINE fewer == RegionsWithout(freed)
<1>0. Typed(bs, regions) /\ lv \subseteq Buffers /\ Inside(bs, regions) /\ Apart(bs)
      /\ Covered(bs, regions) /\ Coalesced(bs) /\ Backed(bs, lv)
  BY DEF Sound
<1>1. \A f \in freed : /\ f \in bs /\ ~f.busy /\ f.data = f.region
                       /\ regions[f.region] = f.byte_size
  BY DEF WholeIdle, Idle
<1>2. /\ DOMAIN fewer = DOMAIN regions \ {f.region : f \in freed}
      /\ \A r \in DOMAIN fewer : fewer[r] = regions[r]
      /\ fewer = [r \in DOMAIN fewer |-> regions[r]]
  BY DEF RegionsWithout, Restrict
<1> HIDE DEF fewer
<1>3. \A c \in bs \ freed : c.region \in DOMAIN fewer
  <2> SUFFICES ASSUME NEW c \in bs \ freed, NEW f \in freed, c.region = f.region
               PROVE  FALSE
    BY <1>0, <1>2, BlockMembers
  <2>1. /\ c.data \in Nat /\ End(c) \in Nat /\ c.data < End(c)
        /\ f.data \in Nat /\ End(f) = f.data + f.byte_size /\ f.byte_size \in Nat
    BY <1>0, <1>1, BlockMembers
  <2>2. f.data <= c.data /\ End(c) <= End(f)
    BY <1>0, <1>1, <2>1 DEF Inside
  <2>3. End(c) <= f.data \/ End(f) <= c.data
    BY <1>0, <1>1 DEF Apart
  <2> QED
    BY <2>1, <2>2, <2>3
<1>t. Typed(bs \ freed, fewer)
  BY <1>0, <1>2, <1>3 DEF Typed
<1>i. Inside(bs \ freed, fewer)
  BY <1>0, <1>2, <1>3 DEF Inside
<1>a. Apart(bs \ freed)
  BY <1>0 DEF Apart
<1>c. Covered(bs \ freed, fewer)
  <2> SUFFICES ASSUME NEW r \in DOMAIN fewer, NEW a \in Nat, r <= a, a < r + fewer[r]
               PROVE  \E c \in bs \ freed : c.region = r /\ c.data <= a /\ a < End(c)
    BY <1>t, CoveredBounds
  <2>1. PICK c \in bs : c.region = r /\ c.data <= a /\ a < End(c)
    BY <1>0, <1>2, CoveredBounds
  <2>2. c \notin freed
    BY <1>2, <2>1
  <2> QED
    BY <2>1, <2>2
<1>d. Coalesced(bs \ freed)
  BY <1>0 DEF Coalesced, Idle
<1>b. Backed(bs \ freed, lv)
  BY <1>0, <1>1 DEF Backed
<1>4. Sound(bs \ freed, fewer, lv)
  BY <1>0, <1>t, <1>i, <1>a, <1>c, <1>d, <1>b DEF Sound
<1>5. \A b \in WholeIdle(bs) \ freed : b \in bs \ freed
  BY DEF WholeIdle, Idle
<1> QED
  BY <1>3, <1>4, <1>5 DEF fewer

-------------------------------------------------------------------------------
(* A block comes back.                                                       *)

\* Neighbours, read as bounds.
LEMMA NeighbourBounds ==
  ASSUME NEW bs, NEW regs, Typed(bs, regs), NEW b \in bs, NEW x \in bs
  PROVE  x \in Neighbours(bs, b) <=>
           /\ ~x.busy /\ x.region = b.region
           /\ \A a \in Nat :
                (x.data <= a /\ a <= b.data) \/ (b.data <= a /\ a <= x.data)
                  => \E y \in bs : /\ ~y.busy /\ y.region = b.region
                                   /\ y.data <= a /\ a < End(y)
<1>1. b.data \in Nat /\ x.data \in Nat
  BY BlockMembers
<1>2. \A a : a \in (x.data .. b.data) \cup (b.data .. x.data) <=>
               a \in Nat /\ ((x.data <= a /\ a <= b.data) \/ (b.data <= a /\ a <= x.data))
  BY <1>1
<1>3. \A y \in bs : \A a \in Nat : a \in Cells(y) <=> y.data <= a /\ a < End(y)
  BY BlockMembers DEF Cells
<1>4. \A y : y \in Idle(bs) <=> y \in bs /\ ~y.busy
  BY DEF Idle
<1>5. (\A a \in (x.data .. b.data) \cup (b.data .. x.data) :
         \E y \in Idle(bs) : y.region = b.region /\ a \in Cells(y))
      <=> \A a \in Nat :
            (x.data <= a /\ a <= b.data) \/ (b.data <= a /\ a <= x.data)
              => \E y \in bs : /\ ~y.busy /\ y.region = b.region
                               /\ y.data <= a /\ a < End(y)
  BY <1>2, <1>3, <1>4
<1>6. x \in Neighbours(bs, b) <=>
        /\ x \in Idle(bs) /\ x.region = b.region
        /\ \A a \in (x.data .. b.data) \cup (b.data .. x.data) :
             \E y \in Idle(bs) : y.region = b.region /\ a \in Cells(y)
  BY DEF Neighbours
<1> QED
  BY <1>4, <1>5, <1>6

\* The collected blocks lie directly beside the freed one.
LEMMA RunShape ==
  ASSUME NEW bs, NEW regs, Typed(bs, regs), Apart(bs), NEW b \in bs, ~b.busy,
         Coalesced(bs \ {b}), NEW x \in Neighbours(bs, b), x # b
  PROVE  x \in bs /\ (End(x) = b.data \/ x.data = End(b))
<1>1. x \in bs /\ ~x.busy /\ x.region = b.region
  BY DEF Neighbours, Idle
<1>2. \A a \in Nat : (x.data <= a /\ a <= b.data) \/ (b.data <= a /\ a <= x.data)
        => \E y \in bs : /\ ~y.busy /\ y.region = b.region
                         /\ y.data <= a /\ a < End(y)
  BY <1>1, NeighbourBounds
<1>3. \A c \in bs : c.data \in Nat /\ End(c) \in Nat /\ c.data < End(c)
  BY BlockMembers
<1>4. \A c, d \in bs : c = d \/ End(c) <= d.data \/ End(d) <= c.data
  BY DEF Apart
<1>5. \A c, d \in bs \ {b} : ~c.busy /\ ~d.busy /\ c.region = d.region => End(c) # d.data
  BY DEF Coalesced, Idle
<1>6. CASE End(x) < b.data
  <2>1. PICK y \in bs : ~y.busy /\ y.region = b.region /\ y.data <= End(x) /\ End(x) < End(y)
    BY <1>1, <1>2, <1>3, <1>6
  <2>2. y # x /\ y # b
    BY <1>1, <1>3, <1>6, <2>1
  <2>3. y.data = End(x)
    BY <1>1, <1>3, <1>4, <2>1, <2>2
  <2> QED
    BY <1>1, <1>5, <2>1, <2>2, <2>3
<1>7. CASE End(b) < x.data
  <2> DEFINE a == x.data - 1
  <2>1. a \in Nat /\ b.data <= a /\ a <= x.data /\ End(b) <= a /\ a + 1 = x.data
    BY <1>1, <1>3, <1>7
  <2> HIDE DEF a
  <2>2. PICK y \in bs : ~y.busy /\ y.region = b.region /\ y.data <= a /\ a < End(y)
    BY <1>2, <2>1
  <2>3. y # x /\ y # b
    BY <1>1, <1>3, <2>1, <2>2
  <2>4. End(y) = x.data
    BY <1>1, <1>3, <1>4, <2>1, <2>2, <2>3
  <2> QED
    BY <1>1, <1>5, <2>2, <2>3, <2>4
<1> QED
  BY <1>1, <1>3, <1>4, <1>6, <1>7

\* So there are at most three of them, with a first and a last.
LEMMA RunEnds ==
  ASSUME NEW bs, NEW regs, Typed(bs, regs), Apart(bs), NEW b \in bs, ~b.busy,
         Coalesced(bs \ {b})
  PROVE  LET run == Neighbours(bs, b)
         IN  /\ run \subseteq bs /\ b \in run
             /\ First(run) \in run /\ \A c \in run : First(run).data <= c.data
             /\ Last(run) \in run /\ \A c \in run : c.data <= Last(run).data
<1> DEFINE run == Neighbours(bs, b)
<1>1. run \subseteq bs
  BY DEF Neighbours, Idle
<1>2. b \in run
  <2>1. b.data \in Nat /\ b.data < End(b) /\ End(b) \in Nat
    BY BlockMembers
  <2>2. \A a \in Nat : (b.data <= a /\ a <= b.data) => b.data <= a /\ a < End(b)
    BY <2>1
  <2> QED
    BY <2>2, NeighbourBounds
<1>3. \A c \in run : c = b \/ End(c) = b.data \/ c.data = End(b)
  BY RunShape
<1> HIDE DEF run
<1>4. \A c \in run : c.data \in Nat /\ End(c) \in Nat /\ c.data < End(c)
  BY <1>1, BlockMembers
<1>5. \A c, d \in run : c = d \/ End(c) <= d.data \/ End(d) <= c.data
  BY <1>1 DEF Apart
<1>6. \E f \in run : \A c \in run : f.data <= c.data
  <2>1. CASE \E p \in run : End(p) = b.data
    <3>1. PICK p \in run : End(p) = b.data
      BY <2>1
    <3>2. \A c \in run : p.data <= c.data
      BY <1>2, <1>3, <1>4, <1>5, <3>1
    <3> QED
      BY <3>2
  <2>2. CASE ~\E p \in run : End(p) = b.data
    <3>1. \A c \in run : b.data <= c.data
      BY <1>2, <1>3, <1>4, <2>2
    <3> QED
      BY <1>2, <3>1
  <2> QED
    BY <2>1, <2>2
<1>7. \E f \in run : \A c \in run : c.data <= f.data
  <2>1. CASE \E p \in run : p.data = End(b)
    <3>1. PICK p \in run : p.data = End(b)
      BY <2>1
    <3>2. \A c \in run : c.data <= p.data
      BY <1>2, <1>3, <1>4, <1>5, <3>1
    <3> QED
      BY <3>2
  <2>2. CASE ~\E p \in run : p.data = End(b)
    <3>1. \A c \in run : c.data <= b.data
      BY <1>2, <1>3, <1>4, <2>2
    <3> QED
      BY <1>2, <3>1
  <2> QED
    BY <2>1, <2>2
<1>8. First(run) \in run /\ \A c \in run : First(run).data <= c.data
  BY <1>6 DEF First
<1>9. Last(run) \in run /\ \A c \in run : c.data <= Last(run).data
  BY <1>7 DEF Last
<1> QED
  BY <1>1, <1>2, <1>8, <1>9 DEF run

\* Merging gives a tiling in which no two idle blocks meet, and keeps the busy
\* blocks.
LEMMA MergeTiles ==
  ASSUME NEW bs, NEW regs, Typed(bs, regs), Inside(bs, regs), Apart(bs),
         Covered(bs, regs), NEW b \in bs, ~b.busy, Coalesced(bs \ {b})
  PROVE  /\ Typed(Merged(bs, b), regs) /\ Inside(Merged(bs, b), regs)
         /\ Apart(Merged(bs, b)) /\ Covered(Merged(bs, b), regs)
         /\ Coalesced(Merged(bs, b))
         /\ \A c : c.busy => (c \in Merged(bs, b) <=> c \in bs)
<1> DEFINE run == Neighbours(bs, b)
           lo == First(run)
           hi == Last(run)
           m == BlockOf(lo.data, End(hi) - lo.data, FALSE, b.region)
           new == (bs \ run) \cup {m}
<1>1. /\ run \subseteq bs /\ b \in run /\ lo \in run /\ hi \in run
      /\ \A c \in run : lo.data <= c.data /\ c.data <= hi.data
  BY RunEnds
<1>2. \A c \in run : ~c.busy /\ c.region = b.region
  BY DEF Neighbours, Idle
<1>3. \A c \in bs : /\ c.data \in Nat /\ End(c) \in Nat /\ c.data < End(c)
                    /\ c.region \in DOMAIN regs /\ c.region \in Nat
                    /\ regs[c.region] \in Nat
  BY BlockMembers
<1>4. \A c, d \in bs : c = d \/ End(c) <= d.data \/ End(d) <= c.data
  BY DEF Apart
<1>5. \A x \in bs : x \in run <=>
        /\ ~x.busy /\ x.region = b.region
        /\ \A a \in Nat :
             (x.data <= a /\ a <= b.data) \/ (b.data <= a /\ a <= x.data)
               => \E y \in bs : /\ ~y.busy /\ y.region = b.region
                                /\ y.data <= a /\ a < End(y)
  BY NeighbourBounds
<1>6. Merged(bs, b) = new
  BY DEF Merged
<1> HIDE DEF run
<1>7. /\ m.data = lo.data /\ m.byte_size = End(hi) - lo.data /\ m.busy = FALSE
      /\ m.region = b.region
      /\ m = BlockOf(m.data, m.byte_size, m.busy, m.region)
  BY DEF BlockOf
<1> HIDE DEF lo, hi, m
<1>8. \A c \in run : End(c) <= End(hi)
  BY <1>1, <1>3, <1>4
<1>9. End(m) = End(hi) /\ m.byte_size \in Nat \ {0}
  <2>1. lo.data \in Nat /\ End(hi) \in Nat /\ lo.data < End(hi)
    BY <1>1, <1>3
  <2>2. End(m) = m.data + m.byte_size
    BY DEF End
  <2> QED
    BY <1>7, <2>1, <2>2
<1>10. \A a \in Nat : lo.data <= a /\ a < End(hi)
         => \E y \in bs : ~y.busy /\ y.region = b.region /\ y.data <= a /\ a < End(y)
  <2> SUFFICES ASSUME NEW a \in Nat, lo.data <= a, a < End(hi)
               PROVE  \E y \in bs : ~y.busy /\ y.region = b.region /\ y.data <= a /\ a < End(y)
    OBVIOUS
  <2>1. CASE a <= b.data
    BY <1>1, <1>5, <2>1
  <2>2. CASE b.data <= a /\ a <= hi.data
    BY <1>1, <1>5, <2>2
  <2>3. CASE hi.data < a
    BY <1>1, <1>2, <1>3, <2>3
  <2> QED
    BY <1>1, <1>3, <2>1, <2>2, <2>3
<1>11. \A y \in bs : ~y.busy /\ y.region = b.region
                       /\ lo.data <= End(y) /\ y.data <= End(hi) => y \in run
  <2> SUFFICES ASSUME NEW y \in bs, ~y.busy, y.region = b.region,
                      lo.data <= End(y), y.data <= End(hi),
                      NEW a \in Nat,
                      (y.data <= a /\ a <= b.data) \/ (b.data <= a /\ a <= y.data)
               PROVE  \E z \in bs : ~z.busy /\ z.region = b.region /\ z.data <= a /\ a < End(z)
    BY <1>5
  <2>1. CASE y.data <= a /\ a < End(y)
    BY <2>1
  <2>2. CASE lo.data <= a /\ a < End(hi)
    BY <1>10, <2>2
  <2>3. b.data < End(hi) /\ lo.data <= b.data
    BY <1>1, <1>3, <1>8
  <2> QED
    BY <1>1, <1>3, <2>1, <2>2, <2>3
<1>12. \A y \in bs \ run : End(y) <= lo.data \/ End(hi) <= y.data
  <2> SUFFICES ASSUME NEW y \in bs \ run, ~(End(y) <= lo.data), ~(End(hi) <= y.data)
               PROVE  FALSE
    OBVIOUS
  <2> DEFINE a == IF y.data <= lo.data THEN lo.data ELSE y.data
  <2>1. a \in Nat /\ lo.data <= a /\ a < End(hi) /\ y.data <= a /\ a < End(y)
    BY <1>1, <1>3, <1>8
  <2> HIDE DEF a
  <2>2. PICK z \in bs : ~z.busy /\ z.region = b.region /\ z.data <= a /\ a < End(z)
    BY <1>10, <2>1
  <2>3. z = y
    BY <1>3, <1>4, <2>1, <2>2
  <2> QED
    BY <1>1, <1>3, <1>11, <2>2, <2>3
<1>t. Typed(new, regs)
  BY <1>1, <1>3, <1>7, <1>9 DEF Typed
<1>i. Inside(new, regs)
  <2>1. /\ lo.region = b.region /\ b.region <= lo.data
        /\ hi.region = b.region /\ End(hi) <= b.region + regs[b.region]
    BY <1>1, <1>2 DEF Inside
  <2> QED
    BY <1>7, <1>9, <2>1 DEF Inside
<1>a. Apart(new)
  BY <1>4, <1>7, <1>9, <1>12 DEF Apart
<1>c. Covered(new, regs)
  <2> SUFFICES ASSUME NEW r \in DOMAIN regs, NEW a \in Nat, r <= a, a < r + regs[r]
               PROVE  \E c \in new : c.region = r /\ c.data <= a /\ a < End(c)
    BY <1>t, CoveredBounds
  <2>1. PICK c \in bs : c.region = r /\ c.data <= a /\ a < End(c)
    BY CoveredBounds
  <2>2. CASE c \in run
    <3>1. m.region = r /\ m.data <= a /\ a < End(m)
      BY <1>1, <1>2, <1>3, <1>7, <1>9, <1>8, <2>1, <2>2
    <3> QED
      BY <3>1
  <2>3. CASE c \notin run
    BY <2>1, <2>3
  <2> QED
    BY <2>2, <2>3
<1>d. Coalesced(new)
  <2> SUFFICES ASSUME NEW c \in new, NEW d \in new, ~c.busy, ~d.busy,
                      c.region = d.region, End(c) = d.data
               PROVE  FALSE
    BY DEF Coalesced, Idle
  <2>0. lo.data < End(hi)
    BY <1>1, <1>3, <1>8
  <2>1. CASE c = m
    <3>1. d # m
      BY <1>1, <1>3, <1>7, <1>9, <2>0, <2>1
    <3>2. d \in bs \ run /\ d.region = b.region /\ d.data = End(hi)
      BY <1>7, <1>9, <2>1, <3>1
    <3> QED
      BY <1>1, <1>3, <1>11, <2>0, <3>2
  <2>2. CASE d = m /\ c # m
    <3>1. c \in bs \ run /\ c.region = b.region /\ End(c) = lo.data
      BY <1>7, <2>2
    <3> QED
      BY <1>1, <1>3, <1>11, <2>0, <3>1
  <2>3. CASE c # m /\ d # m
    BY <1>1, <2>3 DEF Coalesced, Idle
  <2> QED
    BY <2>1, <2>2, <2>3
<1>b. \A c : c.busy => (c \in new <=> c \in bs)
  BY <1>2, <1>7
<1> QED
  BY <1>6, <1>t, <1>i, <1>a, <1>c, <1>d, <1>b

\* The block that comes back, set idle where it is.
LEMMA FreedBeside ==
  ASSUME Sound(blocks, regions, live), NEW b \in blocks, NEW l \in live, b.data = l.ptr
  PROVE  LET fb == Freed(b)
             bs == (blocks \ {b}) \cup {fb}
         IN  /\ b.busy /\ fb.busy = FALSE /\ fb.byte_size = b.byte_size /\ fb \notin blocks
             /\ \A k \in live : k.ptr = b.data => k = l
             /\ \A c \in blocks : c.data = b.data => c = b
             /\ Typed(bs, regions) /\ Inside(bs, regions) /\ Apart(bs) /\ Covered(bs, regions)
             /\ Coalesced(bs \ {fb})
<1> DEFINE fb == Freed(b)
           bs == (blocks \ {b}) \cup {fb}
<1>0. Typed(blocks, regions) /\ live \subseteq Buffers /\ Inside(blocks, regions)
      /\ Apart(blocks) /\ Covered(blocks, regions) /\ Coalesced(blocks)
      /\ Backed(blocks, live)
  BY DEF Sound
<1>1. /\ b.busy
      /\ \A k \in live : k.ptr = b.data => k = l
      /\ \A c \in blocks : c.data = b.data => c = b
  BY <1>0, OneBlockAt DEF Backed
<1>2. /\ fb.data = b.data /\ fb.byte_size = b.byte_size /\ fb.busy = FALSE
      /\ fb.region = b.region /\ End(fb) = End(b)
      /\ fb = BlockOf(fb.data, fb.byte_size, fb.busy, fb.region)
  BY DEF Freed, BlockOf, End
<1> HIDE DEF fb
<1>3. fb \notin blocks
  BY <1>1, <1>2
<1>4. bs \ {fb} \subseteq blocks /\ fb \in bs
  OBVIOUS
<1>5. Typed(bs, regions)
  BY <1>0, <1>2 DEF Typed
<1>6. Inside(bs, regions)
  BY <1>0, <1>2 DEF Inside
<1>7. Apart(bs)
  BY <1>0, <1>2 DEF Apart
<1>8. Covered(bs, regions)
  <2> SUFFICES ASSUME NEW r \in DOMAIN regions, NEW a \in Nat, r <= a, a < r + regions[r]
               PROVE  \E c \in bs : c.region = r /\ c.data <= a /\ a < End(c)
    BY <1>5, CoveredBounds
  <2>1. PICK c \in blocks : c.region = r /\ c.data <= a /\ a < End(c)
    BY <1>0, CoveredBounds
  <2> QED
    BY <1>2, <2>1
<1>9. Coalesced(bs \ {fb})
  BY <1>0, <1>4 DEF Coalesced, Idle
<1> QED
  BY <1>1, <1>2, <1>3, <1>5, <1>6, <1>7, <1>8, <1>9 DEF fb

\* Release, before anything goes back to the driver.
LEMMA ReturnKeeps ==
  ASSUME Sound(blocks, regions, live), NEW b \in blocks, NEW l \in live, b.data = l.ptr
  PROVE  Sound(Returned(b), regions, live \ {l})
<1> DEFINE fb == Freed(b)
           bs == (blocks \ {b}) \cup {fb}
           new == Merged(bs, fb)
<1>0. live \subseteq Buffers /\ Backed(blocks, live)
  BY DEF Sound
<1>1. /\ b.busy /\ fb.busy = FALSE
      /\ \A k \in live : k.ptr = b.data => k = l
      /\ \A c \in blocks : c.data = b.data => c = b
      /\ Typed(bs, regions) /\ Inside(bs, regions) /\ Apart(bs) /\ Covered(bs, regions)
      /\ Coalesced(bs \ {fb})
  BY FreedBeside
<1>2. Returned(b) = new
  BY DEF Returned
<1> HIDE DEF fb
<1>3. /\ Typed(new, regions) /\ Inside(new, regions) /\ Apart(new)
      /\ Covered(new, regions) /\ Coalesced(new)
      /\ \A c : c.busy => (c \in new <=> c \in bs)
  BY <1>1, MergeTiles
<1> HIDE DEF new
<1>4. \A c : c.busy => (c \in new <=> c \in blocks \ {b})
  BY <1>1, <1>3
<1>5. Backed(new, live \ {l})
  BY <1>0, <1>1, <1>4 DEF Backed
<1> QED
  BY <1>0, <1>2, <1>3, <1>5 DEF Sound

-------------------------------------------------------------------------------
(* The invariant.                                                            *)

\* An empty pool is sound.
LEMMA InitIInv == Init => IInv
<1> SUFFICES ASSUME Init PROVE IInv
  OBVIOUS
<1>1. blocks = {} /\ regions = <<>> /\ live = {} /\ refused = {}
  BY DEF Init
<1>2. DOMAIN regions = {} /\ regions \in [DOMAIN regions -> Nat \ {0}]
  BY <1>1
<1> QED
  BY <1>1, <1>2
     DEF IInv, Sound, Typed, Inside, Apart, Covered, Coalesced, Idle, Backed, Buffers

\* Giving back regions of the pool, after any change that left them as they were.
LEMMA FreeRegionsKeeps ==
  ASSUME NEW bs, Sound(bs, regions, live'), NEW idle, NEW freed \in SUBSET WholeIdle(bs),
         FreeRegions(bs, idle, freed)
  PROVE  IInv'
<1>1. /\ blocks' = bs \ freed /\ regions' = RegionsWithout(freed)
      /\ refused' = {b.region : b \in WholeIdle(bs) \ freed}
  BY DEF FreeRegions, Offer
<1> QED
  BY <1>1, DropKeeps DEF IInv

\* The four ways an allocation ends.
LEMMA AllocateKeeps ==
  ASSUME IInv, NEW n \in Sizes, Allocate(n)
  PROVE  IInv'
<1>0. n \in Nat \ {0} /\ RoundUp(n) \in Nat \ {0} /\ n <= RoundUp(n)
  BY DeviceConstants, RoundedUp
<1>1. Sound(blocks, regions, live) /\ refused \subseteq DOMAIN regions
  BY DEF IInv
<1>2. CASE Reuse(n)
  <2>1. PICK b \in Fits(RoundUp(n)) :
          /\ blocks' = (blocks \ {b}) \cup Split(b, RoundUp(n))
          /\ HandOut(b.data, n)
          /\ UNCHANGED <<regions, reserved_bytes, refused>>
    BY <1>2 DEF Reuse
  <2>2. b \in blocks /\ ~b.busy /\ RoundUp(n) <= b.byte_size
    <3>1. b \in blocks /\ ~b.busy /\ b.byte_size >= RoundUp(n)
      BY DEF Fits, Idle
    <3>2. b.byte_size \in Nat
      BY <1>1, <3>1 DEF Sound, Typed
    <3> QED
      BY <1>0, <3>1, <3>2
  <2>3. Sound((blocks \ {b}) \cup Split(b, RoundUp(n)), regions,
              live \cup {[ptr |-> b.data, size |-> n]})
    BY <1>0, <1>1, <2>2, SplitKeeps
  <2> QED
    BY <1>1, <2>1, <2>3 DEF IInv, HandOut
<1>3. CASE Grow(n)
  <2>1. PICK base \in Room(regions, RoundUp(n)) :
          /\ blocks' = blocks \cup {BlockOf(base, RoundUp(n), TRUE, base)}
          /\ regions' = RegionsWith(regions, base, RoundUp(n))
          /\ HandOut(base, n)
    BY <1>3 DEF Grow
  <2>2. refused' = refused
    BY <1>3 DEF Grow
  <2>3. Sound(blocks \cup {BlockOf(base, RoundUp(n), TRUE, base)},
              RegionsWith(regions, base, RoundUp(n)),
              live \cup {[ptr |-> base, size |-> n]})
    BY <1>0, <1>1, FreshKeeps
  <2>4. DOMAIN RegionsWith(regions, base, RoundUp(n)) = DOMAIN regions \cup {base}
    BY DEF RegionsWith
  <2> QED
    BY <1>1, <2>1, <2>2, <2>3, <2>4 DEF IInv, HandOut
<1>4. CASE RetryGrow(n)
  <2>1. PICK freed \in SUBSET WholeIdle(blocks) :
          /\ Offer(blocks, freed)
          /\ \E base \in Room(RegionsWithout(freed), RoundUp(n)) :
               /\ blocks' = (blocks \ freed) \cup {BlockOf(base, RoundUp(n), TRUE, base)}
               /\ regions' = RegionsWith(RegionsWithout(freed), base, RoundUp(n))
               /\ HandOut(base, n)
    BY <1>4 DEF RetryGrow
  <2>2. PICK base \in Room(RegionsWithout(freed), RoundUp(n)) :
          /\ blocks' = (blocks \ freed) \cup {BlockOf(base, RoundUp(n), TRUE, base)}
          /\ regions' = RegionsWith(RegionsWithout(freed), base, RoundUp(n))
          /\ HandOut(base, n)
    BY <2>1
  <2>3. /\ Sound(blocks \ freed, RegionsWithout(freed), live)
        /\ {b.region : b \in WholeIdle(blocks) \ freed} \subseteq DOMAIN RegionsWithout(freed)
    BY <1>1, DropKeeps
  <2>4. Sound((blocks \ freed) \cup {BlockOf(base, RoundUp(n), TRUE, base)},
              RegionsWith(RegionsWithout(freed), base, RoundUp(n)),
              live \cup {[ptr |-> base, size |-> n]})
    BY <1>0, <2>3, FreshKeeps
  <2>5. DOMAIN RegionsWith(RegionsWithout(freed), base, RoundUp(n))
          = DOMAIN RegionsWithout(freed) \cup {base}
    BY DEF RegionsWith
  <2>6. refused' = {b.region : b \in WholeIdle(blocks) \ freed}
    BY <2>1 DEF Offer
  <2> QED
    BY <2>2, <2>3, <2>4, <2>5, <2>6 DEF IInv, HandOut
<1>5. CASE OutOfMemory(n)
  <2>1. PICK freed \in SUBSET WholeIdle(blocks) : FreeRegions(blocks, idle_bytes, freed)
    BY <1>5 DEF OutOfMemory
  <2>2. live' = live
    BY <1>5 DEF OutOfMemory
  <2> QED
    BY <1>1, <2>1, <2>2, FreeRegionsKeeps
<1> QED
  BY <1>2, <1>3, <1>4, <1>5 DEF Allocate

\* Every step of the pool.
LEMMA NextIInv == IInv /\ [Next]_vars => IInv'
<1> SUFFICES ASSUME IInv, [Next]_vars PROVE IInv'
  OBVIOUS
<1>0. Sound(blocks, regions, live) /\ refused \subseteq DOMAIN regions
  BY DEF IInv
<1>1. ASSUME NEW n \in Sizes, Allocate(n) PROVE IInv'
  BY <1>1, AllocateKeeps
<1>2. ASSUME NEW l \in live, Release(l) PROVE IInv'
  <2>1. PICK b \in blocks :
          /\ b.data = l.ptr
          /\ live' = live \ {l}
          /\ \/ \E freed \in SUBSET WholeIdle(Returned(b)) :
                  FreeRegions(Returned(b), idle_bytes + b.byte_size, freed)
             \/ /\ blocks' = Returned(b)
                /\ UNCHANGED <<regions, reserved_bytes, refused>>
    BY <1>2 DEF Release
  <2>2. Sound(Returned(b), regions, live \ {l})
    BY <1>0, <2>1, ReturnKeeps
  <2>3. ASSUME NEW freed \in SUBSET WholeIdle(Returned(b)),
               FreeRegions(Returned(b), idle_bytes + b.byte_size, freed)
        PROVE  IInv'
    <3>1. Sound(Returned(b), regions, live')
      BY <2>1, <2>2
    <3> QED
      BY <2>3, <3>1, FreeRegionsKeeps
  <2>4. CASE blocks' = Returned(b) /\ UNCHANGED <<regions, reserved_bytes, refused>>
    BY <1>0, <2>1, <2>2, <2>4 DEF IInv
  <2> QED
    BY <2>1, <2>3, <2>4
<1>3. CASE FreeIdle
  <2>1. PICK freed \in SUBSET WholeIdle(blocks) : FreeRegions(blocks, idle_bytes, freed)
    BY <1>3 DEF FreeIdle
  <2>2. live' = live
    BY <1>3 DEF FreeIdle
  <2> QED
    BY <1>0, <2>1, <2>2, FreeRegionsKeeps
<1>4. CASE UNCHANGED vars
  BY <1>0, <1>4 DEF IInv, vars
<1> QED
  BY <1>1, <1>2, <1>3, <1>4 DEF Next

\* So it holds of every behaviour.
LEMMA IInvHolds == Spec => []IInv
BY InitIInv, NextIInv, PTL DEF Spec

-------------------------------------------------------------------------------
(* Sums.                                                                     *)

Pick(s) == CHOOSE x \in s : TRUE

\* Sums of the sets of blocks within T, and how Bytes reads one from them.
IsTable(T, g) ==
  g = [s \in SUBSET T |-> IF s = {} THEN 0 ELSE Pick(s).byte_size + g[s \ {Pick(s)}]]
TableOf(T) == CHOOSE g : IsTable(T, g)

\* The sum over a set is the entry for it.
LEMMA BytesRead ==
  ASSUME NEW T PROVE Bytes(T) = TableOf(T)[T]
BY DEF Bytes, MapThenSumSet, MapThenFoldSet, TableOf, IsTable, Pick

\* What holds of a finite set whenever it holds of its smaller subsets holds of
\* all: no set is the smallest of those that differ.
LEMMA SmallestOf ==
  ASSUME NEW family, family # {}, \A s \in family : IsFiniteSet(s)
  PROVE  \E s \in family : \A x \in s : s \ {x} \notin family
<1> DEFINE sizes == {Cardinality(s) : s \in family}
<1>1. \A s \in family : Cardinality(s) \in Nat
  BY FS_CardinalityType
<1>2. PICK n \in sizes : \A m \in sizes : n <= m
  BY <1>1, LeastNatural
<1>3. PICK s \in family : Cardinality(s) = n
  BY <1>2
<1>4. ASSUME NEW x \in s, s \ {x} \in family PROVE FALSE
  <2>1. Cardinality(s \ {x}) = n - 1
    BY <1>3, FS_RemoveElement
  <2>2. n <= Cardinality(s \ {x}) /\ n \in Nat
    BY <1>1, <1>2, <1>3, <1>4
  <2> QED
    BY <2>1, <2>2
<1> QED
  BY <1>4

\* Entries of a table.
LEMMA TableEntry ==
  ASSUME NEW T, NEW g, IsTable(T, g), NEW s \in SUBSET T
  PROVE  /\ s = {} => g[s] = 0
         /\ s # {} => /\ Pick(s) \in s /\ s \ {Pick(s)} \in SUBSET T
                      /\ g[s] = Pick(s).byte_size + g[s \ {Pick(s)}]
<1>1. g[s] = IF s = {} THEN 0 ELSE Pick(s).byte_size + g[s \ {Pick(s)}]
  BY DEF IsTable
<1>2. s # {} => Pick(s) \in s
  BY DEF Pick
<1> QED
  BY <1>1, <1>2

\* Two tables agree where both have an entry.
LEMMA TablesAgree ==
  ASSUME NEW T, NEW g, IsTable(T, g), NEW U, NEW h, IsTable(U, h),
         NEW s \in SUBSET (T \cap U), IsFiniteSet(s)
  PROVE  g[s] = h[s]
<1> DEFINE family == {r \in SUBSET s : g[r] # h[r]}
<1> SUFFICES ASSUME g[s] # h[s] PROVE FALSE
  OBVIOUS
<1>1. s \in family /\ \A r \in family : IsFiniteSet(r) /\ r \in SUBSET T /\ r \in SUBSET U
  BY FS_Subset
<1>2. PICK r \in family : \A x \in r : r \ {x} \notin family
  <2> HIDE DEF family
  <2> QED
    BY <1>1, SmallestOf
<1>3. r # {}
  BY <1>1, <1>2, TableEntry
<1>4. /\ Pick(r) \in r /\ g[r] = Pick(r).byte_size + g[r \ {Pick(r)}]
      /\ h[r] = Pick(r).byte_size + h[r \ {Pick(r)}]
  BY <1>1, <1>3, TableEntry
<1>5. g[r \ {Pick(r)}] = h[r \ {Pick(r)}]
  BY <1>2, <1>4
<1> QED
  BY <1>2, <1>4, <1>5

\* A finite set has a table, whatever it sums.
LEMMA TableExists ==
  ASSUME NEW T, IsFiniteSet(T)
  PROVE  IsTable(T, TableOf(T))
<1> DEFINE family == {s \in SUBSET T : ~\E g : IsTable(s, g)}
<1>1. \A s \in SUBSET T : IsFiniteSet(s)
  BY FS_Subset
<1> SUFFICES ASSUME family # {} PROVE FALSE
  BY DEF TableOf
<1>2. PICK s \in family : \A x \in s : s \ {x} \notin family
  <2>1. \A r \in family : IsFiniteSet(r)
    BY <1>1
  <2> HIDE DEF family
  <2> QED
    BY <2>1, SmallestOf
<1>3. ASSUME NEW u \in SUBSET s, u # s PROVE IsTable(u, TableOf(u))
  <2>1. PICK x \in s : x \notin u
    BY <1>3
  <2>2. PICK g : IsTable(s \ {x}, g)
    BY <1>2
  <2>3. IsTable(u, [r \in SUBSET u |-> g[r]])
    BY <2>1, <2>2 DEF IsTable, Pick
  <2> QED
    BY <2>3 DEF TableOf
<1> DEFINE h == [r \in SUBSET s |->
                   IF r = {} THEN 0
                   ELSE Pick(r).byte_size + TableOf(r \ {Pick(r)})[r \ {Pick(r)}]]
<1>4. ASSUME NEW r \in SUBSET s, r # {} PROVE h[r \ {Pick(r)}] = TableOf(r \ {Pick(r)})[r \ {Pick(r)}]
  <2>1. PICK u : u = r \ {Pick(r)}
    OBVIOUS
  <2>2. u \in SUBSET s /\ u # s
    BY <1>4, <2>1 DEF Pick
  <2>3. IsTable(u, TableOf(u))
    BY <1>3, <2>2
  <2>4. CASE u = {}
    BY <2>1, <2>2, <2>3, <2>4, TableEntry
  <2>5. CASE u # {}
    <3>1. PICK v : v = u \ {Pick(u)}
      OBVIOUS
    <3>2. v \in SUBSET s /\ v # s /\ v \in SUBSET (u \cap v)
      BY <2>2, <2>5, <3>1 DEF Pick
    <3>3. IsTable(v, TableOf(v)) /\ IsFiniteSet(v)
      BY <1>1, <1>3, <3>2
    <3>4. TableOf(u)[v] = TableOf(v)[v]
      BY <2>3, <3>2, <3>3, TablesAgree
    <3>5. TableOf(u)[u] = Pick(u).byte_size + TableOf(u)[v]
      BY <2>3, <2>5, <3>1, TableEntry
    <3>6. h[u] = Pick(u).byte_size + TableOf(v)[v]
      BY <2>2, <2>5, <3>1
    <3> QED
      BY <2>1, <3>4, <3>5, <3>6
  <2> QED
    BY <2>4, <2>5
<1>5. IsTable(s, h)
  <2>1. \A r \in SUBSET s :
          h[r] = IF r = {} THEN 0 ELSE Pick(r).byte_size + h[r \ {Pick(r)}]
    BY <1>4
  <2>2. h = [r \in SUBSET s |-> h[r]]
    OBVIOUS
  <2> HIDE DEF h
  <2> QED
    BY <2>1, <2>2 DEF IsTable
<1> QED
  BY <1>2, <1>5

\* Blocks that can be summed.
Summable(S) == IsFiniteSet(S) /\ \A b \in S : b.byte_size \in Nat

\* The sum as it is computed.
LEMMA BytesPicked ==
  ASSUME NEW S, IsFiniteSet(S)
  PROVE  /\ Bytes({}) = 0
         /\ S # {} => Pick(S) \in S /\ Bytes(S) = Pick(S).byte_size + Bytes(S \ {Pick(S)})
<1>1. IsTable({}, TableOf({})) /\ IsTable(S, TableOf(S))
  BY FS_EmptySet, TableExists
<1>2. Bytes({}) = 0
  BY <1>1, BytesRead, TableEntry
<1>3. ASSUME S # {}
      PROVE  Pick(S) \in S /\ Bytes(S) = Pick(S).byte_size + Bytes(S \ {Pick(S)})
  <2>1. PICK u : u = S \ {Pick(S)}
    OBVIOUS
  <2>2. Pick(S) \in S /\ TableOf(S)[S] = Pick(S).byte_size + TableOf(S)[u]
    BY <1>1, <1>3, <2>1, TableEntry
  <2>3. IsFiniteSet(u) /\ u \in SUBSET (S \cap u)
    BY <2>1, FS_RemoveElement
  <2>4. TableOf(S)[u] = TableOf(u)[u]
    BY <1>1, <2>3, TableExists, TablesAgree
  <2> QED
    BY <2>1, <2>2, <2>4, BytesRead
<1> QED
  BY <1>2, <1>3

\* It is a number.
LEMMA BytesNat ==
  ASSUME NEW S, Summable(S)
  PROVE  Bytes(S) \in Nat
<1> DEFINE family == {s \in SUBSET S : Bytes(s) \notin Nat}
<1> SUFFICES ASSUME family # {} PROVE FALSE
  OBVIOUS
<1>1. \A s \in SUBSET S : IsFiniteSet(s)
  BY FS_Subset DEF Summable
<1>2. PICK s \in family : \A x \in s : s \ {x} \notin family
  <2>1. \A r \in family : IsFiniteSet(r)
    BY <1>1
  <2> HIDE DEF family
  <2> QED
    BY <2>1, SmallestOf
<1>3. s # {}
  <2>1. Bytes({}) = 0
    BY FS_EmptySet, BytesPicked
  <2> QED
    BY <1>2, <2>1
<1>4. Pick(s) \in s /\ Bytes(s) = Pick(s).byte_size + Bytes(s \ {Pick(s)})
  BY <1>1, <1>2, <1>3, BytesPicked
<1>5. Pick(s).byte_size \in Nat /\ Bytes(s \ {Pick(s)}) \in Nat
  BY <1>2, <1>4 DEF Summable
<1> QED
  BY <1>2, <1>4, <1>5

\* It does not matter which block is taken out.
LEMMA BytesWithout ==
  ASSUME NEW S, Summable(S), NEW b \in S
  PROVE  Summable(S \ {b}) /\ Bytes(S) = b.byte_size + Bytes(S \ {b})
<1> DEFINE family == {s \in SUBSET S : \E x \in s : Bytes(s) # x.byte_size + Bytes(s \ {x})}
<1>1. \A s \in SUBSET S : Summable(s)
  BY FS_Subset DEF Summable
<1> SUFFICES ASSUME family # {} PROVE FALSE
  BY <1>1
<1>2. PICK s \in family : \A x \in s : s \ {x} \notin family
  <2>1. \A r \in family : IsFiniteSet(r)
    BY <1>1 DEF Summable
  <2> HIDE DEF family
  <2> QED
    BY <2>1, SmallestOf
<1>3. s \in SUBSET S /\ IsFiniteSet(s)
  BY <1>1, <1>2 DEF Summable
<1>4. PICK x \in s : Bytes(s) # x.byte_size + Bytes(s \ {x})
  BY <1>2
<1>5. PICK y : y = Pick(s)
  OBVIOUS
<1>6. y \in s /\ Bytes(s) = y.byte_size + Bytes(s \ {y})
  BY <1>3, <1>4, <1>5, BytesPicked
<1>7. x # y
  BY <1>4, <1>6
<1>8. /\ Bytes(s \ {y}) = x.byte_size + Bytes((s \ {y}) \ {x})
      /\ Bytes(s \ {x}) = y.byte_size + Bytes((s \ {x}) \ {y})
  BY <1>2, <1>3, <1>4, <1>6, <1>7
<1>9. (s \ {y}) \ {x} = (s \ {x}) \ {y} /\ (s \ {x}) \ {y} \in SUBSET S
  BY <1>3
<1>10. /\ Bytes((s \ {x}) \ {y}) \in Nat /\ x.byte_size \in Nat /\ y.byte_size \in Nat
  BY <1>1, <1>3, <1>4, <1>6, <1>9, BytesNat DEF Summable
<1>11. PICK m, n, k : m = x.byte_size /\ n = y.byte_size /\ k = Bytes((s \ {x}) \ {y})
  OBVIOUS
<1>12. Bytes(s) = n + (m + k) /\ x.byte_size + Bytes(s \ {x}) = m + (n + k)
  BY <1>6, <1>8, <1>9, <1>11
<1>13. m \in Nat /\ n \in Nat /\ k \in Nat
  BY <1>10, <1>11
<1>14. n + (m + k) = m + (n + k)
  BY <1>13
<1> QED
  BY <1>4, <1>12, <1>14

\* A block more.
LEMMA BytesWith ==
  ASSUME NEW S, Summable(S), NEW b, b \notin S, b.byte_size \in Nat
  PROVE  Summable(S \cup {b}) /\ Bytes(S \cup {b}) = b.byte_size + Bytes(S)
<1>1. Summable(S \cup {b})
  BY FS_AddElement DEF Summable
<1>2. (S \cup {b}) \ {b} = S
  OBVIOUS
<1> QED
  BY <1>1, <1>2, BytesWithout

\* A part and the rest.
LEMMA BytesParts ==
  ASSUME NEW S, Summable(S), NEW part \in SUBSET S
  PROVE  /\ Summable(part) /\ Summable(S \ part)
         /\ Bytes(S) = Bytes(part) + Bytes(S \ part)
<1> DEFINE family == {s \in SUBSET part : Bytes(S) # Bytes(s) + Bytes(S \ s)}
<1>1. \A s \in SUBSET S : Summable(s) /\ Bytes(s) \in Nat
  BY FS_Subset, BytesNat DEF Summable
<1> SUFFICES ASSUME family # {} PROVE FALSE
  BY <1>1
<1>2. PICK s \in family : \A x \in s : s \ {x} \notin family
  <2>1. \A r \in family : IsFiniteSet(r)
    BY <1>1 DEF Summable
  <2> HIDE DEF family
  <2> QED
    BY <2>1, SmallestOf
<1>3. s # {}
  <2>1. Bytes({}) = 0 /\ S \ {} = S
    BY FS_EmptySet, BytesPicked
  <2> QED
    BY <1>1, <1>2, <2>1
<1>4. PICK x \in s : TRUE
  BY <1>3
<1>5. Bytes(S) = Bytes(s \ {x}) + Bytes(S \ (s \ {x}))
  BY <1>2, <1>4
<1>6. Bytes(s) = x.byte_size + Bytes(s \ {x})
  BY <1>1, <1>2, <1>4, BytesWithout
<1>7. Bytes(S \ (s \ {x})) = x.byte_size + Bytes(S \ s)
  <2>1. (S \ (s \ {x})) \ {x} = S \ s /\ x \in S \ (s \ {x})
    BY <1>2, <1>4
  <2> QED
    BY <1>1, <2>1, BytesWithout
<1>8. Bytes(s \ {x}) \in Nat /\ Bytes(S \ s) \in Nat /\ x.byte_size \in Nat
  BY <1>1, <1>2, <1>4 DEF Summable
<1>9. PICK m, n, k : m = x.byte_size /\ n = Bytes(s \ {x}) /\ k = Bytes(S \ s)
  OBVIOUS
<1>10. Bytes(S) = n + (m + k) /\ Bytes(s) = m + n
  BY <1>5, <1>6, <1>7, <1>9
<1>11. m \in Nat /\ n \in Nat /\ k \in Nat
  BY <1>8, <1>9
<1>12. n + (m + k) = (m + n) + k
  BY <1>11
<1> QED
  BY <1>2, <1>9, <1>10, <1>12

-------------------------------------------------------------------------------
(* The ledger.                                                               *)

\* Blocks of the pool can be summed, all of them or those that are idle.
LEMMA Sums ==
  ASSUME NEW bs, NEW regs, Typed(bs, regs), IsFiniteSet(bs)
  PROVE  /\ Summable(bs) /\ Summable(Idle(bs)) /\ Idle(bs) \in SUBSET bs
         /\ Bytes(bs) \in Nat /\ Bytes(Idle(bs)) \in Nat
         /\ \A b \in bs : b.byte_size \in Nat \ {0}
<1>1. \A b \in bs : b.byte_size \in Nat \ {0}
  BY DEF Typed
<1>2. Summable(bs) /\ Idle(bs) \in SUBSET bs
  BY <1>1 DEF Summable, Idle
<1>3. Summable(Idle(bs))
  BY <1>2, BytesParts
<1> QED
  BY <1>1, <1>2, <1>3, BytesNat

\* One block.
LEMMA BytesOfOne ==
  ASSUME NEW b, b.byte_size \in Nat
  PROVE  Summable({b}) /\ Bytes({b}) = b.byte_size
<1>1. Summable({}) /\ Bytes({}) = 0
  BY FS_EmptySet, BytesPicked DEF Summable
<1>2. {} \cup {b} = {b}
  OBVIOUS
<1>3. Summable({} \cup {b}) /\ Bytes({} \cup {b}) = b.byte_size + Bytes({})
  BY <1>1, BytesWith
<1> QED
  BY <1>1, <1>2, <1>3

\* Splitting an idle block takes the head, and no more, off the idle bytes.
LEMMA SplitLedger ==
  ASSUME NEW bs, NEW regs, NEW lv, Sound(bs, regs, lv), IsFiniteSet(bs),
         NEW b \in bs, ~b.busy, NEW w \in Nat \ {0}, w <= b.byte_size
  PROVE  LET parts == Split(b, w)
             new == (bs \ {b}) \cup parts
         IN  /\ IsFiniteSet(new) /\ Bytes(new) = Bytes(bs)
             /\ Bytes(Idle(new)) = Bytes(Idle(bs)) - Bytes(parts \ Idle(parts))
             /\ Bytes(parts \ Idle(parts)) \in Nat
             /\ \A c \in Idle(new) : c \in Idle(bs) \/ c.data # c.region
<1> DEFINE parts == Split(b, w)
           whole == ~(b.byte_size - w >= Alignment)
           head == BlockOf(b.data, IF whole THEN b.byte_size ELSE w, TRUE, b.region)
           tail == BlockOf(b.data + w, b.byte_size - w, FALSE, b.region)
           rest == bs \ {b}
<1>0. Typed(bs, regs) /\ Apart(bs) /\ Inside(bs, regs)
  BY DEF Sound
<1>1. /\ b.data \in Nat /\ b.byte_size \in Nat \ {0} /\ b.region \in Nat /\ End(b) = b.data + b.byte_size
      /\ b.region <= b.data
  BY <1>0, BlockMembers DEF Inside
<1>2. Alignment \in Nat \ {0}
  BY DeviceConstants
<1>3. /\ Summable(bs) /\ Summable(Idle(bs)) /\ b \in Idle(bs)
      /\ Bytes(bs) \in Nat /\ Bytes(Idle(bs)) \in Nat
  BY <1>0, Sums DEF Idle
<1>4. /\ Summable(rest) /\ Bytes(bs) = b.byte_size + Bytes(rest)
      /\ Summable(Idle(bs) \ {b}) /\ Bytes(Idle(bs)) = b.byte_size + Bytes(Idle(bs) \ {b})
  BY <1>3, BytesWithout
<1>5. Bytes(rest) \in Nat /\ Bytes(Idle(bs) \ {b}) \in Nat
  BY <1>4, BytesNat
<1>6. /\ head.data = b.data /\ head.busy = TRUE /\ head.region = b.region
      /\ head.byte_size = IF whole THEN b.byte_size ELSE w
      /\ tail.data = b.data + w /\ tail.busy = FALSE /\ tail.region = b.region
      /\ tail.byte_size = b.byte_size - w
  BY DEF BlockOf
<1>7. parts = IF whole THEN {head} ELSE {head, tail}
  BY DEF Split, BlockOf
<1>8. \A c \in rest : /\ c.data \in Nat /\ End(c) \in Nat /\ c.data < End(c)
                      /\ End(c) <= b.data \/ End(b) <= c.data
  BY <1>0, BlockMembers DEF Apart
<1> HIDE DEF head, tail, whole, parts, rest
<1>9. head \notin rest /\ Idle(rest) = Idle(bs) \ {b}
  BY <1>1, <1>6, <1>8 DEF Idle, rest
<1>10. parts \ Idle(parts) = {head}
  BY <1>6, <1>7 DEF Idle
<1>11. head.byte_size \in Nat /\ Bytes({head}) = head.byte_size
  BY <1>1, <1>6, BytesOfOne
<1>12. Summable(rest \cup {head}) /\ Bytes(rest \cup {head}) = head.byte_size + Bytes(rest)
  BY <1>4, <1>9, <1>11, BytesWith
<1>13. CASE whole
  <2>1. (bs \ {b}) \cup parts = rest \cup {head}
    BY <1>7, <1>13 DEF rest
  <2>2. Idle(rest \cup {head}) = Idle(bs) \ {b}
    BY <1>6, <1>9 DEF Idle
  <2>3. head.byte_size = b.byte_size
    BY <1>6, <1>13
  <2>4. Bytes(Idle(bs) \ {b}) = Bytes(Idle(bs)) - b.byte_size
    BY <1>1, <1>3, <1>4, <1>5
  <2> QED
    BY <1>4, <1>10, <1>11, <1>12, <2>1, <2>2, <2>3, <2>4 DEF Summable, parts
<1>14. CASE ~whole
  <2>1. (bs \ {b}) \cup parts = (rest \cup {head}) \cup {tail}
    BY <1>7, <1>14 DEF rest
  <2>2. Idle((rest \cup {head}) \cup {tail}) = (Idle(bs) \ {b}) \cup {tail}
    BY <1>6, <1>9 DEF Idle
  <2>3. /\ head.byte_size = w /\ tail.byte_size \in Nat /\ tail.data < End(b) /\ b.data < tail.data
        /\ b.byte_size = w + tail.byte_size
    <3>1. b.byte_size - w >= Alignment
      BY <1>14 DEF whole
    <3> QED
      BY <1>1, <1>2, <1>6, <1>14, <3>1
  <2>4. tail \notin rest \cup {head}
    BY <1>1, <1>6, <1>8, <2>3
  <2>5. tail \notin Idle(bs) \ {b}
    BY <2>4 DEF Idle, rest
  <2>6. /\ Summable((rest \cup {head}) \cup {tail})
        /\ Bytes((rest \cup {head}) \cup {tail}) = tail.byte_size + (w + Bytes(rest))
        /\ Bytes((Idle(bs) \ {b}) \cup {tail}) = tail.byte_size + Bytes(Idle(bs) \ {b})
    BY <1>4, <1>12, <2>3, <2>4, <2>5, BytesWith
  <2>7. PICK m, n, i, k : /\ m = tail.byte_size /\ n = Bytes(rest) /\ i = Bytes(Idle(bs) \ {b})
                          /\ k = Bytes(Idle(bs))
    OBVIOUS
  <2>8. m \in Nat /\ n \in Nat /\ i \in Nat /\ k \in Nat
    BY <1>3, <1>5, <2>3, <2>7
  <2>9. Bytes(bs) = (w + m) + n /\ k = (w + m) + i
    BY <1>4, <2>3, <2>7
  <2>10. m + (w + n) = (w + m) + n /\ m + i = k - w
    BY <2>8, <2>9
  <2>11. \A c \in (Idle(bs) \ {b}) \cup {tail} : c \in Idle(bs) \/ c.data # c.region
    BY <1>1, <1>6, <2>3
  <2> QED
    BY <1>10, <1>11, <2>1, <2>2, <2>3, <2>6, <2>7, <2>9, <2>10, <2>11 DEF Summable, parts
<1> QED
  BY <1>13, <1>14

\* What the driver takes back is off both accounts.
LEMMA DropLedger ==
  ASSUME NEW bs, NEW regs, Typed(bs, regs), IsFiniteSet(bs), NEW freed \in SUBSET Idle(bs)
  PROVE  /\ IsFiniteSet(bs \ freed) /\ Bytes(bs \ freed) = Bytes(bs) - Bytes(freed)
         /\ Bytes(Idle(bs \ freed)) = Bytes(Idle(bs)) - Bytes(freed)
<1>1. Summable(bs) /\ Summable(Idle(bs)) /\ freed \in SUBSET bs
  BY Sums
<1>2. /\ Summable(freed) /\ Summable(bs \ freed) /\ Bytes(bs) = Bytes(freed) + Bytes(bs \ freed)
      /\ Summable(Idle(bs) \ freed)
      /\ Bytes(Idle(bs)) = Bytes(freed) + Bytes(Idle(bs) \ freed)
  BY <1>1, BytesParts
<1>3. Bytes(freed) \in Nat /\ Bytes(bs \ freed) \in Nat /\ Bytes(Idle(bs) \ freed) \in Nat
  BY <1>2, BytesNat
<1>4. Idle(bs \ freed) = Idle(bs) \ freed
  BY DEF Idle
<1>5. PICK f, m, n : f = Bytes(freed) /\ m = Bytes(bs \ freed) /\ n = Bytes(Idle(bs) \ freed)
  OBVIOUS
<1>6. m = (f + m) - f /\ n = (f + n) - f
  BY <1>3, <1>5
<1>7. Bytes(bs) = f + m /\ Bytes(Idle(bs)) = f + n
  BY <1>2, <1>5
<1> QED
  BY <1>2, <1>4, <1>5, <1>6, <1>7 DEF Summable

\* A region the driver hands out has a base no region has yet.
LEMMA RoomIsNew ==
  ASSUME NEW bs, NEW regs, Typed(bs, regs), NEW w \in Nat \ {0}, NEW base, base \in Room(regs, w)
  PROVE  base \notin DOMAIN regs
<1>1. \A r \in DOMAIN regs : r \in Nat /\ regs[r] \in Nat \ {0}
  BY DEF Typed
<1>2. base \in Nat /\ \A r \in DOMAIN regs : base + w <= r \/ r + regs[r] <= base
  BY DeviceConstants DEF Room
<1> QED
  BY <1>1, <1>2

\* A new region counts as reserved, and not as idle.
LEMMA FreshLedger ==
  ASSUME NEW bs, NEW regs, Typed(bs, regs), IsFiniteSet(bs), NEW w \in Nat \ {0}, NEW fresh,
         fresh.busy = TRUE, fresh.byte_size = w, fresh.region \notin DOMAIN regs
  PROVE  /\ IsFiniteSet(bs \cup {fresh}) /\ Bytes(bs \cup {fresh}) = Bytes(bs) + w
         /\ Idle(bs \cup {fresh}) = Idle(bs)
<1>1. fresh \notin bs
  BY DEF Typed
<1>2. Summable(bs \cup {fresh}) /\ Bytes(bs \cup {fresh}) = w + Bytes(bs) /\ Bytes(bs) \in Nat
  BY <1>1, Sums, BytesWith
<1>3. Idle(bs \cup {fresh}) = Idle(bs)
  BY DEF Idle
<1> QED
  BY <1>2, <1>3 DEF Summable

\* Merging adds up to what was merged.
LEMMA MergeLedger ==
  ASSUME NEW bs, NEW regs, Typed(bs, regs), Apart(bs), IsFiniteSet(bs), NEW b \in bs, ~b.busy,
         Coalesced(bs \ {b})
  PROVE  /\ IsFiniteSet(Merged(bs, b)) /\ Bytes(Merged(bs, b)) = Bytes(bs)
         /\ Bytes(Idle(Merged(bs, b))) = Bytes(Idle(bs))
<1> DEFINE run == Neighbours(bs, b)
           lo == First(run)
           hi == Last(run)
           m == BlockOf(lo.data, End(hi) - lo.data, FALSE, b.region)
           prev == {c \in run : End(c) = b.data}
           next == {c \in run : c.data = End(b)}
<1>1. /\ run \subseteq bs /\ b \in run /\ lo \in run /\ hi \in run
      /\ \A c \in run : lo.data <= c.data /\ c.data <= hi.data
  BY RunEnds
<1>2. \A c \in run : ~c.busy
  BY DEF Neighbours, Idle
<1>3. \A c \in bs : /\ c.data \in Nat /\ End(c) \in Nat /\ c.data < End(c)
                    /\ c.byte_size \in Nat /\ End(c) = c.data + c.byte_size
  BY BlockMembers
<1>4. \A c, d \in bs : c = d \/ End(c) <= d.data \/ End(d) <= c.data
  BY DEF Apart
<1>5. \A c \in run : c = b \/ End(c) = b.data \/ c.data = End(b)
  BY RunShape
<1>6. Merged(bs, b) = (bs \ run) \cup {m}
  BY DEF Merged
<1>7. m.data = lo.data /\ m.byte_size = End(hi) - lo.data /\ m.busy = FALSE
  BY DEF BlockOf
<1> HIDE DEF run, lo, hi, m
<1>8. /\ run = (prev \cup {b}) \cup next /\ b \notin prev
      /\ \A c \in next : c \notin prev /\ c # b
  BY <1>1, <1>3, <1>5
<1>9. /\ \A c, d \in prev : c = d
      /\ \A c, d \in next : c = d
  BY <1>1, <1>3, <1>4
<1>10. Summable(prev) /\ Bytes(prev) = b.data - lo.data
  <2>1. CASE prev = {}
    <3>1. lo = b
      BY <1>1, <1>3, <1>8, <2>1
    <3>2. Bytes({}) = 0 /\ Summable({})
      BY FS_EmptySet, BytesPicked DEF Summable
    <3>3. b.data - lo.data = 0
      BY <1>1, <1>3, <3>1
    <3> QED
      BY <2>1, <3>2, <3>3
  <2>2. CASE prev # {}
    <3>1. PICK p \in prev : prev = {p}
      BY <1>9, <2>2
    <3>2. lo = p
      BY <1>1, <1>3, <1>4, <1>5, <3>1
    <3>3. p \in bs /\ p.byte_size = b.data - lo.data
      BY <1>1, <1>3, <3>1, <3>2
    <3>4. Summable({p}) /\ Bytes({p}) = p.byte_size
      BY <1>3, <3>3, BytesOfOne
    <3> QED
      BY <3>1, <3>3, <3>4
  <2> QED
    BY <2>1, <2>2
<1>11. Summable(next) /\ Bytes(next) = End(hi) - End(b)
  <2>1. CASE next = {}
    <3>1. hi = b
      BY <1>1, <1>3, <1>8, <2>1
    <3>2. Bytes({}) = 0 /\ Summable({})
      BY FS_EmptySet, BytesPicked DEF Summable
    <3>3. End(hi) - End(b) = 0
      BY <1>1, <1>3, <3>1
    <3> QED
      BY <2>1, <3>2, <3>3
  <2>2. CASE next # {}
    <3>1. PICK p \in next : next = {p}
      BY <1>9, <2>2
    <3>2. hi = p
      BY <1>1, <1>3, <1>4, <1>5, <3>1
    <3>3. p \in bs /\ p.byte_size = End(hi) - End(b)
      BY <1>1, <1>3, <3>1, <3>2
    <3>4. Summable({p}) /\ Bytes({p}) = p.byte_size
      BY <1>3, <3>3, BytesOfOne
    <3> QED
      BY <3>1, <3>3, <3>4
  <2> QED
    BY <2>1, <2>2
<1>12. Summable(bs) /\ Summable(Idle(bs)) /\ run \in SUBSET Idle(bs) /\ run \in SUBSET bs
  BY <1>1, <1>2, Sums DEF Idle
<1>13. Summable(run) /\ Bytes(run) = m.byte_size
  <2>1. /\ Summable(run) /\ Bytes(run) = Bytes(next) + Bytes(run \ next)
        /\ Summable(run \ next)
    BY <1>8, <1>12, BytesParts
  <2>2. run \ next = prev \cup {b}
    BY <1>8
  <2>3. Bytes(prev \cup {b}) = b.byte_size + Bytes(prev)
    BY <1>1, <1>3, <1>8, <1>10, BytesWith
  <2>4. PICK i, j, k, l, n : /\ i = lo.data /\ j = b.data /\ k = End(b) /\ l = End(hi)
                             /\ n = b.byte_size
    OBVIOUS
  <2>5. i \in Nat /\ j \in Nat /\ k \in Nat /\ l \in Nat /\ n \in Nat /\ k = j + n
    BY <1>1, <1>3, <2>4
  <2>6. (l - k) + (n + (j - i)) = l - i
    BY <2>5
  <2> QED
    BY <1>7, <1>10, <1>11, <2>1, <2>2, <2>3, <2>4, <2>6
<1>14. m \notin bs \ run
  <2> SUFFICES ASSUME m \in bs, m \notin run PROVE FALSE
    OBVIOUS
  <2>1. m = lo \/ End(m) <= lo.data \/ End(lo) <= m.data
    BY <1>1, <1>4
  <2> QED
    BY <1>1, <1>3, <1>7, <2>1
<1>15. m.byte_size \in Nat
  BY <1>13, BytesNat
<1>16. /\ Summable(bs \ run) /\ Bytes(bs) = Bytes(run) + Bytes(bs \ run)
       /\ Summable(Idle(bs) \ run) /\ Bytes(Idle(bs)) = Bytes(run) + Bytes(Idle(bs) \ run)
  BY <1>12, BytesParts
<1>17. Summable((bs \ run) \cup {m}) /\ Bytes((bs \ run) \cup {m}) = Bytes(bs)
  BY <1>13, <1>14, <1>15, <1>16, BytesWith
<1>18. Idle((bs \ run) \cup {m}) = (Idle(bs) \ run) \cup {m}
  BY <1>7 DEF Idle
<1>19. m \notin Idle(bs) \ run
  BY <1>14 DEF Idle
<1>20. Bytes((Idle(bs) \ run) \cup {m}) = Bytes(Idle(bs))
  BY <1>13, <1>15, <1>16, <1>19, BytesWith
<1> QED
  BY <1>6, <1>17, <1>18, <1>20 DEF Summable

\* A block that comes back is idle, and no more.
LEMMA ReturnLedger ==
  ASSUME Sound(blocks, regions, live), IsFiniteSet(blocks),
         NEW b \in blocks, NEW l \in live, b.data = l.ptr
  PROVE  /\ IsFiniteSet(Returned(b)) /\ Bytes(Returned(b)) = Bytes(blocks)
         /\ Bytes(Idle(Returned(b))) = Bytes(Idle(blocks)) + b.byte_size
         /\ Typed(Returned(b), regions)
<1> DEFINE fb == Freed(b)
           bs == (blocks \ {b}) \cup {fb}
<1>1. /\ b.busy /\ fb.busy = FALSE /\ fb.byte_size = b.byte_size
      /\ Typed(bs, regions) /\ Inside(bs, regions) /\ Apart(bs) /\ Covered(bs, regions)
      /\ Coalesced(bs \ {fb}) /\ fb \notin blocks
  BY FreedBeside
<1>2. Returned(b) = Merged(bs, fb)
  BY DEF Returned
<1>3. /\ Typed(blocks, regions) /\ Summable(blocks) /\ Summable(Idle(blocks))
      /\ Bytes(Idle(blocks)) \in Nat /\ b.byte_size \in Nat
  BY Sums DEF Sound
<1> HIDE DEF fb
<1>4. Summable(blocks \ {b}) /\ Bytes(blocks) = b.byte_size + Bytes(blocks \ {b})
  BY <1>3, BytesWithout
<1>5. Summable(bs) /\ Bytes(bs) = Bytes(blocks)
  BY <1>1, <1>3, <1>4, BytesWith
<1>6. Idle(bs) = Idle(blocks) \cup {fb} /\ fb \notin Idle(blocks)
  BY <1>1 DEF Idle
<1>7. Bytes(Idle(bs)) = b.byte_size + Bytes(Idle(blocks))
  BY <1>1, <1>3, <1>6, BytesWith
<1>8. /\ IsFiniteSet(Merged(bs, fb)) /\ Bytes(Merged(bs, fb)) = Bytes(bs)
      /\ Bytes(Idle(Merged(bs, fb))) = Bytes(Idle(bs)) /\ Typed(Merged(bs, fb), regions)
  BY <1>1, <1>5, MergeLedger, MergeTiles DEF Summable
<1> QED
  BY <1>2, <1>3, <1>5, <1>7, <1>8

\* The ledger with what it rests on: the pool is sound, and its blocks can be
\* counted.
LedgerInv == IInv /\ IsFiniteSet(blocks) /\ LedgerExact

\* Giving back regions, of blocks whose ledger is exact.
LEMMA FreeRegionsLedger ==
  ASSUME NEW bs, Sound(bs, regions, live'), IsFiniteSet(bs), NEW freed \in SUBSET WholeIdle(bs),
         FreeRegions(bs, Bytes(Idle(bs)), freed), reserved_bytes = Bytes(bs)
  PROVE  IsFiniteSet(blocks') /\ LedgerExact'
<1>1. /\ blocks' = bs \ freed /\ regions' = RegionsWithout(freed)
      /\ refused' = {b.region : b \in WholeIdle(bs) \ freed}
      /\ idle_bytes' = Bytes(Idle(bs)) - Bytes(freed)
      /\ reserved_bytes' = Bytes(bs) - Bytes(freed)
  BY DEF FreeRegions, Offer
<1>2. freed \in SUBSET Idle(bs) /\ Typed(bs, regions)
  BY DEF WholeIdle, Sound
<1>3. /\ IsFiniteSet(blocks') /\ Bytes(blocks') = reserved_bytes'
      /\ Bytes(Idle(blocks')) = idle_bytes'
  BY <1>1, <1>2, DropLedger
<1>4. Sound(bs \ freed, RegionsWithout(freed), live')
  BY DropKeeps
<1>5. ASSUME NEW b \in WholeIdle(blocks)' PROVE b \in WholeIdle(bs) \ freed
  <2>1. b \in bs \ freed /\ ~b.busy /\ b.data = b.region /\ regions'[b.region] = b.byte_size
    BY <1>1, <1>5 DEF WholeIdle, Idle
  <2>2. b.region \in DOMAIN RegionsWithout(freed)
    BY <1>4, <2>1 DEF Sound, Typed
  <2>3. regions'[b.region] = regions[b.region]
    BY <1>1, <2>2 DEF RegionsWithout, Restrict
  <2> QED
    BY <2>1, <2>3 DEF WholeIdle, Idle
<1>6. \A b \in WholeIdle(blocks)' : b.region \in refused'
  BY <1>1, <1>5
<1> QED
  BY <1>3, <1>6 DEF LedgerExact

\* The four ways an allocation ends.
LEMMA AllocateLedger ==
  ASSUME LedgerInv, NEW n \in Sizes, Allocate(n)
  PROVE  IsFiniteSet(blocks') /\ LedgerExact'
<1>0. n \in Nat \ {0} /\ RoundUp(n) \in Nat \ {0} /\ n <= RoundUp(n) /\ Waterline \in Nat
  BY DeviceConstants, RoundedUp
<1>1. /\ Sound(blocks, regions, live) /\ Typed(blocks, regions) /\ IsFiniteSet(blocks)
      /\ idle_bytes = Bytes(Idle(blocks)) /\ reserved_bytes = Bytes(blocks)
      /\ idle_bytes > Waterline => \A b \in WholeIdle(blocks) : b.region \in refused
  BY DEF LedgerInv, IInv, LedgerExact, Sound
<1>2. idle_bytes \in Nat /\ reserved_bytes \in Nat
  BY <1>1, Sums
<1>3. PICK w : w = RoundUp(n) /\ w \in Nat \ {0}
  BY <1>0
<1>4. CASE Reuse(n)
  <2>1. PICK b \in Fits(w) :
          /\ blocks' = (blocks \ {b}) \cup Split(b, w)
          /\ idle_bytes' = idle_bytes - Bytes(Split(b, w) \ Idle(Split(b, w)))
          /\ UNCHANGED <<regions, reserved_bytes, refused>>
    BY <1>3, <1>4 DEF Reuse
  <2>2. b \in blocks /\ ~b.busy /\ w <= b.byte_size
    <3>1. b \in blocks /\ ~b.busy /\ b.byte_size >= w
      BY DEF Fits, Idle
    <3>2. b.byte_size \in Nat
      BY <1>1, <3>1 DEF Typed
    <3> QED
      BY <1>3, <3>1, <3>2
  <2>3. PICK head : head = Bytes(Split(b, w) \ Idle(Split(b, w)))
    OBVIOUS
  <2>4. /\ IsFiniteSet(blocks') /\ Bytes(blocks') = reserved_bytes'
        /\ Bytes(Idle(blocks')) = idle_bytes'
        /\ head \in Nat /\ idle_bytes' = idle_bytes - head
        /\ \A c \in Idle(blocks') : c \in Idle(blocks) \/ c.data # c.region
    <3>1. LET parts == Split(b, w)
              new == (blocks \ {b}) \cup parts
          IN  /\ IsFiniteSet(new) /\ Bytes(new) = Bytes(blocks)
              /\ Bytes(Idle(new)) = Bytes(Idle(blocks)) - Bytes(parts \ Idle(parts))
              /\ Bytes(parts \ Idle(parts)) \in Nat
              /\ \A c \in Idle(new) : c \in Idle(blocks) \/ c.data # c.region
      <4>1. /\ Sound(blocks, regions, live) /\ IsFiniteSet(blocks) /\ b \in blocks /\ ~b.busy
            /\ w \in Nat \ {0} /\ w <= b.byte_size
        BY <1>1, <1>3, <2>2
      <4> QED
        BY <4>1, SplitLedger
    <3> QED
      BY <1>1, <2>1, <2>3, <3>1
  <2>5. \A c \in WholeIdle(blocks)' : c \in WholeIdle(blocks)
    BY <2>1, <2>4 DEF WholeIdle, Idle
  <2>6. idle_bytes' > Waterline => idle_bytes > Waterline
    BY <1>0, <1>2, <2>4
  <2>7. idle_bytes' > Waterline => \A c \in WholeIdle(blocks)' : c.region \in refused'
    BY <1>1, <2>1, <2>5, <2>6
  <2> QED
    BY <2>4, <2>7 DEF LedgerExact
<1>5. CASE Grow(n)
  <2>1. PICK base \in Room(regions, w) :
          /\ blocks' = blocks \cup {BlockOf(base, w, TRUE, base)}
          /\ regions' = RegionsWith(regions, base, w)
    BY <1>3, <1>5 DEF Grow
  <2>2. /\ reserved_bytes' = reserved_bytes + w /\ idle_bytes' = idle_bytes /\ refused' = refused
    BY <1>3, <1>5 DEF Grow
  <2>3. /\ IsFiniteSet(blocks') /\ Bytes(blocks') = reserved_bytes' /\ Idle(blocks') = Idle(blocks)
        /\ base \notin DOMAIN regions
    <3>1. PICK fresh : fresh = BlockOf(base, w, TRUE, base)
      OBVIOUS
    <3>2. base \notin DOMAIN regions
      BY <1>1, <1>3, <2>1, RoomIsNew
    <3>3. fresh.busy = TRUE /\ fresh.byte_size = w /\ fresh.region \notin DOMAIN regions
      BY <3>1, <3>2 DEF BlockOf
    <3>4. /\ IsFiniteSet(blocks \cup {fresh}) /\ Bytes(blocks \cup {fresh}) = Bytes(blocks) + w
          /\ Idle(blocks \cup {fresh}) = Idle(blocks)
      BY <1>1, <1>3, <3>3, FreshLedger
    <3> QED
      BY <1>1, <2>1, <2>2, <3>1, <3>2, <3>4
  <2>4. \A r \in DOMAIN regions : regions'[r] = regions[r]
    BY <2>1, <2>3 DEF RegionsWith
  <2>5. \A c \in WholeIdle(blocks)' : c \in WholeIdle(blocks)
    <3> SUFFICES ASSUME NEW c \in WholeIdle(blocks)' PROVE c \in WholeIdle(blocks)
      OBVIOUS
    <3>1. c \in Idle(blocks') /\ c.data = c.region /\ regions'[c.region] = c.byte_size
      BY DEF WholeIdle, Idle
    <3>2. c \in Idle(blocks) /\ c.region \in DOMAIN regions
      BY <1>1, <2>3, <3>1 DEF Typed, Idle
    <3> QED
      BY <2>4, <3>1, <3>2 DEF WholeIdle
  <2>6. Bytes(Idle(blocks')) = idle_bytes'
    BY <1>1, <2>2, <2>3
  <2>7. idle_bytes' > Waterline => \A c \in WholeIdle(blocks)' : c.region \in refused'
    BY <1>1, <2>2, <2>5
  <2> QED
    BY <2>3, <2>6, <2>7 DEF LedgerExact
<1>6. CASE RetryGrow(n)
  <2>1. PICK freed \in SUBSET WholeIdle(blocks) :
          /\ Offer(blocks, freed)
          /\ \E base \in Room(RegionsWithout(freed), w) :
               /\ blocks' = (blocks \ freed) \cup {BlockOf(base, w, TRUE, base)}
               /\ regions' = RegionsWith(RegionsWithout(freed), base, w)
          /\ idle_bytes' = idle_bytes - Bytes(freed)
          /\ reserved_bytes' = reserved_bytes - Bytes(freed) + w
    BY <1>3, <1>6 DEF RetryGrow
  <2>2. PICK base \in Room(RegionsWithout(freed), w) :
          /\ blocks' = (blocks \ freed) \cup {BlockOf(base, w, TRUE, base)}
          /\ regions' = RegionsWith(RegionsWithout(freed), base, w)
    BY <2>1
  <2>3. refused' = {b.region : b \in WholeIdle(blocks) \ freed}
    BY <2>1 DEF Offer
  <2>4. Sound(blocks \ freed, RegionsWithout(freed), live) /\ freed \in SUBSET Idle(blocks)
    BY <1>1, DropKeeps DEF WholeIdle
  <2>5. /\ IsFiniteSet(blocks \ freed) /\ Bytes(blocks \ freed) = reserved_bytes - Bytes(freed)
        /\ Bytes(Idle(blocks \ freed)) = idle_bytes'
    BY <1>1, <2>1, <2>4, DropLedger
  <2>6. /\ IsFiniteSet(blocks') /\ Bytes(blocks') = reserved_bytes'
        /\ Idle(blocks') = Idle(blocks \ freed) /\ base \notin DOMAIN RegionsWithout(freed)
    <3>1. PICK bs, regs, fresh : /\ bs = blocks \ freed /\ regs = RegionsWithout(freed)
                                 /\ fresh = BlockOf(base, w, TRUE, base)
      OBVIOUS
    <3>2. /\ IsFiniteSet(bs \cup {fresh}) /\ Bytes(bs \cup {fresh}) = Bytes(bs) + w
          /\ Idle(bs \cup {fresh}) = Idle(bs) /\ base \notin DOMAIN regs
      <4>1. Typed(bs, regs) /\ IsFiniteSet(bs) /\ base \in Room(regs, w)
        BY <2>2, <2>4, <2>5, <3>1 DEF Sound
      <4>2. base \notin DOMAIN regs
        BY <1>3, <4>1, RoomIsNew
      <4>3. fresh.busy = TRUE /\ fresh.byte_size = w /\ fresh.region \notin DOMAIN regs
        BY <3>1, <4>2 DEF BlockOf
      <4>4. /\ IsFiniteSet(bs \cup {fresh}) /\ Bytes(bs \cup {fresh}) = Bytes(bs) + w
            /\ Idle(bs \cup {fresh}) = Idle(bs)
        BY <1>3, <4>1, <4>3, FreshLedger
      <4> QED
        BY <4>2, <4>4
    <3>3. Bytes(bs) + w = reserved_bytes'
      BY <2>1, <2>5, <3>1
    <3> QED
      BY <2>2, <3>1, <3>2, <3>3
  <2>7. /\ DOMAIN RegionsWithout(freed) \subseteq DOMAIN regions
        /\ \A r \in DOMAIN RegionsWithout(freed) : regions'[r] = regions[r]
    BY <2>2, <2>6 DEF RegionsWith, RegionsWithout, Restrict
  <2>8. \A c \in WholeIdle(blocks)' : c \in WholeIdle(blocks) \ freed
    <3> SUFFICES ASSUME NEW c \in WholeIdle(blocks)' PROVE c \in WholeIdle(blocks) \ freed
      OBVIOUS
    <3>1. c \in Idle(blocks') /\ c.data = c.region /\ regions'[c.region] = c.byte_size
      BY DEF WholeIdle, Idle
    <3>2. c \in blocks \ freed /\ c \in Idle(blocks)
      BY <2>6, <3>1 DEF Idle
    <3>3. c.region \in DOMAIN RegionsWithout(freed)
      BY <2>4, <3>2 DEF Sound, Typed
    <3> QED
      BY <2>7, <3>1, <3>2, <3>3 DEF WholeIdle
  <2>9. /\ Bytes(Idle(blocks')) = idle_bytes'
        /\ \A c \in WholeIdle(blocks)' : c.region \in refused'
    BY <2>3, <2>5, <2>6, <2>8
  <2> QED
    BY <2>6, <2>9 DEF LedgerExact
<1>7. CASE OutOfMemory(n)
  <2>1. PICK freed \in SUBSET WholeIdle(blocks) : FreeRegions(blocks, idle_bytes, freed)
    BY <1>7 DEF OutOfMemory
  <2>2. live' = live
    BY <1>7 DEF OutOfMemory
  <2> QED
    BY <1>1, <2>1, <2>2, FreeRegionsLedger
<1> QED
  BY <1>4, <1>5, <1>6, <1>7 DEF Allocate

\* A buffer that comes back.
LEMMA ReleaseLedger ==
  ASSUME LedgerInv, NEW l \in live, Release(l)
  PROVE  IsFiniteSet(blocks') /\ LedgerExact'
<1>1. /\ Sound(blocks, regions, live) /\ IsFiniteSet(blocks)
      /\ idle_bytes = Bytes(Idle(blocks)) /\ reserved_bytes = Bytes(blocks)
  BY DEF LedgerInv, IInv, LedgerExact
<1>2. PICK b \in blocks :
        /\ b.data = l.ptr
        /\ live' = live \ {l}
        /\ \/ \E freed \in SUBSET WholeIdle(Returned(b)) :
                FreeRegions(Returned(b), idle_bytes + b.byte_size, freed)
           \/ /\ ~OverWaterline(idle_bytes + b.byte_size)
              /\ blocks' = Returned(b) /\ idle_bytes' = idle_bytes + b.byte_size
              /\ UNCHANGED <<regions, reserved_bytes, refused>>
  BY DEF Release
<1>3. Sound(Returned(b), regions, live')
  BY <1>1, <1>2, ReturnKeeps
<1>4. /\ IsFiniteSet(Returned(b)) /\ Bytes(Returned(b)) = reserved_bytes
      /\ Bytes(Idle(Returned(b))) = idle_bytes + b.byte_size
  BY <1>1, <1>2, ReturnLedger
<1>5. ASSUME NEW freed \in SUBSET WholeIdle(Returned(b)),
             FreeRegions(Returned(b), idle_bytes + b.byte_size, freed)
      PROVE  IsFiniteSet(blocks') /\ LedgerExact'
  <2>1. FreeRegions(Returned(b), Bytes(Idle(Returned(b))), freed)
    BY <1>4, <1>5
  <2> QED
    BY <1>3, <1>4, <2>1, FreeRegionsLedger
<1>6. CASE /\ ~OverWaterline(idle_bytes + b.byte_size)
           /\ blocks' = Returned(b) /\ idle_bytes' = idle_bytes + b.byte_size
           /\ UNCHANGED <<regions, reserved_bytes, refused>>
  <2>1. ~(idle_bytes' > Waterline)
    BY <1>6 DEF OverWaterline
  <2>2. /\ IsFiniteSet(blocks') /\ Bytes(blocks') = reserved_bytes'
        /\ Bytes(Idle(blocks')) = idle_bytes'
    BY <1>4, <1>6
  <2> QED
    BY <2>1, <2>2 DEF LedgerExact
<1> QED
  BY <1>2, <1>5, <1>6

\* Every step keeps the ledger.
LEMMA NextLedger ==
  ASSUME LedgerInv, [Next]_vars PROVE LedgerInv'
<1>1. IInv'
  BY NextIInv DEF LedgerInv
<1>2. /\ Sound(blocks, regions, live) /\ IsFiniteSet(blocks) /\ LedgerExact
      /\ idle_bytes = Bytes(Idle(blocks)) /\ reserved_bytes = Bytes(blocks)
  BY DEF LedgerInv, IInv, LedgerExact
<1> SUFFICES IsFiniteSet(blocks') /\ LedgerExact'
  BY <1>1 DEF LedgerInv
<1>3. ASSUME NEW n \in Sizes, Allocate(n) PROVE IsFiniteSet(blocks') /\ LedgerExact'
  BY <1>3, AllocateLedger
<1>4. ASSUME NEW l \in live, Release(l) PROVE IsFiniteSet(blocks') /\ LedgerExact'
  BY <1>4, ReleaseLedger
<1>5. CASE FreeIdle
  <2>1. PICK freed \in SUBSET WholeIdle(blocks) : FreeRegions(blocks, idle_bytes, freed)
    BY <1>5 DEF FreeIdle
  <2>2. live' = live
    BY <1>5 DEF FreeIdle
  <2>3. Sound(blocks, regions, live') /\ FreeRegions(blocks, Bytes(Idle(blocks)), freed)
    BY <1>2, <2>1, <2>2
  <2> QED
    BY <1>2, <2>1, <2>3, FreeRegionsLedger
<1>6. CASE UNCHANGED vars
  <2>1. /\ blocks' = blocks /\ regions' = regions /\ idle_bytes' = idle_bytes
        /\ reserved_bytes' = reserved_bytes /\ refused' = refused
    BY <1>6 DEF vars
  <2>2. WholeIdle(blocks)' = WholeIdle(blocks)
    BY <2>1 DEF WholeIdle, Idle
  <2>3. Bytes(blocks') = Bytes(blocks) /\ Bytes(Idle(blocks')) = Bytes(Idle(blocks))
    BY <2>1
  <2> QED
    BY <1>2, <2>1, <2>2, <2>3 DEF LedgerExact
<1> QED
  BY <1>3, <1>4, <1>5, <1>6 DEF Next

-------------------------------------------------------------------------------
(* Theorems                                                                  *)

\* Blocks, regions and buffers are what they are declared as, and the driver
\* refused no region the pool has not.
THEOREM TypeCorrect == Spec => []TypeOK
<1>1. IInv => TypeOK
  BY DEF IInv, Sound, Buffers, TypeOK
<1> QED
  BY <1>1, IInvHolds, PTL

\* The blocks of a region tile it, no two blocks share a byte, and idle
\* neighbours are merged, after any sequence of allocate, release and free_idle.
THEOREM Tiled == Spec => []RegionsTiled
<1>1. IInv => RegionsTiled
  BY DEF IInv, Sound, RegionsTiled
<1> QED
  BY <1>1, IInvHolds, PTL

\* Every buffer in use has a busy block to itself, and no other block is busy.
THEOREM Backing == Spec => []LiveBacked
<1>1. IInv => LiveBacked
  BY DEF IInv, Sound, Backed, LiveBacked
<1> QED
  BY <1>1, IInvHolds, PTL

\* A region none of whose blocks is in use is one block, so that cudaFree can
\* take it back.
THEOREM IdleWhole == Spec => []IdleRegionsWhole
<1>1. IInv => IdleRegionsWhole
  <2> SUFFICES ASSUME IInv, NEW r \in DOMAIN regions,
                      \A b \in blocks : b.region = r => ~b.busy
               PROVE  \E b \in WholeIdle(blocks) : b.region = r
    BY DEF IdleRegionsWhole
  <2>0. Typed(blocks, regions) /\ Inside(blocks, regions) /\ Apart(blocks)
        /\ Covered(blocks, regions) /\ Coalesced(blocks)
    BY DEF IInv, Sound
  <2>1. r \in Nat /\ regions[r] \in Nat \ {0}
    BY <2>0 DEF Typed
  <2>2. \A a \in Nat : r <= a /\ a < r + regions[r]
          => \E b \in blocks : b.region = r /\ b.data <= a /\ a < End(b)
    BY <2>0, CoveredBounds
  <2>3. \A b \in blocks : /\ b.data \in Nat /\ End(b) \in Nat /\ b.data < End(b)
                          /\ b.byte_size \in Nat /\ End(b) = b.data + b.byte_size
    BY <2>0, BlockMembers
  <2>4. \A b \in blocks : b.region = r => r <= b.data /\ End(b) <= r + regions[r]
    BY <2>0 DEF Inside
  <2>5. PICK b \in blocks : b.region = r /\ b.data <= r /\ r < End(b)
    BY <2>1, <2>2
  <2>6. b.data = r
    BY <2>1, <2>3, <2>4, <2>5
  <2>7. End(b) = r + regions[r]
    <3> SUFFICES ASSUME End(b) < r + regions[r] PROVE FALSE
      BY <2>1, <2>3, <2>4, <2>5
    <3>1. PICK c \in blocks : c.region = r /\ c.data <= End(b) /\ End(b) < End(c)
      BY <2>1, <2>2, <2>3, <2>5
    <3>2. c.data = End(b)
      BY <2>0, <2>3, <3>1 DEF Apart
    <3> QED
      BY <2>0, <2>5, <3>1, <3>2 DEF Coalesced, Idle
  <2>8. regions[b.region] = b.byte_size
    BY <2>1, <2>3, <2>5, <2>6, <2>7
  <2> QED
    BY <2>5, <2>6, <2>8 DEF WholeIdle, Idle
<1> QED
  BY <1>1, IInvHolds, PTL

\* idle_bytes and reserved_bytes are exact after any sequence of operations and
\* refusals; so a pool above the waterline has nothing left to give back that
\* the driver did not just refuse.
THEOREM LedgerKept == Spec => []LedgerExact
<1>1. Init => LedgerInv
  <2> SUFFICES ASSUME Init PROVE LedgerInv
    OBVIOUS
  <2>1. blocks = {} /\ idle_bytes = 0 /\ reserved_bytes = 0
    BY DEF Init
  <2>2. Idle(blocks) = {} /\ WholeIdle(blocks) = {} /\ Bytes({}) = 0 /\ IsFiniteSet(blocks)
    BY <2>1, FS_EmptySet, BytesPicked DEF Idle, WholeIdle
  <2> QED
    BY <2>1, <2>2, InitIInv DEF LedgerInv, LedgerExact
<1>2. LedgerInv /\ [Next]_vars => LedgerInv'
  BY NextLedger
<1>3. LedgerInv => LedgerExact
  BY DEF LedgerInv
<1> QED
  BY <1>1, <1>2, <1>3, PTL DEF Spec

===============================================================================
