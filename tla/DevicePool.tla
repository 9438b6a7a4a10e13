------------------------------- MODULE DevicePool -------------------------------
(***************************************************************************)
(* CUDADeviceAllocator: the caching allocator behind every device buffer,  *)
(* for one device.  It takes regions from the driver (cudaMalloc), carves  *)
(* blocks out of them, and merges neighbours when they are idle again, so  *)
(* that a region nobody uses can go back to the driver (cudaFree).         *)
(*                                                                         *)
(* Every operation holds mutex_ from start to end, so each is one step.    *)
(* pool.blocks is a set here: its order decides nothing but which of       *)
(* several equally good fits is taken.                                     *)
(***************************************************************************)
EXTENDS Integers, FiniteSets, FiniteSetsExt, Functions

CONSTANTS
  Alignment,    \* kAlignment, and kMinSplitBytes
  DeviceMem,    \* bytes the driver has
  Sizes,        \* sizes requested, in bytes
  Waterline     \* idle_flush_threshold

ASSUME DeviceConstants ==
  /\ Alignment \in Nat \ {0}
  /\ DeviceMem \in Nat
  /\ Sizes \subseteq Nat \ {0}
  /\ Waterline \in Nat

VARIABLES
  blocks,          \* the pool's blocks
  regions,         \* size of each region, by its base
  idle_bytes,      \* the ledger: bytes of idle blocks ...
  reserved_bytes,  \* ... and of regions
  live,            \* ghost: the buffers handed out, as their owners know them
  refused          \* ghost: regions the driver did not take back when last asked

vars == <<blocks, regions, idle_bytes, reserved_bytes, live, refused>>

BlockOf(data, size, busy, region) ==
  [data |-> data, byte_size |-> size, busy |-> busy, region |-> region]

End(b) == b.data + b.byte_size
Cells(b) == b.data .. End(b) - 1
Bytes(bs) == MapThenSumSet(LAMBDA b : b.byte_size, bs)
Idle(bs) == {b \in bs : ~b.busy}

RoundUp(n) == ((n + Alignment - 1) \div Alignment) * Alignment

Init ==
  /\ blocks = {} /\ regions = <<>>
  /\ idle_bytes = 0 /\ reserved_bytes = 0
  /\ live = {} /\ refused = {}

-------------------------------------------------------------------------------
(* The driver.                                                               *)

\* Where a new region of this size may be, beside the given ones.
Room(taken, size) ==
  {base \in 0 .. DeviceMem - size :
     \A r \in DOMAIN taken : base + size <= r \/ r + taken[r] <= base}

RegionsWith(taken, base, size) ==
  [r \in DOMAIN taken \cup {base} |-> IF r = base THEN size ELSE taken[r]]

\* Only a block that covers its region can be given to cudaFree.
WholeIdle(bs) ==
  {b \in Idle(bs) : b.data = b.region /\ regions[b.region] = b.byte_size}

\* free_regions_locked offers the driver every such block; a cudaFree may fail.
Offer(bs, freed) ==
  /\ freed \subseteq WholeIdle(bs)
  /\ refused' = {b.region : b \in WholeIdle(bs) \ freed}

RegionsWithout(freed) ==
  Restrict(regions, DOMAIN regions \ {b.region : b \in freed})

-------------------------------------------------------------------------------
(* allocate                                                                  *)

\* Mutant: a block a little too small will do.
FitsNearly(wanted) == {b \in Idle(blocks) : b.byte_size >= wanted - Alignment}

Fits(wanted) == {b \in Idle(blocks) : b.byte_size >= wanted}

\* The head is handed out; a tail worth keeping stays idle.
Split(b, wanted) ==
  IF b.byte_size - wanted >= Alignment
  THEN {BlockOf(b.data, wanted, TRUE, b.region),
        BlockOf(b.data + wanted, b.byte_size - wanted, FALSE, b.region)}
  ELSE {BlockOf(b.data, b.byte_size, TRUE, b.region)}

HandOut(data, n) == live' = live \cup {[ptr |-> data, size |-> n]}

\* Mutant: the ledger drops by what was asked for, not by what was taken.
ReuseMiscounted(n) ==
  \E b \in Fits(RoundUp(n)) :
    LET parts == Split(b, RoundUp(n))
    IN  /\ \A c \in Fits(RoundUp(n)) : b.byte_size <= c.byte_size
        /\ blocks' = (blocks \ {b}) \cup parts
        /\ idle_bytes' = idle_bytes - n
        /\ HandOut(b.data, n)
        /\ UNCHANGED <<regions, reserved_bytes, refused>>

\* Best fit: the smallest idle block that is large enough.
Reuse(n) ==
  \E b \in Fits(RoundUp(n)) :
    LET parts == Split(b, RoundUp(n))
    IN  /\ \A c \in Fits(RoundUp(n)) : b.byte_size <= c.byte_size
        /\ blocks' = (blocks \ {b}) \cup parts
        /\ idle_bytes' = idle_bytes - Bytes(parts \ Idle(parts))
        /\ HandOut(b.data, n)
        /\ UNCHANGED <<regions, reserved_bytes, refused>>

\* No idle block fits: a region for exactly this block.
Grow(n) ==
  /\ Fits(RoundUp(n)) = {}
  /\ \E base \in Room(regions, RoundUp(n)) :
       /\ blocks' = blocks \cup {BlockOf(base, RoundUp(n), TRUE, base)}
       /\ regions' = RegionsWith(regions, base, RoundUp(n))
       /\ HandOut(base, n)
  /\ reserved_bytes' = reserved_bytes + RoundUp(n)
  /\ UNCHANGED <<idle_bytes, refused>>

\* The driver has none: idle regions go back to it, and it is asked again.
RetryGrow(n) ==
  /\ Fits(RoundUp(n)) = {} /\ Room(regions, RoundUp(n)) = {}
  /\ \E freed \in SUBSET WholeIdle(blocks) :
       /\ Offer(blocks, freed)
       /\ \E base \in Room(RegionsWithout(freed), RoundUp(n)) :
            /\ blocks' = (blocks \ freed) \cup {BlockOf(base, RoundUp(n), TRUE, base)}
            /\ regions' = RegionsWith(RegionsWithout(freed), base, RoundUp(n))
            /\ HandOut(base, n)
       /\ idle_bytes' = idle_bytes - Bytes(freed)
       /\ reserved_bytes' = reserved_bytes - Bytes(freed) + RoundUp(n)

FreeRegions(bs, idle, freed) ==
  /\ Offer(bs, freed)
  /\ blocks' = bs \ freed
  /\ regions' = RegionsWithout(freed)
  /\ idle_bytes' = idle - Bytes(freed)
  /\ reserved_bytes' = reserved_bytes - Bytes(freed)

\* Nor after that: allocate returns nullptr, and the regions stay returned.
OutOfMemory(n) ==
  /\ Fits(RoundUp(n)) = {} /\ Room(regions, RoundUp(n)) = {}
  /\ \E freed \in SUBSET WholeIdle(blocks) :
       /\ Room(RegionsWithout(freed), RoundUp(n)) = {}
       /\ FreeRegions(blocks, idle_bytes, freed)
  /\ UNCHANGED live

-------------------------------------------------------------------------------
(* release                                                                   *)

\* Mutant: neighbours are merged across the border of two regions.
NeighboursAnywhere(bs, b) ==
  {x \in Idle(bs) :
     \A a \in (x.data .. b.data) \cup (b.data .. x.data) :
       \E y \in Idle(bs) : a \in Cells(y)}

\* The idle blocks that a loop of absorbing neighbours collects around b: all
\* between them and b is idle and of b's region.
Neighbours(bs, b) ==
  {x \in Idle(bs) :
     /\ x.region = b.region
     /\ \A a \in (x.data .. b.data) \cup (b.data .. x.data) :
          \E y \in Idle(bs) : y.region = b.region /\ a \in Cells(y)}

First(run) == CHOOSE b \in run : \A c \in run : b.data <= c.data
Last(run) == CHOOSE b \in run : \A c \in run : c.data <= b.data

Merged(bs, b) ==
  LET run == Neighbours(bs, b)
  IN  (bs \ run) \cup {BlockOf(First(run).data, End(Last(run)) - First(run).data,
                               FALSE, b.region)}

Freed(b) == BlockOf(b.data, b.byte_size, FALSE, b.region)

\* Mutant: the freed block is kept apart.
Unmerged(b) == (blocks \ {b}) \cup {Freed(b)}

Returned(b) == Merged((blocks \ {b}) \cup {Freed(b)}, Freed(b))

OverWaterline(idle) == idle > Waterline

Release(l) ==
  \E b \in blocks :
    LET idle == idle_bytes + b.byte_size
    IN  /\ b.data = l.ptr
        /\ live' = live \ {l}
        /\ \/ /\ OverWaterline(idle)
              /\ \E freed \in SUBSET WholeIdle(Returned(b)) :
                   FreeRegions(Returned(b), idle, freed)
           \/ /\ ~OverWaterline(idle)
              /\ blocks' = Returned(b) /\ idle_bytes' = idle
              /\ UNCHANGED <<regions, reserved_bytes, refused>>

\* free_idle, on request.  Its merge of all idle blocks finds nothing to do,
\* as RegionsTiled says.
FreeIdle ==
  /\ \E freed \in SUBSET WholeIdle(blocks) : FreeRegions(blocks, idle_bytes, freed)
  /\ UNCHANGED live

-------------------------------------------------------------------------------
Allocate(n) == Reuse(n) \/ Grow(n) \/ RetryGrow(n) \/ OutOfMemory(n)

Next ==
  \/ \E n \in Sizes : Allocate(n)
  \/ \E l \in live : Release(l)
  \/ FreeIdle

Spec == Init /\ [][Next]_vars

-------------------------------------------------------------------------------
(* Properties                                                                *)

\* Types, and every block belongs to a region the pool still has.
Typed(bs, regs) ==
  /\ \A b \in bs : /\ b.data \in Nat /\ b.byte_size \in Nat \ {0}
                   /\ b.busy \in BOOLEAN /\ b.region \in DOMAIN regs
                   /\ b = BlockOf(b.data, b.byte_size, b.busy, b.region)
  /\ regs \in [DOMAIN regs -> Nat \ {0}] /\ DOMAIN regs \subseteq Nat

TypeOK ==
  /\ Typed(blocks, regions)
  /\ live \subseteq [ptr : Nat, size : Nat \ {0}]
  /\ refused \subseteq DOMAIN regions

Inside(bs, regs) ==
  \A b \in bs : b.region <= b.data /\ End(b) <= b.region + regs[b.region]

Apart(bs) == \A b, c \in bs : b = c \/ End(b) <= c.data \/ End(c) <= b.data

Covered(bs, regs) ==
  \A r \in DOMAIN regs : \A a \in r .. r + regs[r] - 1 :
    \E b \in bs : b.region = r /\ a \in Cells(b)

Coalesced(bs) == \A b, c \in Idle(bs) : ~(b.region = c.region /\ End(b) = c.data)

\* alloc.h: "Blocks of one region tile it exactly and never overlap; two idle
\* blocks of the same region are always merged", whatever was split, merged and
\* given back before.  Blocks of different regions do not overlap either.
RegionsTiled ==
  /\ Inside(blocks, regions) /\ Apart(blocks) /\ Covered(blocks, regions)
  /\ Coalesced(blocks)

\* Every buffer handed out and not released has a busy block of its own, at its
\* address and large enough, and no other block is busy: no memory is given to
\* two owners, taken back under one, or lost.
LiveBacked ==
  /\ \A l \in live : \E b \in blocks : b.busy /\ b.data = l.ptr /\ b.byte_size >= l.size
  /\ \A b \in blocks : b.busy => \E l \in live : l.ptr = b.data
  /\ \A l, m \in live : l.ptr = m.ptr => l = m

\* The ledger that decides about flushing is exact (check_ledger_locked), and so
\* its decision is kept: above the waterline there is no region left that the
\* driver did not refuse to take.
LedgerExact ==
  /\ idle_bytes = Bytes(Idle(blocks))
  /\ reserved_bytes = Bytes(blocks)
  /\ idle_bytes > Waterline => \A b \in WholeIdle(blocks) : b.region \in refused

\* alloc.h: "a region that goes fully idle collapses back into a single block",
\* so that it can be returned to the driver.
IdleRegionsWhole ==
  \A r \in DOMAIN regions :
    (\A b \in blocks : b.region = r => ~b.busy)
      => \E b \in WholeIdle(blocks) : b.region = r
===============================================================================
