---------------------------- MODULE TtMapTokens ----------------------------
(***************************************************************************)
(* The numbers a client maps device memory with: issued by QUERY_MAPPINGS, *)
(* ALLOCATE_TLB and ALLOCATE_DMA_BUF, decoded by TtResolveMapTarget when   *)
(* MAP presents one.  The token space is a row of regions of ResourceSize  *)
(* (a UC and a WC region for each of BAR 0, 2 and 4, then the UC and the   *)
(* WC region of the TLB windows) and, from DmaBase on, one stride per DMA  *)
(* buffer slot.  Within a TLB region the 2M windows of BAR0 come first and *)
(* the 4G windows of BAR4 start at Rebase.                                 *)
(***************************************************************************)
EXTENDS Naturals

CONSTANTS
  ResourceSize,  \* TT_MMAP_RESOURCE_SIZE
  TlbLen,        \* TT_BH_KERNEL_TLB_LEN, the size of a 2M window
  Tlb2mCount,    \* TT_TLB_2M_COUNT
  Tlb4gLen,      \* 1 << 32, the size of a 4G window
  Tlb4gMax,      \* TT_TLB_4G_MAX
  Rebase,        \* 1 << 29, where the windows of BAR4 start
  DmaBase,       \* TT_MMAP_OFFSET_DMA_BUF
  DmaStride,     \* TT_MMAP_SIZE_DMA_BUF
  MaxDmaBufs,    \* TENSTORRENT_MAX_DMA_BUFS
  PageSize,      \* PAGE_SIZE
  MaxLength      \* MAXULONG: one byte less than a 4G window

ASSUME TokenLayout ==
  /\ { ResourceSize, TlbLen, Tlb2mCount, Tlb4gLen, Tlb4gMax, Rebase, DmaBase,
       DmaStride, MaxDmaBufs, PageSize, MaxLength } \subseteq Nat \ { 0 }
  /\ \A n \in { ResourceSize, TlbLen, Tlb4gLen, Rebase, DmaBase, DmaStride } :
       n % PageSize = 0
  /\ Tlb2mCount * TlbLen <= Rebase
  /\ Rebase + Tlb4gMax * Tlb4gLen <= ResourceSize
  /\ 8 * ResourceSize <= DmaBase

TlbTotal == Tlb2mCount + Tlb4gMax
KernelTlbIndex == Tlb2mCount - 1
Bars == { 0, 2, 4 }
Cached == "cached"
Uncached == "uncached"
WriteCombined == "writecombined"

(* TtTlbDescribe: where a window is.                                       *)
TlbDescribe(id) ==
  IF id < Tlb2mCount
  THEN [bar |-> 0, offset |-> id * TlbLen, size |-> TlbLen]
  ELSE [bar |-> 4, offset |-> (id - Tlb2mCount) * Tlb4gLen, size |-> Tlb4gLen]

(* The encoding of ALLOCATE_TLB ...                                        *)
TlbEncoded(id) ==
  LET w == TlbDescribe(id) IN  IF w.bar = 4 THEN Rebase + w.offset ELSE w.offset

TlbToken(id, wc) == (IF wc THEN 7 ELSE 6) * ResourceSize + TlbEncoded(id)

(* ... of QUERY_MAPPINGS, mapping ids 1 to 6 for the BARs that exist ...   *)
BarToken(bar, wc) == (bar + (IF wc THEN 1 ELSE 0)) * ResourceSize

(* ... and of ALLOCATE_DMA_BUF.                                            *)
DmaToken(slot) == DmaBase + slot * DmaStride

-----------------------------------------------------------------------------
(* TtResolveMapTarget, region by region.  What a token and a length resolve to
   is a set of at most one target: the object, its kind of caching, and for
   device memory the BAR and the offset the view starts at.                *)
Target(kind, id, bar, offset, cache) ==
  [kind |-> kind, id |-> id, bar |-> bar, offset |-> offset, cache |-> cache]

(* A DMA buffer of the handle; bufs gives the size at each slot, 0 for none. *)
ResolveDmaBuf(token, length, bufs) ==
  { Target("buffer", slot, 0, 0, Cached) : slot \in
      { s \in 0 .. MaxDmaBufs - 1 :
          token = DmaBase + s * DmaStride /\ bufs[s] # 0 /\ length <= bufs[s] } }

(* BAR regions 0 to 5: regionToBar is 0, 0, 2, 2, 4, 4; odd regions are WC. *)
ResolveBar(token, length, barLength) ==
  LET region == token \div ResourceSize
      offset == token % ResourceSize
      bar == 2 * (region \div 2)
  IN  { t \in { Target("bar", 0, bar, offset,
                       IF region % 2 = 1 THEN WriteCombined ELSE Uncached) } :
          /\ region < 6
          /\ offset < barLength[bar]
          /\ length <= barLength[bar] - offset }

(* Mutant: a window token may point into the middle of a window.           *)
WindowAlignedLoose(encoded, length) ==
  IF encoded < Rebase THEN length <= TlbLen ELSE length <= Tlb4gLen

(* A window's token names its first byte and no view is longer than it.    *)
WindowAligned(encoded, length) ==
  IF encoded < Rebase
  THEN encoded % TlbLen = 0 /\ length <= TlbLen
  ELSE (encoded - Rebase) % Tlb4gLen = 0 /\ length <= Tlb4gLen

(* A TLB window the handle owns.                                           *)
ResolveTlb(token, length, barLength, owner, f) ==
  LET region == token \div ResourceSize
      encoded == token % ResourceSize
      bar == IF encoded < Rebase THEN 0 ELSE 4
      offset == IF encoded < Rebase THEN encoded ELSE encoded - Rebase
      id == IF encoded < Rebase THEN encoded \div TlbLen
            ELSE Tlb2mCount + offset \div Tlb4gLen
  IN  { t \in { Target("window", id, bar, offset,
                       IF region = 7 THEN WriteCombined ELSE Uncached) } :
          /\ region \in 6 .. 7
          /\ WindowAligned(encoded, length)
          /\ id < TlbTotal
          /\ offset + length <= barLength[bar]
          /\ owner[id] = f }

ResolveMapTarget(token, length, barLength, owner, bufs, f) ==
  IF token >= DmaBase THEN ResolveDmaBuf(token, length, bufs)
  ELSE ResolveBar(token, length, barLength) \cup ResolveTlb(token, length, barLength, owner, f)

(* TtIoctlMap: whole pages, and fewer bytes than a 4G window has.          *)
MapTarget(token, length, barLength, owner, bufs, f) ==
  { t \in ResolveMapTarget(token, length, barLength, owner, bufs, f) :
      /\ length # 0 /\ length % PageSize = 0
      /\ token % PageSize = 0
      /\ length <= MaxLength }

(* The lengths in which an object of n bytes can be mapped at all.         *)
ViewLengths(n) == { l \in 1 .. n : l % PageSize = 0 /\ l <= MaxLength }
=============================================================================
