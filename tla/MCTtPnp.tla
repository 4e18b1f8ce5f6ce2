------------------------------ MODULE MCTtPnp ------------------------------
(* A scaled token layout for TtPnp: a 2M window and the kernel's, room behind
   them in BAR0, two 4G windows.                                           *)
EXTENDS TtPnp, TLC

L(b0, b2, b4) == (0 :> b0) @@ (2 :> b2) @@ (4 :> b4)
Layouts == { L(20, 4, 16), L(20, 4, 12), L(16, 4, 0) }

(* The layout of ttkmd_ioctl.h and ttkmd.h, counted in pages.              *)
Real == INSTANCE TtMapTokens WITH
  ResourceSize <- 16777216, TlbLen <- 512, Tlb2mCount <- 202, Tlb4gLen <- 1048576,
  Tlb4gMax <- 8, Rebase <- 131072, DmaBase <- 251658240, DmaStride <- 1048576,
  MaxDmaBufs <- 256, PageSize <- 1, MaxLength <- 1048575

(* It meets the assumption; each window's and each buffer's token maps to it,
   in one page and in as many as MAP takes: all of a 2M window, all but the
   last page of a 4G one.                                                  *)
ASSUME RealLayout ==
  LET Maps(id, wc, length) ==
        LET w == Real!TlbDescribe(id)
        IN  Real!MapTarget(Real!TlbToken(id, wc), length, L(131072, 256, 8388608),
                           [i \in 0 .. 209 |-> i], [s \in 0 .. 255 |-> 0], id)
              = { Real!Target("window", id, w.bar, w.offset,
                              IF wc THEN Real!WriteCombined ELSE Real!Uncached) }
  IN  /\ Real!TokenLayout
      /\ \A id \in 0 .. 209, wc \in BOOLEAN :
           Maps(id, wc, 1) /\ Maps(id, wc, IF id < 202 THEN 512 ELSE 1048575)
      /\ \A s \in 0 .. 255, length \in { 1, 65536 } :
           Real!MapTarget(Real!DmaToken(s), length, L(0, 0, 0), << >>,
                          [i \in 0 .. 255 |-> 65536], 0)
             = { Real!Target("buffer", s, 0, 0, Real!Cached) }

Symmetry == Permutations(File)
=============================================================================
