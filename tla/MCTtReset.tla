----------------------------- MODULE MCTtReset -----------------------------
(* The flavours of RESET_DEVICE the runs of TtReset use.                   *)
EXTENDS TtReset

AllFlags ==
  { "RESTORE_STATE", "RESET_PCIE_LINK", "CONFIG_WRITE", "USER_RESET",
    "ASIC_RESET", "ASIC_DMC_RESET", "POST_RESET" }

RetryFlags == { "USER_RESET", "POST_RESET" }
=============================================================================
