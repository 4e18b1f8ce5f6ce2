------------------------------ MODULE TtGates ------------------------------
(***************************************************************************)
(* The check every request passes before its handler runs                  *)
(* (TtCheckIoGates, ioctl.c).  It is a pure function of three pieces of    *)
(* device and handle state, so the component modules share it.             *)
(*                                                                         *)
(* An operation is named instead of numbered.  "MMAP" stands for the       *)
(* callers that pass MAXUINT32 (MAP and UNMAP), which follow the gate set  *)
(* of Linux mmap rather than the one of Linux ioctl.                       *)
(***************************************************************************)

(* Operations let through between a reset and its POST_RESET.              *)
AllowedBeforeHwInit ==
  { "MMAP", "GET_DEVICE_INFO", "GET_DRIVER_INFO", "RESET_DEVICE" }

TtCheckIoGates(detached, stale, needsHwInit, nr) ==
  IF detached \/ stale THEN "DEVICE_REMOVED"
  ELSE IF needsHwInit /\ nr \notin AllowedBeforeHwInit
       THEN IF nr = "QUERY_TELEMETRY" THEN "DEVICE_NOT_READY"
                                      ELSE "DEVICE_REMOVED"
  ELSE "SUCCESS"
=============================================================================
