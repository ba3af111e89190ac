---------------------------- MODULE FrameStream ----------------------------
(***************************************************************************)
(* What KernelDispatcher::dispatch promises the holder of a KernelReceiver *)
(* (src/daemon/src/kernel/dispatcher.rs): the frames of one call arrive in *)
(* the order the handler emitted them, none twice, none skipped.  The      *)
(* stream ends as "complete" only when everything emitted was delivered;   *)
(* the one other ending is "aborted" (the caller dropped its receiver, or  *)
(* the pump gave up on a stalled caller), which may lose a suffix.         *)
(* Frames are named by the order of emission: 1, 2, ...                    *)
(***************************************************************************)
EXTENDS Naturals, Sequences

VARIABLES produced,   (* how many frames the call has emitted so far        *)
          delivered,  (* the frames the caller has received, oldest first   *)
          status      (* "open", "complete" or "aborted"                    *)

vars == <<produced, delivered, status>>

Init == produced \in {0, 1} /\ delivered = <<>> /\ status = "open"

Produce ==
  /\ status # "complete"
  /\ produced' = produced + 1
  /\ UNCHANGED <<delivered, status>>

Deliver ==
  /\ status = "open"
  /\ Len(delivered) < produced
  /\ delivered' = Append(delivered, Len(delivered) + 1)
  /\ UNCHANGED <<produced, status>>

Complete ==
  /\ status = "open"
  /\ Len(delivered) = produced
  /\ status' = "complete"
  /\ UNCHANGED <<produced, delivered>>

Abort ==
  /\ status = "open"
  /\ status' = "aborted"
  /\ UNCHANGED <<produced, delivered>>

Next == Produce \/ Deliver \/ Complete \/ Abort

Spec == Init /\ [][Next]_vars
=============================================================================
