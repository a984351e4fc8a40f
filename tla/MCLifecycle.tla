---------------------------- MODULE MCLifecycle ----------------------------
(***************************************************************************)
(* SyscallMod with its three programs, StackMod with one probe of up to    *)
(* three points (-w) or with up to three probes of one (-c).  The state    *)
(* space is finite as it is.                                               *)
(***************************************************************************)
EXTENDS Lifecycle
=============================================================================
