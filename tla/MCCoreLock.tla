---------------------------- MODULE MCCoreLock ----------------------------
(* The two harts of the K210 and corelock acquisitions nested twice. *)
EXTENDS CoreLock
=============================================================================
