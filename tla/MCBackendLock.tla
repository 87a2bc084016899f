--------------------------- MODULE MCBackendLock ---------------------------
(* BackendLock with three requests for TLC.                                *)
EXTENDS BackendLock

CONSTANTS t1, t2, t3
=============================================================================
