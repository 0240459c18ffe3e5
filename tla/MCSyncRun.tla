----------------------------- MODULE MCSyncRun -----------------------------
(* SyncRun on small instances.  Jobs, requests and items are               *)
(* interchangeable, and so are accounts.                                   *)
EXTENDS SyncRun, TLC

Interchangeable == Permutations(Items) \cup Permutations(Accounts)
=============================================================================
