--------------------------- MODULE MCPlatformSync ---------------------------
(* PlatformSync on a small instance: two accounts, one request, one job.   *)
EXTENDS PlatformSync
=============================================================================
