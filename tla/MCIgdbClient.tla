-------------------------- MODULE MCIgdbClient --------------------------
(* Small instance of IgdbClient: two queries at a time of one client, new  *)
(* at times, with room for two starts a second.                            *)
EXTENDS IgdbClient, TLC

CONSTANTS t1, t2, c1
=============================================================================
