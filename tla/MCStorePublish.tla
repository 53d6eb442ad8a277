--------------------------- MODULE MCStorePublish ---------------------------
(***************************************************************************)
(* StorePublish for TLC.  Every run shares this module; the .cfg files     *)
(* choose how many builds, failovers and deploys meet, and what the timing *)
(* assumption is.                                                          *)
(***************************************************************************)
EXTENDS StorePublish

NoDeploys == {}

\* One partition of several chunks.
OnePartition == {1}
=============================================================================
