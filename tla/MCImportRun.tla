---------------------------- MODULE MCImportRun ----------------------------
(* A run and its successor over a dump of four lines in two partitions.    *)
EXTENDS ImportRun
=============================================================================
