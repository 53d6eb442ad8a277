---------------------------- MODULE MCEngineStore ----------------------------
(* An object over one publish, with archives of two chunks.                *)
EXTENDS EngineStore
=============================================================================
