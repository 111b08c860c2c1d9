------------------------------ MODULE MCPipeline ------------------------------
(***************************************************************************)
(* Small instances of Pipeline.                                            *)
(***************************************************************************)
EXTENDS Pipeline

MCAllKinds == {"command", "void", "query"}
MCVoid == {"void"}
MCNone == {}
=============================================================================
