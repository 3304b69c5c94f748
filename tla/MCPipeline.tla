------------------------------ MODULE MCPipeline ------------------------------
(***************************************************************************)
(* PipelineHandler with interchangeable connections.  Only runs without     *)
(* temporal properties use the symmetry.                                    *)
(***************************************************************************)
EXTENDS PipelineHandler, TLC

Interchangeable == Permutations(Conns)
===============================================================================
