---------------------------- MODULE MCPipeline ----------------------------
(* An instance of Pipeline for TLC: an update that starts at transaction 7 *)
(* with four transactions, in blocks that alternate between two files (the *)
(* node does not store blocks in height order).                            *)
EXTENDS PipelineInv

MCFirstTx == <<7, 8, 10, 11>>
MCNFile   == <<1, 0, 1>>
===========================================================================
