---------------------------- MODULE MCChainReader ----------------------------
(* Two chains that part after the first block.                             *)
EXTENDS ChainReader
CONSTANTS g, a, b
MCParent == [x \in {g, a, b} |-> IF x = g THEN Root ELSE g]
MCNumTxes == [x \in {g, a, b} |-> IF x = b THEN 2 ELSE 1]
ASSUME HypothesisHolds == ShallowForks
=============================================================================
