---------------------------- MODULE MCChainIndex ----------------------------
(* Instances of ChainIndex for TLC. *)
EXTENDS ChainIndex, TLC

CONSTANTS g, a1, a2, b1

(* Two branches on the genesis block.                                      *)
MCBlock == {g, a1, a2, b1}
MCPrev == (g :> NullHash) @@ (a1 :> g) @@ (a2 :> a1) @@ (b1 :> g)
=============================================================================
