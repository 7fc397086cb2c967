--------------------------- MODULE MCChainUpdate ---------------------------
(* Instances of ChainUpdate for TLC. *)
EXTENDS ChainUpdate, TLC

CONSTANTS
  g, a1, a2, b1, b2, c2, c3,               \* blocks
  cg, ca1, ca2, ca3, cb1, cb2, s1, s2, s3, \* transactions
  A, B, C, D, R                            \* addresses; R is an OP_RETURN

(* cg stands for all that came before the blocks of interest, ca1 to cb2   *)
(* are coinbase transactions, and s1 to s3 spend.                          *)
MCOuts ==
  (cg :> <<A, R, B, A>>) @@ (ca1 :> <<A>>) @@ (ca2 :> <<C>>) @@ (ca3 :> <<B>>) @@
  (cb1 :> <<D>>) @@ (cb2 :> <<A>>) @@ (s1 :> <<R, C>>) @@ (s2 :> <<C, A, C>>) @@
  (s3 :> <<B>>)

MCIns ==
  (s1 :> << <<cg, 1>> >>) @@
  (s2 :> << <<s1, 2>>, <<s3, 1>> >>) @@
  (s3 :> << <<cg, 3>>, <<cg, 4>> >>) @@
  [t \in {cg, ca1, ca2, ca3, cb1, cb2} |-> << >>]

(* All blocks, all but one, the first, the first two.                      *)
MCMaxBlocks == {0, -1, 1, 2}

(* Branches that part from each other by one block.  Transaction s1 is in  *)
(* three blocks, s2 in two.                                                *)
ForkBlock == {g, a1, b1, b2, c2, c3}
ForkPrev  == (g :> NullHash) @@ (a1 :> g) @@ (b1 :> g) @@ (b2 :> b1) @@
             (c2 :> b1) @@ (c3 :> c2)
ForkTxs   == (g :> <<cg>>) @@ (a1 :> <<ca1, s1>>) @@ (b1 :> <<cb1, s3>>) @@
             (b2 :> <<cb2, s1, s2>>) @@ (c2 :> <<ca2, s1>>) @@ (c3 :> <<ca3, s2>>)

(* Two branches of two blocks.                                             *)
DeepBlock == {g, a1, a2, b1, b2}
DeepPrev  == (g :> NullHash) @@ (a1 :> g) @@ (a2 :> a1) @@ (b1 :> g) @@ (b2 :> b1)
DeepTxs   == (g :> <<cg>>) @@ (a1 :> <<ca1>>) @@ (a2 :> <<ca2>>) @@
             (b1 :> <<cb1>>) @@ (b2 :> <<cb2>>)

(* The instances satisfy the hypotheses of the theorems, except that the   *)
(* second one has deep forks.                                              *)
ASSUME HypothesesHold ==
  OnceEach /\ ValidSpends /\ (Block = ForkBlock <=> ShallowForks)
=============================================================================
