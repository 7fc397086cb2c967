---------------------------- MODULE MCClustering ----------------------------
(* A chain with two keys, a nonstandard script, a script hash that wraps a *)
(* key; payments chosen for mixing, peeling and change. As long as the     *)
(* nonstandard script is not paid its type is empty, and starts where the  *)
(* keys start.                                                             *)
EXTENDS Clustering

Non == [scriptNum |-> 1, type |-> "NONSTANDARD"]
PK1 == [scriptNum |-> 1, type |-> "PUBKEYHASH"]
PK2 == [scriptNum |-> 2, type |-> "PUBKEYHASH"]
SH1 == [scriptNum |-> 1, type |-> "SCRIPTHASH"]
MCAddress == {Non, PK1, PK2, SH1}
MCWrapped == [a \in MCAddress |-> IF a = SH1 THEN PK2 ELSE None]
MCKeys == [a \in MCAddress |-> {}]
MCRequired == [a \in MCAddress |-> 0]
Pay(a, v) == [address |-> a, value |-> v]
MCCoinbases == { <<Pay(PK1, 3), Pay(SH1, 3)>> }
MCPayments == { <<Pay(Non, 1), Pay(PK1, 2)>>, <<Pay(PK2, 2), Pay(Non, 2), Pay(PK1, 1)>> }
MCDust == {1}
MCLocktime == [outs \in MCPayments |-> IF Len(outs) = 2 THEN 0 ELSE 1]
=============================================================================
