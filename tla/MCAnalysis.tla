----------------------------- MODULE MCAnalysis ------------------------------
(* Keys, a script hash that wraps a multisig, another multisig that shares a *)
(* key with it, and data outputs; payments chosen for mixing, peeling and   *)
(* change.                                                                 *)
EXTENDS Analysis

PK1 == [scriptNum |-> 1, type |-> "PUBKEYHASH"]
PK2 == [scriptNum |-> 2, type |-> "PUBKEY"]
SH1 == [scriptNum |-> 1, type |-> "SCRIPTHASH"]
ND1 == [scriptNum |-> 1, type |-> "NULL_DATA"]
MS1 == [scriptNum |-> 1, type |-> "MULTISIG"]
MS2 == [scriptNum |-> 2, type |-> "MULTISIG"]
MCAddress == {PK1, PK2, SH1, MS1, MS2, ND1}
MCWrapped == [a \in MCAddress |-> IF a = SH1 THEN MS2 ELSE None]
MCKeys == [a \in MCAddress |-> CASE a = MS1 -> {PK1} [] a = MS2 -> {PK1, PK2} [] OTHER -> {}]
MCRequired == [a \in MCAddress |-> IF a \in {MS1, MS2} THEN 1 ELSE 0]
Pay(a, v) == [address |-> a, value |-> v]
MCCoinbases == { <<Pay(PK1, 3), Pay(SH1, 3)>> }
MCPayments == { <<Pay(PK2, 2), Pay(MS1, 2), Pay(ND1, 0)>>,
                <<Pay(MS1, 1), Pay(MS1, 2)>>, <<Pay(PK2, 2), Pay(PK2, 2), Pay(PK1, 2)>> }
MCDust == {1}
MCLocktime == [outs \in MCPayments |-> IF outs[1].address = MS1 THEN 1 ELSE 0]
=============================================================================
