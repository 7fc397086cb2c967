--------------------------- MODULE MCParserIndex ---------------------------
(* A key, a multisig script of two keys, a witness script hash around the  *)
(* multisig script, a script hash around the witness script hash, and one  *)
(* more around that.                                                       *)
EXTENDS ParserIndex
CONSTANTS k1, k2, m, w, s, r, t1, t2, t3, t4

MCKind == [x \in {k1, k2, m, w, s, r} |->
  IF x \in {k1, k2} THEN "PUBKEY" ELSE IF x = m THEN "MULTISIG" ELSE "SCRIPTHASH"]
MCWrapped == [x \in {w, s, r} |->
  IF x = w THEN [type |-> "MULTISIG", script |-> m]
  ELSE IF x = r THEN [type |-> "SCRIPTHASH", script |-> s]
  ELSE [type |-> "WITNESS_SCRIPTHASH", script |-> w]]
MCKeys == [x \in {m} |-> {k1, k2}]

(* t1 pays a key and the script hash, t2 spends the script hash and pays   *)
(* the witness script hash, t3 spends that one, t4 spends the outermost    *)
(* script hash and pays the bare multisig.                                 *)
MCOuts == [t \in {t1, t2, t3, t4} |->
  IF t = t1 THEN <<[type |-> "PUBKEYHASH", script |-> k1], [type |-> "SCRIPTHASH", script |-> s]>>
  ELSE IF t = t2 THEN <<[type |-> "WITNESS_SCRIPTHASH", script |-> w], [type |-> "SCRIPTHASH", script |-> r]>>
  ELSE IF t = t3 THEN <<[type |-> "PUBKEY", script |-> k2]>>
  ELSE <<[type |-> "MULTISIG", script |-> m]>>]
MCSpends == [t \in {t1, t2, t3, t4} |->
  IF t = t2 THEN {[type |-> "SCRIPTHASH", script |-> s]}
  ELSE IF t = t3 THEN {[type |-> "WITNESS_SCRIPTHASH", script |-> w]}
  ELSE IF t = t4 THEN {[type |-> "SCRIPTHASH", script |-> r]} ELSE {}]
=============================================================================
