--------------------------- MODULE MCAddressState ---------------------------
(* Two keys that share a bit of the filter, a script hash that wraps a     *)
(* multisig script of both, one that wraps a public key hash, and data.    *)
EXTENDS AddressState

CONSTANTS k1, k2, s1, s2, m1, d1

MCHash == {k1, k2, s1, s2, m1, d1}
MCBitsOf == [h \in MCHash |-> CASE h = k1 -> {1, 2} [] h = k2 -> {2, 3} [] h = s1 -> {1}
                                [] h = s2 -> {2} [] h = m1 -> {3} [] h = d1 -> {1}]
MCMaxItems == [PUBKEY |-> 2, SCRIPTHASH |-> 1, MULTISIG |-> 2]

Node(io, type, h, up) == [io |-> io, type |-> type, hash |-> h, up |-> up]
Out(type, h) == Node("out", type, h, 0)

PayKeys     == <<Out("PUBKEYHASH", k1), Out("PUBKEY", k2)>>
PayWitness  == <<Out("WITNESS_PUBKEYHASH", k2), Out("NULL_DATA", d1)>>
PayScripts  == <<Out("SCRIPTHASH", s1), Out("WITNESS_SCRIPTHASH", s2)>>
SpendKey    == <<Node("in", "PUBKEYHASH", k1, 0), Out("SCRIPTHASH", s2)>>
SpendWitness == <<Node("in", "WITNESS_SCRIPTHASH", s2, 0), Node("out", "PUBKEYHASH", k1, 1),
                  Node("in", "PUBKEYHASH", k1, 2), Out("NONSTANDARD", d1)>>
SpendMultisig ==
  <<Node("in", "SCRIPTHASH", s1, 0), Node("out", "MULTISIG", m1, 1),
    Node("out", "MULTISIG_PUBKEY", k1, 2), Node("out", "MULTISIG_PUBKEY", k2, 2),
    Node("in", "MULTISIG", m1, 2), Out("PUBKEYHASH", k2)>>
SpendTwo ==
  <<Node("in", "PUBKEYHASH", k1, 0), Node("in", "WITNESS_SCRIPTHASH", s2, 0),
    Node("out", "PUBKEYHASH", k1, 2), Node("in", "PUBKEYHASH", k1, 3), Out("PUBKEYHASH", k2)>>
SpendOther  == <<Node("in", "NONSTANDARD", d1, 0), Out("PUBKEYHASH", k2)>>

MCTxShapes == {PayKeys, PayWitness, PayScripts, SpendKey, SpendWitness, SpendMultisig, SpendTwo, SpendOther}
=============================================================================
