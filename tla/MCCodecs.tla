------------------------------- MODULE MCCodecs -------------------------------
EXTENDS Codecs

Op(x) == [is |-> "op", x |-> <<x>>]
Num(n) == [is |-> "int", x |-> <<n>>]
Data(d) == [is |-> "data", x |-> d]
Key == Data(<<2>> \o Repeat(172, 32))
LongKey == Data(<<4>> \o Repeat(174, 64))
Hash20 == Data(Repeat(118, 20))

MCTokens ==
  {Op(x) : x \in {O.OP_DUP, O.OP_HASH160, O.OP_EQUAL, O.OP_EQUALVERIFY, O.OP_CHECKSIG,
                  O.OP_CHECKMULTISIG, O.OP_RETURN, O.OP_CODESEPARATOR}}
  \cup {Num(n) : n \in {-128, -1, 0, 1, 2, 16, 17, 127, 128, 255, 32768}}
  \cup {Key, LongKey, Hash20, Data(Repeat(0, 32)), Data(<<5>> \o Repeat(1, 32)),
        Data(Repeat(76, 75)), Data(Repeat(106, 76)), Data(Repeat(0, 256))}
MCBeginnings ==
  {<<>>, <<Op(O.OP_HASH160)>>, <<Op(O.OP_RETURN)>>, <<Op(O.OP_DUP), Op(O.OP_HASH160), Hash20>>,
   <<Num(2), Key>>, <<Num(1), Key, LongKey>>, <<Num(16), Key, LongKey>>}
MCInputForms ==
  {[outputNum |-> Bytes(65535, 4), script |-> <<>>], [outputNum |-> Bytes(65536, 4), script |-> <<>>],
   [outputNum |-> Bytes(258, 4), script |-> Repeat(81, 253)], [outputNum |-> Repeat(255, 4), script |-> <<4>>]}
MCOutputScripts == {<<81>>, Repeat(82, 252)}
MCWitnessItems == {<<>>, Repeat(3, 72)}
MCPayloadBytes == {0, 1, 58, 255}
MCFiles == {<<>>, <<0, 0, 1>>}
MCChecksum(bytes) == Bytes(FoldLeft(LAMBDA n, b : n * 3 + b + 1, 0, [i \in 1 .. 4 |-> bytes[(i % Len(bytes)) + 1]]), 4)
=============================================================================
