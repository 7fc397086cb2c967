------------------------------- MODULE Codecs --------------------------------
(***************************************************************************)
(* The codecs at work: a script is written token by token, a transaction   *)
(* input by input and output by output, a byte string byte by byte, and    *)
(* everything written so far is read back.                                 *)
(***************************************************************************)
EXTENDS RawTx, Encodings

CONSTANTS
  Tokens,        \* what is appended to scripts: an "op" or "int" <<x>>, or "data"
  Beginnings,    \* sequences of tokens that scripts start with
  MaxTokens,     \* tokens appended after those
  InputForms,    \* output numbers and scripts of inputs
  OutputScripts, WitnessItems,                 \* the byte strings of transactions
  MaxParts,      \* inputs, outputs and witness items of a transaction
  PayloadBytes, MaxPayload,                    \* the byte strings of addresses
  Files          \* what precedes a transaction in its block file

VARIABLES
  tokens,        \* of the script
  left,          \* tokens that may still be appended
  tx,            \* the transaction
  payload        \* the byte string

vars == <<tokens, left, tx, payload>>

NoTx == [version |-> <<2, 0, 0, 0>>, locktime |-> <<9, 0, 0, 1>>, inputs |-> <<>>, outputs |-> <<>>]
Parts == Len(tx.inputs) + Len(tx.outputs)
         + FoldLeft(LAMBDA n, i : n + Len(i.witnessStack), 0, tx.inputs)

Init == /\ tokens \in Beginnings
        /\ left = MaxTokens
        /\ tx = NoTx /\ payload = <<>>

\* one of the three is written at a time
Idle(wanted) ==
  /\ "script" # wanted => left = MaxTokens /\ tokens = <<>>
  /\ "tx" # wanted => tx = NoTx
  /\ "payload" # wanted => payload = <<>>

WriteToken ==
  /\ Idle("script") /\ left > 0
  /\ \E t \in Tokens : tokens' = Append(tokens, t)
  /\ left' = left - 1
  /\ UNCHANGED <<tx, payload>>

AddInput ==
  /\ Idle("tx") /\ Parts < MaxParts
  /\ \E form \in InputForms :
       tx' = [tx EXCEPT !.inputs = Append(@,
                [hash |-> Repeat(Len(tx.inputs) + 7, HashSize),
                 outputNum |-> form.outputNum, script |-> form.script,
                 sequenceNum |-> <<255, 255, 255, Len(tx.inputs)>>, witnessStack |-> <<>>])]
  /\ UNCHANGED <<tokens, left, payload>>

AddOutput ==
  /\ Idle("tx") /\ Parts < MaxParts
  /\ \E s \in OutputScripts :
       tx' = [tx EXCEPT !.outputs = Append(@, [value |-> Bytes(Len(tx.outputs) + 300, 8), script |-> s])]
  /\ UNCHANGED <<tokens, left, payload>>

AddWitness ==
  /\ Idle("tx") /\ Parts < MaxParts /\ tx.inputs # <<>>
  /\ \E w \in WitnessItems :
       tx' = [tx EXCEPT !.inputs[Len(tx.inputs)].witnessStack = Append(@, w)]
  /\ UNCHANGED <<tokens, left, payload>>

WriteByte ==
  /\ Idle("payload") /\ Len(payload) < MaxPayload
  /\ \E b \in PayloadBytes : payload' = Append(payload, b)
  /\ UNCHANGED <<tokens, left, tx>>

Next == WriteToken \/ AddInput \/ AddOutput \/ AddWitness \/ WriteByte
Spec == Init /\ [][Next]_vars

-----------------------------------------------------------------------------
(* Scripts.                                                                *)

Write(s, t) ==
  CASE t.is = "op" -> PushOp(s, t.x[1]) [] t.is = "int" -> PushInt64(s, t.x[1])
    [] OTHER -> PushBytes(s, t.x)
Script(list) == FoldLeft(Write, <<>>, list)
Of(t) == Write(<<>>, t)

\* the token that an op stands for, told by its data when it has some
Reads(r, t) ==
  CASE t.is = "op" -> r.opcode = t.x[1] /\ r.data = <<>>
    [] t.is = "data" -> r.data = t.x
    [] OTHER ->
         LET n == t.x[1]
         IN IF n \in -1 .. 16
            THEN r.data = <<>> /\ (n >= 0 => DecodeOP_N(r.opcode) = n /\ EncodeOP_N(n) = r.opcode)
            ELSE SetVch(r.data) = n /\ IsScriptNum(r.data, TRUE, 4)
ReadsAs(ops, list) == Len(ops) = Len(list) /\ \A i \in DOMAIN ops : Reads(ops[i], list[i])

Small(t) == t.is = "int" /\ t.x[1] \in 0 .. 16
Pushes(t) == t.is # "op"
Is(t, opcode) == t = [is |-> "op", x |-> <<opcode>>]
SigOps(list, i) ==
  CASE Is(list[i], O.OP_CHECKSIG) -> 1
    [] Is(list[i], O.OP_CHECKMULTISIG) ->
         IF i > 1 /\ Small(list[i - 1]) /\ list[i - 1].x[1] > 0 THEN list[i - 1].x[1] ELSE 20
    [] OTHER -> 0

(***************************************************************************)
(* Scripts are read as they were written: GetOp gives back the tokens that *)
(* CScript's << wrote, whatever the length of their pushes; of a script    *)
(* that is cut off within its last token, its length bytes too, it gives   *)
(* back the whole tokens before and nothing else; FindAndDelete takes out  *)
(* exactly the ops that it is asked for, also where their bytes occur      *)
(* within pushes; IsPushOnly and GetSigOpCount agree with the tokens, and  *)
(* a pay-to-script-hash has the sigops of the script that its input        *)
(* pushes.                                                                 *)
(***************************************************************************)
ScriptsReadAsWritten ==
  LET s == Script(tokens)
      ops == Ops(s, 0)
      long == <<O.OP_PUSHDATA4>> \o Bytes(65536, 4)     \* how the longest pushes begin
      start == Len(Script(Front(tokens)))
      cut(k) == SubSeq(s, 1, k)
      p2sh == Script(<<[is |-> "op", x |-> <<O.OP_HASH160>>], [is |-> "data", x |-> Repeat(5, 20)],
                       [is |-> "op", x |-> <<O.OP_EQUAL>>]>>)
  IN /\ ReadsAs(ops, tokens) /\ Complete(s, 0)
     /\ s # <<>> =>
          \A k \in {Len(s) - 1} \cup {j \in start .. start + 5 : j < Len(s)} :
            /\ ReadsAs(Ops(cut(k), 0), Front(tokens))
            /\ Complete(cut(k), 0) <=> k = start
     /\ \A k \in DOMAIN long : LET t == s \o SubSeq(long, 1, k)
                               IN ReadsAs(Ops(t, 0), tokens) /\ ~Complete(t, 0)
     /\ \A t \in Range(tokens) :
          LET r == FindAndDelete(s, Of(t), 0)
          IN /\ ReadsAs(Ops(r.script, 0), SelectSeq(tokens, LAMBDA u : Of(u) # Of(t)))
             /\ r.found = Len(SelectSeq(tokens, LAMBDA u : Of(u) = Of(t)))
     /\ IsPushOnly(s, 0) <=> \A t \in Range(tokens) : Pushes(t)
     /\ LET sum == FoldLeft(LAMBDA n, i : n + SigOps(tokens, i), 0, [i \in DOMAIN tokens |-> i])
        IN /\ GetSigOpCount(s, TRUE) = sum
           /\ GetP2SHSigOpCount(p2sh, PushBytes(<<1, 2>>, s)) = sum

(***************************************************************************)
(* An output has the type of its form.  extractScriptData, which matches   *)
(* bytes against its templates and keeps what an earlier template left,    *)
(* finds the type that the grammar of the standard scripts gives to the    *)
(* tokens, with the keys and hashes that the tokens hold; everything else, *)
(* a script of that form that is cut off too, is nonstandard.              *)
(***************************************************************************)
OutputsHaveTheTypeOfTheirForm ==
  LET s == Script(tokens)
      n == Len(tokens)
      ops(list) == n = Len(list) /\ \A i \in DOMAIN list : list[i] # 0 => Is(tokens[i], list[i])
      data(i, size) == tokens[i].is = "data" /\ Len(tokens[i].x) = size
      hash(type, i) == Hashed(type, tokens[i].x)
      keys == IF n < 3 THEN <<>> ELSE SubSeq(tokens, 2, n - 2)
      zero == n = 2 /\ tokens[1] = [is |-> "int", x |-> <<0>>]
      form ==
        CASE ops(<<O.OP_HASH160, 0, O.OP_EQUAL>>) /\ data(2, 20) -> hash("SCRIPTHASH", 2)
          [] zero /\ data(2, 20) -> hash("WITNESS_PUBKEYHASH", 2)
          [] zero /\ data(2, 32) -> hash("WITNESS_SCRIPTHASH", 2)
          [] n > 0 /\ Is(tokens[1], O.OP_RETURN) /\ \A i \in 2 .. n : Pushes(tokens[i]) ->
               [type |-> "NULL_DATA",
                fullData |-> FoldLeft(LAMBDA acc, i : acc \o Ops(s, 0)[i].data, <<>>, [i \in 1 .. n |-> i])]
          [] ops(<<0, O.OP_CHECKSIG>>) /\ tokens[1].is = "data" /\ IsValidPubkey(tokens[1].x) ->
               Pubkey(tokens[1].x)
          [] ops(<<O.OP_DUP, O.OP_HASH160, 0, O.OP_EQUALVERIFY, O.OP_CHECKSIG>>) /\ data(3, 20) ->
               hash("PUBKEYHASH", 3)
          [] /\ n >= 3 /\ Is(tokens[n], O.OP_CHECKMULTISIG)
             /\ Small(tokens[1]) /\ tokens[n - 1] = [is |-> "int", x |-> <<Len(keys)>>]
             /\ tokens[1].x[1] <= Len(keys)
             /\ \A k \in Range(keys) : k.is = "data" /\ Len(k.x) \in 33 .. 65 ->
               Multisig(tokens[1].x[1], Len(keys), [i \in DOMAIN keys |-> keys[i].x])
          [] OTHER -> [type |-> "NONSTANDARD", script |-> s]
      cut == SubSeq(s, 1, Len(s) - 1)
  IN /\ ExtractScriptData(s, TRUE) = form
     /\ form.type \notin {"NULL_DATA", "NONSTANDARD"} =>
          ExtractScriptData(cut, TRUE) = [type |-> "NONSTANDARD", script |-> cut]

-----------------------------------------------------------------------------
(* Transactions.                                                           *)

\* integers at the ends of their forms
Sizes == {0, 252, 253, 65535, 65536, 2^24}

(***************************************************************************)
(* Transactions are read as they were written: from any place in a block   *)
(* file, with and without witness data, RawTransaction::load gives back    *)
(* the transaction, except that an output number loses what is above 16    *)
(* bits (that of every coinbase does), and ends where it ends; what it     *)
(* hashes is the format without the witnesses, whose size is baseSize;     *)
(* TransactionHeader, which skips over the fields, gets the same sizes;    *)
(* and a file that ends before the transaction does is noticed, by both:   *)
(* wherever it ends for short transactions, at some places for long ones.  *)
(* Integers of one, two and four bytes are read back or found incomplete.  *)
(***************************************************************************)
TransactionsReadAsWritten ==
  tx.inputs # <<>> =>
    /\ \A before \in Files, withWitness \in BOOLEAN :
         LET wire == Wire(tx, withWitness)
             f == before \o wire \o <<1, 2, 3>>
             got == Load(f, Len(before))
             header == TransactionHeader(f, Len(before))
             read(i) == [i EXCEPT !.outputNum = <<@[1], @[2], 0, 0>>,
                                  !.witnessStack = IF withWitness THEN @ ELSE <<>>]
             cuts == IF Len(wire) <= 110 THEN 0 .. Len(wire) - 1
                     ELSE {1, 4, 5, Len(wire) \div 2, Len(wire) - 4, Len(wire) - 1}
         IN /\ got.pos = Len(before) + Len(wire) /\ header.pos = got.pos
            /\ got.val.realSize = Len(wire) /\ header.realSize = Len(wire)
            /\ got.val.baseSize = Len(Wire(tx, FALSE)) /\ header.baseSize = Len(Wire(tx, FALSE))
            /\ HashedBytes(got.val) = Wire(tx, FALSE)
            /\ got.val.inputs = [i \in DOMAIN tx.inputs |-> read(tx.inputs[i])]
            /\ got.val.outputs = tx.outputs
            /\ \A k \in cuts :
                 LET g == SubSeq(f, 1, Len(before) + k)
                 IN Load(g, Len(before)).pos = Thrown /\ TransactionHeader(g, Len(before)).pos = Thrown
    /\ \A n \in Sizes :
         LET int == SerializeCompact(n)
         IN /\ ReadVariableLengthInteger(int \o <<7>>, 0) = [pos |-> Len(int), val |-> n]
            /\ \A k \in 0 .. Len(int) - 1 : ReadVariableLengthInteger(SubSeq(int, 1, k), 0).pos = Thrown

(***************************************************************************)
(* Signatures sign the modified copy.  What getHash of a loaded            *)
(* transaction streams into SHA256 for an input is the wire format of the  *)
(* copy of the transaction that the hash type prescribes, followed by the  *)
(* hash type: the other scripts empty, its own the script code without     *)
(* OP_CODESEPARATOR, inputs and outputs dropped, blanked or kept; as long  *)
(* as no output is spent whose number load cuts off.  SINGLE is taken only *)
(* where the input has an output; the code reads past the outputs          *)
(* otherwise.                                                              *)
(***************************************************************************)
SignaturesSignTheModifiedCopy ==
  LET loaded == Load(Wire(tx, TRUE), 0).val IN
  (\A i \in DOMAIN tx.inputs : SubSeq(tx.inputs[i].outputNum, 3, 4) = <<0, 0>>) =>
  \A n \in DOMAIN tx.inputs, base \in {SIGHASH.ALL, SIGHASH.NONE, SIGHASH.SINGLE}, anyone \in {0, 128} :
    (base = SIGHASH.SINGLE => n <= Len(tx.outputs)) =>
    LET code == <<O.OP_CODESEPARATOR>> \o PushBytes(<<O.OP_DUP>>, <<171, 171>>) \o <<O.OP_CODESEPARATOR, O.OP_CHECKSIG>>
        kept == PushBytes(<<O.OP_DUP>>, <<171, 171>>) \o <<O.OP_CHECKSIG>>
        input(i) == [tx.inputs[i] EXCEPT
          !.script = IF i = n THEN kept ELSE <<>>,
          !.sequenceNum = IF i # n /\ base # SIGHASH.ALL THEN Repeat(0, 4) ELSE @]
        copy == [tx EXCEPT
          !.inputs = IF anyone = 128 THEN <<input(n)>> ELSE [i \in DOMAIN tx.inputs |-> input(i)],
          !.outputs = CASE base = SIGHASH.ALL -> @ [] base = SIGHASH.NONE -> <<>>
                        [] OTHER -> [i \in 1 .. n |-> IF i = n THEN @[i]
                                                      ELSE [value |-> Repeat(255, 8), script |-> <<>>]]]
    IN GetHash(loaded, n, code, base + anyone) = Wire(copy, FALSE) \o Bytes(base + anyone, 4)

-----------------------------------------------------------------------------
(* Text.                                                                   *)

\* a program of the given size, made of the payload over and over
Program(size) == [i \in 1 .. size |-> payload[((i - 1) % Len(payload)) + 1]]
Symbols == [i \in DOMAIN payload |-> payload[i] % 32]

(***************************************************************************)
(* Address strings are read back.  Under every configuration with prefixes *)
(* of one byte the Base58 string of a hash leads getAddressFromString to   *)
(* that hash and type, also where the hash begins with zero bytes; with    *)
(* Zcash's prefixes of two bytes it finds no address.  The SegWit string,  *)
(* where the configuration has such addresses, leads there too, and finds  *)
(* none when its first or last character is wrong; Bech32 itself          *)
(* rejects every string with one character wrong.  A string too short for  *)
(* a version and a checksum throws.  Base58 and the hexadecimal form of    *)
(* hashes lose no byte and their buffers never overflow (the asserts on    *)
(* carry).                                                                 *)
(***************************************************************************)
AddressStringsAreReadBack ==
  payload # <<>> =>
    LET b58 == EncodeBase58(payload)
        hrp == Configs.bitcoin.segwitPrefix
        b32 == EncodeBech32(hrp, Symbols)
    IN
    /\ DecodeBase58(<<Space>> \o b58 \o <<Space>>) = Decoded(payload)
    /\ ~Convert(payload, 256, 58, ((Len(payload) * 138) \div 100) + 1).overflow
    /\ SetHex(GetHex(payload), Len(payload)) = payload
    /\ DecodeBech32(b32) = [hrp |-> hrp, values |-> Symbols]
    /\ \A i \in {1} \cup Len(hrp) + 2 .. Len(b32), c \in {Charset[1], Charset[32], Zero, One} :
         c # b32[i] => DecodeBech32([b32 EXCEPT ![i] = c]) = NoBech32
    /\ \A config \in Range(Configs) :
         LET prefix == config.segwitPrefix
             find(str) == GetAddressFromString(config, str)
             wrong(str, i, c) == [str EXCEPT ![i] = IF @ = c THEN Charset[2] ELSE c]
         IN /\ \A type \in {"PUBKEYHASH", "SCRIPTHASH"} :
                 find(AddressString(config, Program(20), type)) =
                   IF Len(config.pubkeyPrefix) = 1 THEN LooksUp(Program(20), type) ELSE Nullopt
            /\ ~IsPrefix(prefix, b58) => find(b58) = InvalidAddressException
            /\ prefix # Configs.dash.segwitPrefix =>
                 \A p \in {<<20, "WITNESS_PUBKEYHASH">>, <<32, "WITNESS_SCRIPTHASH">>} :
                      LET str == EncodeSegwit(prefix, 0, Program(p[1]))
                      IN /\ find(str) = LooksUp(Program(p[1]), p[2])
                         /\ \A i \in {Len(prefix) + 2, Len(str)} :
                              find(wrong(str, i, Charset[1])) = Nullopt
=============================================================================
