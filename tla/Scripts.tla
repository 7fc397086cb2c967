------------------------------- MODULE Scripts -------------------------------
(***************************************************************************)
(* Scripts: how CScript writes them, how CScript and CScriptView read them *)
(* (two copies of the same functions) and how extractScriptData of the     *)
(* parser tells the type of an output.  A script is a sequence of bytes; a *)
(* position pc is the number of bytes before it.                           *)
(***************************************************************************)
EXTENDS Integers, Sequences, SequencesExt

\* the opcodes that the code tests for, and those that stand for template parts
Opcode == [OP_0 |-> 0, OP_PUSHDATA1 |-> 76, OP_PUSHDATA2 |-> 77, OP_PUSHDATA4 |-> 78,
  OP_1 |-> 81, OP_16 |-> 96, OP_RETURN |-> 106, OP_DUP |-> 118, OP_EQUAL |-> 135,
  OP_EQUALVERIFY |-> 136, OP_HASH160 |-> 169, OP_CODESEPARATOR |-> 171,
  OP_CHECKSIG |-> 172, OP_CHECKSIGVERIFY |-> 173, OP_CHECKMULTISIG |-> 174,
  OP_CHECKMULTISIGVERIFY |-> 175, OP_NOP10 |-> 185, OP_SMALLINTEGER |-> 250,
  OP_PUBKEYS |-> 251, OP_PUBKEYHASH |-> 253, OP_PUBKEY |-> 254, OP_INVALIDOPCODE |-> 255]
O == Opcode

MaxScriptElementSize == 520
MaxPubkeysPerMultisig == 20
MaxScriptSize == 10000

LittleEndian(bytes) == FoldRight(LAMBDA b, acc : b + 256 * acc, bytes, 0)
\* of numbers below 2^31
Bytes(n, width) == [i \in 1 .. width |-> IF i > 4 THEN 0 ELSE (n \div 256^(i - 1)) % 256]

IsSmall(opcode) == opcode = O.OP_0 \/ opcode \in O.OP_1 .. O.OP_16
DecodeOP_N(opcode) == IF opcode = O.OP_0 THEN 0 ELSE opcode - (O.OP_1 - 1)
EncodeOP_N(n) == IF n = 0 THEN O.OP_0 ELSE O.OP_1 + n - 1

-----------------------------------------------------------------------------
(* Numbers: little endian, the top bit of the last byte is the sign.       *)

Magnitude[n \in Nat] == IF n = 0 THEN <<>> ELSE <<n % 256>> \o Magnitude[n \div 256]

Serialize(n) ==
  LET abs == Magnitude[IF n < 0 THEN -n ELSE n] IN
  CASE n = 0 -> <<>>
    [] n # 0 /\ Last(abs) >= 128 -> abs \o <<IF n < 0 THEN 128 ELSE 0>>
    [] n # 0 /\ Last(abs) < 128 /\ n < 0 -> Front(abs) \o <<Last(abs) + 128>>
    [] OTHER -> abs

SetVch(vch) ==
  IF vch = <<>> THEN 0
  ELSE IF Last(vch) >= 128 THEN -LittleEndian(Front(vch) \o <<Last(vch) - 128>>)
  ELSE LittleEndian(vch)

\* CScriptNum(vch, fRequireMinimal): is there no scriptnum_error?
IsScriptNum(vch, requireMinimal, maxNumSize) ==
  /\ Len(vch) <= maxNumSize
  /\ requireMinimal /\ vch # <<>> =>
       \/ Last(vch) % 128 # 0
       \/ Len(vch) > 1 /\ vch[Len(vch) - 1] >= 128

-----------------------------------------------------------------------------
(* Writing.                                                                *)

PushOp(s, opcode) == Append(s, opcode)

PushBytes(s, b) ==
  s \o (CASE Len(b) < O.OP_PUSHDATA1 -> <<Len(b)>>
          [] Len(b) \in O.OP_PUSHDATA1 .. 255 -> <<O.OP_PUSHDATA1, Len(b)>>
          [] Len(b) \in 256 .. 65535 -> <<O.OP_PUSHDATA2>> \o Bytes(Len(b), 2)
          [] OTHER -> <<O.OP_PUSHDATA4>> \o Bytes(Len(b), 4)) \o b

PushInt64(s, n) ==
  IF n = -1 \/ n \in 1 .. 16 THEN Append(s, n + O.OP_1 - 1)
  ELSE IF n = 0 THEN Append(s, O.OP_0)
  ELSE PushBytes(s, Serialize(n))

-----------------------------------------------------------------------------
(* Reading.  A failed GetOp leaves pc behind what it has read.             *)

GetOp_Inclusive(s, pc) ==         \* mutant: 76 taken for a length
  LET op == s[pc + 1]
      size == IF op <= O.OP_PUSHDATA1 THEN op ELSE 0
  IN IF pc >= Len(s) \/ Len(s) - pc - 1 < size
     THEN [ok |-> FALSE, pc |-> pc, opcode |-> O.OP_INVALIDOPCODE, data |-> <<>>]
     ELSE [ok |-> TRUE, pc |-> pc + 1 + size, opcode |-> op, data |-> SubSeq(s, pc + 2, pc + 1 + size)]

GetOp(s, pc) ==
  LET fail(p) == [ok |-> FALSE, pc |-> p, opcode |-> O.OP_INVALIDOPCODE, data |-> <<>>]
      op == s[pc + 1]
      width == CASE op = O.OP_PUSHDATA1 -> 1 [] op = O.OP_PUSHDATA2 -> 2
                 [] op = O.OP_PUSHDATA4 -> 4 [] OTHER -> 0
      start == pc + 1 + width
      size == IF width = 0 THEN op ELSE LittleEndian(SubSeq(s, pc + 2, start))
  IN IF pc >= Len(s) THEN fail(pc)
     ELSE IF op > O.OP_PUSHDATA4
     THEN [ok |-> TRUE, pc |-> pc + 1, opcode |-> op, data |-> <<>>]
     ELSE IF Len(s) < start THEN fail(pc + 1)
     ELSE IF Len(s) - start < size THEN fail(start)
     ELSE [ok |-> TRUE, pc |-> start + size, opcode |-> op, data |-> SubSeq(s, start + 1, start + size)]

\* the ops read one after the other until there are no more or one fails
RECURSIVE Ops(_, _)
Ops(s, pc) == LET r == GetOp(s, pc) IN IF r.ok THEN <<r>> \o Ops(s, r.pc) ELSE <<>>
\* ... and whether they make up the script
Complete(s, pc) == LET ops == Ops(s, pc) IN Len(s) = IF ops = <<>> THEN pc ELSE Last(ops).pc

GetSigOpCount(s, accurate) ==
  LET ops == Ops(s, 0)
      count(i) ==
        CASE ops[i].opcode \in {O.OP_CHECKSIG, O.OP_CHECKSIGVERIFY} -> 1
          [] ops[i].opcode \in {O.OP_CHECKMULTISIG, O.OP_CHECKMULTISIGVERIFY} ->
               IF accurate /\ i > 1 /\ ops[i - 1].opcode \in O.OP_1 .. O.OP_16
               THEN DecodeOP_N(ops[i - 1].opcode) ELSE MaxPubkeysPerMultisig
          [] OTHER -> 0
  IN FoldLeft(LAMBDA acc, i : acc + count(i), 0, [i \in DOMAIN ops |-> i])

IsPayToScriptHash(s) ==
  Len(s) = 23 /\ s[1] = O.OP_HASH160 /\ s[2] = 20 /\ s[23] = O.OP_EQUAL
IsPayToWitnessScriptHash(s) == Len(s) = 34 /\ s[1] = O.OP_0 /\ s[2] = 32
IsWitnessProgram(s) == Len(s) \in 4 .. 42 /\ IsSmall(s[1]) /\ s[2] + 2 = Len(s)
IsPushOnly(s, pc) ==
  Complete(s, pc) /\ \A i \in DOMAIN Ops(s, pc) : Ops(s, pc)[i].opcode <= O.OP_16
HasValidOps(s) ==
  /\ Complete(s, 0)
  /\ \A i \in DOMAIN Ops(s, 0) : /\ Ops(s, 0)[i].opcode <= O.OP_NOP10
                                 /\ Len(Ops(s, 0)[i].data) <= MaxScriptElementSize
IsUnspendable(s) == (s # <<>> /\ s[1] = O.OP_RETURN) \/ Len(s) > MaxScriptSize
Find(s, opcode) == Len(SelectSeq(Ops(s, 0), LAMBDA r : r.opcode = opcode))

\* the sigops of what a pay-to-script-hash spends: the last push of the input
GetP2SHSigOpCount(s, scriptSig) ==
  IF ~IsPayToScriptHash(s) THEN GetSigOpCount(s, TRUE)
  ELSE IF ~IsPushOnly(scriptSig, 0) \/ scriptSig = <<>> THEN 0
  ELSE GetSigOpCount(Last(Ops(scriptSig, 0)).data, TRUE)

\* FindAndDelete: what is left of s from pc on, and how often b was found
RECURSIVE FindAndDelete(_, _, _)
FindAndDelete(s, b, pc) ==
  LET here == pc + Len(b) <= Len(s) /\ SubSeq(s, pc + 1, pc + Len(b)) = b
      r == GetOp(s, pc)
      rest == FindAndDelete(s, b, IF here THEN pc + Len(b) ELSE r.pc)
  IN IF b = <<>> \/ (~here /\ ~r.ok) THEN [script |-> SubSeq(s, pc + 1, Len(s)), found |-> 0]
     ELSE IF here THEN [rest EXCEPT !.found = @ + 1]
     ELSE [rest EXCEPT !.script = SubSeq(s, pc + 1, r.pc) \o @]

-----------------------------------------------------------------------------
(* The type of an output.                                                  *)

IsValidPubkey(vch) ==
  \/ Len(vch) = 33 /\ vch[1] \in {2, 3}
  \/ Len(vch) = 65 /\ vch[1] \in {4, 6, 7}

Templates == <<
  <<O.OP_PUBKEY, O.OP_CHECKSIG>>,
  <<O.OP_DUP, O.OP_HASH160, O.OP_PUBKEYHASH, O.OP_EQUALVERIFY, O.OP_CHECKSIG>>,
  <<O.OP_SMALLINTEGER, O.OP_PUBKEYS, O.OP_SMALLINTEGER, O.OP_CHECKMULTISIG>> >>

Unknown == [type |-> "unknown"]
Pubkey(data) == [type |-> "PUBKEY", pubkey |-> data]
Hashed(type, hash) == [type |-> type, hash |-> hash]
Multisig(required, total, keys) ==
  [type |-> "MULTISIG", numRequired |-> required, numTotal |-> total, addresses |-> keys]

IsValid_AnyTotal(out) == out.type # "MULTISIG" \/ out.numRequired <= out.numTotal   \* mutant
IsValid(out) ==
  out.type = "MULTISIG" =>
    out.numRequired <= out.numTotal /\ out.numTotal = Len(out.addresses)

\* the keys that follow, and the op read after them, which may have failed
RECURSIVE Pubkeys(_, _)
Pubkeys(s, r) ==
  IF Len(r.data) \notin 33 .. 65 THEN [keys |-> <<>>, op |-> r]
  ELSE LET rest == Pubkeys(s, GetOp(s, r.pc)) IN [rest EXCEPT !.keys = <<r.data>> \o @]

\* one pass of the loop over the templates, from op r of the script on: the
\* template parts left, and what is known of the output, which stays known when
\* the template does not match (m.type carries over to the next one)
RECURSIVE Match(_, _, _)
Match(s, part, m) ==
  LET r == GetOp(s, m.pc)
      keys == Pubkeys(s, r)
      multi == part # <<>> /\ part[1] = O.OP_PUBKEYS
      op == IF multi THEN keys.op ELSE r
      want == IF multi THEN part[2] ELSE part[1]
      out == IF multi THEN Multisig(m.required, 0, keys.keys) ELSE m.out
      next(o, req) == Match(s, IF multi THEN SubSeq(part, 3, Len(part)) ELSE Tail(part),
                            [pc |-> op.pc, out |-> o, required |-> req])
      stop == [hit |-> FALSE, out |-> out]
  IN IF m.pc = Len(s) /\ part = <<>> THEN [hit |-> m.out # Unknown /\ IsValid(m.out), out |-> m.out]
     ELSE IF ~r.ok \/ part = <<>> THEN [hit |-> FALSE, out |-> m.out]
     ELSE CASE want = O.OP_PUBKEY -> IF IsValidPubkey(op.data) THEN next(Pubkey(op.data), 0) ELSE stop
            [] want = O.OP_PUBKEYHASH ->
                 IF Len(op.data) = 20 THEN next(Hashed("PUBKEYHASH", op.data), 0) ELSE stop
            [] want = O.OP_SMALLINTEGER ->
                 IF ~IsSmall(op.opcode) THEN stop
                 ELSE IF ~multi THEN next(out, DecodeOP_N(op.opcode))
                 ELSE next([out EXCEPT !.numTotal = DecodeOP_N(op.opcode)], m.required)
            [] OTHER -> IF op.opcode = want THEN next(out, m.required) ELSE stop

NullData(s) ==
  [type |-> "NULL_DATA",
   fullData |-> FoldLeft(LAMBDA acc, r : acc \o r.data, <<>>, Ops(s, 0))]

ExtractScriptData(s, witnessActivated) ==
  LET program == GetOp(s, 1).data
      m[k \in 0 .. 3] ==
        IF k = 0 THEN [hit |-> FALSE, out |-> Unknown]
        ELSE LET before == m[k - 1]
             IN IF before.hit THEN before
                ELSE Match(s, Templates[k], [pc |-> 0, out |-> before.out, required |-> 0])
  IN IF IsPayToScriptHash(s) THEN Hashed("SCRIPTHASH", SubSeq(s, 3, 22))
     ELSE IF witnessActivated /\ IsWitnessProgram(s) /\ s[1] = O.OP_0 /\ Len(program) = 20
     THEN Hashed("WITNESS_PUBKEYHASH", program)
     ELSE IF witnessActivated /\ IsWitnessProgram(s) /\ s[1] = O.OP_0 /\ Len(program) = 32
     THEN Hashed("WITNESS_SCRIPTHASH", program)
     ELSE IF s # <<>> /\ s[1] = O.OP_RETURN /\ IsPushOnly(s, 1) THEN NullData(s)
     ELSE IF m[3].hit THEN m[3].out
     ELSE [type |-> "NONSTANDARD", script |-> s]
=============================================================================
