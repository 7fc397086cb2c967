-------------------------------- MODULE RawTx --------------------------------
(***************************************************************************)
(* A transaction in a block file: the wire format (Wire, of the node), how *)
(* RawTransaction::load and TransactionHeader read it through a            *)
(* SafeMemReader, and what calculateHash and getHash feed to SHA256.       *)
(*                                                                         *)
(* A file is a sequence of bytes and a position the number of bytes before *)
(* it.  Fields that are only passed on stay byte sequences.  A read past   *)
(* the end throws std::out_of_range: it leads to the position Thrown, from *)
(* where every further read throws, too.                                   *)
(***************************************************************************)
EXTENDS Scripts

HashSize == 32

-----------------------------------------------------------------------------
(* The format.                                                             *)

VariableLengthIntSize(n) == IF n < 253 THEN 1 ELSE IF n <= 65535 THEN 3 ELSE 5

\* Serializer::serializeCompact; 64-bit counts do not occur
SerializeCompact(n) ==
  CASE VariableLengthIntSize(n) = 1 -> <<n>>
    [] VariableLengthIntSize(n) = 3 -> <<253>> \o Bytes(n, 2)
    [] OTHER -> <<254>> \o Bytes(n, 4)

Concat(list, enc(_)) == FoldLeft(LAMBDA acc, x : acc \o enc(x), <<>>, list)
WithSize(bytes) == SerializeCompact(Len(bytes)) \o bytes

WireInputs(tx) ==
  SerializeCompact(Len(tx.inputs))
  \o Concat(tx.inputs, LAMBDA i : i.hash \o i.outputNum \o WithSize(i.script) \o i.sequenceNum)
WireOutputs(tx) ==
  SerializeCompact(Len(tx.outputs))
  \o Concat(tx.outputs, LAMBDA o : o.value \o WithSize(o.script))
Wire(tx, withWitness) ==
  tx.version \o (IF withWitness THEN <<0, 1>> ELSE <<>>)
  \o WireInputs(tx) \o WireOutputs(tx)
  \o (IF withWitness
      THEN Concat(tx.inputs, LAMBDA i : SerializeCompact(Len(i.witnessStack))
                                        \o Concat(i.witnessStack, LAMBDA w : WithSize(w)))
      ELSE <<>>)
  \o tx.locktime

-----------------------------------------------------------------------------
(* SafeMemReader.                                                          *)

Thrown == 1000000                 \* a position past the end of every file
Has(f, pos, n) == n <= Len(f) - pos
ReadNext(f, pos, size) ==
  IF Has(f, pos, size) THEN [pos |-> pos + size, val |-> SubSeq(f, pos + 1, pos + size)]
  ELSE [pos |-> Thrown, val |-> Bytes(0, size)]
Advance(f, pos, n) == ReadNext(f, pos, n).pos

ReadVariableLengthInteger_252(f, pos) ==      \* mutant: 252 taken for the mark of two bytes
  LET v == ReadNext(f, pos, 1)
      r == ReadNext(f, v.pos, 2)
  IN IF v.val[1] < 252 THEN [v EXCEPT !.val = LittleEndian(@)] ELSE [r EXCEPT !.val = LittleEndian(@)]

\* the integer that begins with the byte v; one of eight bytes loses its upper half
IntegerAfter(f, v) ==
  LET size == CASE v.val = <<253>> -> 2 [] v.val = <<254>> -> 4 [] v.val = <<255>> -> 8 [] OTHER -> 0
      r == IF size = 0 THEN v ELSE ReadNext(f, v.pos, size)
  IN [r EXCEPT !.val = LittleEndian(SubSeq(@, 1, IF Len(@) > 4 THEN 4 ELSE Len(@)))]
ReadVariableLengthInteger(f, pos) == IntegerAfter(f, ReadNext(f, pos, 1))

\* n items, and as many as an integer says
Added(items, r) == [pos |-> r.pos, val |-> Append(items, r.val)]
ReadMany(f, pos, n, One(_, _)) ==
  LET items[k \in 0 .. n] ==
        IF k = 0 THEN [pos |-> pos, val |-> <<>>]
        ELSE Added(items[k - 1].val, One(f, items[k - 1].pos))
  IN items[n]
ReadAsMany(f, n, One(_, _)) == ReadMany(f, n.pos, n.val, One)
ReadCounted(f, pos, One(_, _)) == ReadAsMany(f, ReadVariableLengthInteger(f, pos), One)

-----------------------------------------------------------------------------
(* RawTransaction::load.                                                   *)

\* a script, or an item of a witness stack
ReadBytes(f, n) == ReadNext(f, n.pos, n.val)
ReadSized(f, pos) == ReadBytes(f, ReadVariableLengthInteger(f, pos))

\* the cast to uint16_t: of a coinbase's number 0xFFFFFFFF, 65535 is left
Lower16(num) == SubSeq(num, 1, 2) \o <<0, 0>>
RawInput(f, pos) ==
  LET hash == ReadNext(f, pos, HashSize)
      out == ReadNext(f, hash.pos, 4)
      script == ReadSized(f, out.pos)
      seq == ReadNext(f, script.pos, 4)
  IN [pos |-> seq.pos,
      val |-> [hash |-> hash.val, outputNum |-> Lower16(out.val),
               script |-> script.val, sequenceNum |-> seq.val, witnessStack |-> <<>>]]

RawOutput(f, pos) ==
  LET value == ReadNext(f, pos, 8)
      script == ReadSized(f, value.pos)
  IN [pos |-> script.pos, val |-> [value |-> value.val, script |-> script.val]]

\* an empty list of inputs marks a transaction with witnesses; the flag behind
\* it is skipped (its assert is not part of the Release build of README.rst)
Marker(f, start) == ReadVariableLengthInteger(f, Advance(f, start, 4))
ContainsSegwit(f, start) == Marker(f, start).val = 0
Base(f, start) ==
  IF ContainsSegwit(f, start) THEN Advance(f, Marker(f, start).pos, 1) ELSE Advance(f, start, 4)

\* the witness stacks of the inputs, and the locktime behind them
Stacks(f, segwit, pos, n) ==
  IF segwit THEN ReadMany(f, pos, n, LAMBDA g, p : ReadCounted(g, p, ReadSized))
  ELSE [pos |-> pos, val |-> [i \in 1 .. n |-> <<>>]]

Loaded(f, start, base, ins, outs, stacks) ==
  LET lock == ReadNext(f, stacks.pos, 4)
  IN [pos |-> lock.pos, val |->
        [version |-> ReadNext(f, start, 4).val, locktime |-> lock.val, outputs |-> outs.val,
         inputs |-> [i \in DOMAIN ins.val |-> [ins.val[i] EXCEPT !.witnessStack = stacks.val[i]]],
         baseSize |-> 8 + (outs.pos - base), realSize |-> lock.pos - start,
         hashed |-> SubSeq(f, base + 1, IF outs.pos = Thrown THEN base ELSE outs.pos)]]
Load(f, start) ==
  LET base == Base(f, start)
      ins == ReadCounted(f, base, RawInput)
      outs == ReadCounted(f, ins.pos, RawOutput)
  IN Loaded(f, start, base, ins, outs, Stacks(f, ContainsSegwit(f, start), outs.pos, Len(ins.val)))

\* what calculateHash hashes, twice
HashedBytes(tx) == tx.version \o tx.hashed \o tx.locktime

\* TransactionHeader, which skips over what Load keeps
SkipBytes(f, n, extra) == [pos |-> Advance(f, n.pos, n.val + extra), val |-> 0]
SkipSized(f, pos, extra) == SkipBytes(f, ReadVariableLengthInteger(f, pos), extra)
SkipStacks(f, segwit, pos, n) ==
  IF segwit
  THEN ReadMany(f, pos, n, LAMBDA g, p : ReadCounted(g, p, LAMBDA h, q : SkipSized(h, q, 0))).pos
  ELSE pos
Header(start, base, endOfOutputs, end) ==
  [pos |-> end, baseSize |-> 8 + (endOfOutputs - base), realSize |-> end - start]
TransactionHeader(f, start) ==
  LET base == Base(f, start)
      ins == ReadCounted(f, base, LAMBDA g, p : SkipSized(g, Advance(g, p, HashSize + 4), 4))
      outs == ReadCounted(f, ins.pos, LAMBDA g, p : SkipSized(g, Advance(g, p, 8), 0))
  IN Header(start, base, outs.pos,
            Advance(f, SkipStacks(f, ContainsSegwit(f, start), outs.pos, Len(ins.val)), 4))

-----------------------------------------------------------------------------
(* getHash: what a signature of input inputNum (from 1) signs.             *)

SIGHASH == [ALL |-> 1, NONE |-> 2, SINGLE |-> 3, ANYONECANPAY |-> 128]

SignedScript_AsIs(s) == WithSize(s)         \* mutant: with its OP_CODESEPARATORs

\* the script without its OP_CODESEPARATORs, behind the size it should have;
\* bytes that GetOp fails on are not all serialised
SignedScript(s) ==
  LET ops == Ops(s, 0)
      separator(i) == ops[i].opcode = O.OP_CODESEPARATOR
      from(i) == IF i = 1 THEN 0 ELSE ops[i - 1].pc
      kept == FoldLeft(LAMBDA acc, i : acc \o IF separator(i) THEN <<>>
                                              ELSE SubSeq(s, from(i) + 1, ops[i].pc),
                       <<>>, [i \in DOMAIN ops |-> i])
      stop == IF ops = <<>> THEN 0 ELSE Last(ops).pc
  IN SerializeCompact(Len(s) - Find(s, O.OP_CODESEPARATOR))
     \o kept \o SubSeq(s, stop + 1, GetOp(s, stop).pc)

GetHash(tx, inputNum, script, hashType) ==
  LET anyoneCanPay == hashType \div 128 = 1
      hashSingle == hashType % 32 = SIGHASH.SINGLE
      hashNone == hashType % 32 = SIGHASH.NONE
      ins == IF anyoneCanPay THEN <<inputNum>> ELSE [i \in DOMAIN tx.inputs |-> i]
      input(i) ==
        tx.inputs[i].hash \o tx.inputs[i].outputNum
        \o (IF i = inputNum THEN SignedScript(script) ELSE <<0>>)
        \o (IF i # inputNum /\ (hashSingle \/ hashNone) THEN <<0, 0, 0, 0>> ELSE tx.inputs[i].sequenceNum)
      nOutputs == IF hashNone THEN 0 ELSE IF hashSingle THEN inputNum ELSE Len(tx.outputs)
      output(i) ==
        IF hashSingle /\ i # inputNum THEN [k \in 1 .. 8 |-> 255] \o <<0>>
        ELSE tx.outputs[i].value \o WithSize(tx.outputs[i].script)
  IN tx.version \o SerializeCompact(Len(ins)) \o Concat(ins, input)
     \o SerializeCompact(nOutputs) \o Concat([i \in 1 .. nOutputs |-> i], output)
     \o tx.locktime \o Bytes(hashType, 4)
=============================================================================
