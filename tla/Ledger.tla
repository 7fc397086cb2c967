------------------------------- MODULE Ledger -------------------------------
(***************************************************************************)
(* The chain as the analysis library reads it: transactions whose inputs   *)
(* and outputs are links (Inout: the other transaction, an address, a      *)
(* value), blocks that cut the transactions into ranges, and the queries   *)
(* of Transaction, Output, Block and Address over them.                    *)
(*                                                                         *)
(* Transactions and heights count from 0, as in the code; txs[t + 1] is    *)
(* transaction t.  A query takes the number of blocks that are loaded      *)
(* (blockCount(): the blocks of the file without the blocksIgnored last).  *)
(***************************************************************************)
EXTENDS Integers, Sequences, FiniteSets, FiniteSetsExt

CONSTANTS
  Address,     \* records [scriptNum, type]
  Wrapped,     \* Wrapped[a]: address inside a script hash, None if not known
  Keys,        \* Keys[a]: addresses of a multisig's keys
  Required,    \* Required[a]: signatures a multisig asks for
  None,
  OutOfRange,  \* std::out_of_range
  Coinbases, Payments,  \* bounds: what transactions pay, lists of [address, value]
  Locktime,    \* Locktime[outs]: of the transactions that pay outs
  MaxTxs, MaxSpends, MaxInputs  \* bounds

ASSUME LedgerAssumption ==
  /\ Wrapped \in [Address -> Address \cup {None}]
  /\ Keys \in [Address -> SUBSET Address] /\ Required \in [Address -> Nat]
  /\ Coinbases \cup Payments \subseteq Seq([address : Address, value : Nat])
  /\ Locktime \in [Payments -> Nat]
  /\ {MaxTxs, MaxSpends, MaxInputs} \subseteq Nat

VARIABLES
  txs,     \* the transaction file: records [inputs, outputs, locktime]
  blocks   \* the block file: records [firstTxIndex, numTxes]

ledger == <<txs, blocks>>

Inout(linked, a, v) == [linkedTxNum |-> linked, address |-> a, value |-> v]

DedupType(type) ==
  CASE type \in {"PUBKEY", "PUBKEYHASH", "WITNESS_PUBKEYHASH", "MULTISIG_PUBKEY"} -> "PUBKEY"
    [] type \in {"SCRIPTHASH", "WITNESS_SCRIPTHASH"} -> "SCRIPTHASH"
    [] OTHER -> type
IsSpendable(a) == DedupType(a.type) # "NULL_DATA"
\* the script of an address: addresses of one dedup type share a number
Script(a) == <<DedupType(a.type), a.scriptNum>>

Total(S, val(_)) == MapThenSumSet(val, S)

-----------------------------------------------------------------------------
(* Transaction, Input, Output: pointers are pairs <<txNum, inoutNum>>.      *)

Tx(t) == txs[t + 1]
AllTxs == 0 .. Len(txs) - 1
IsCoinbase(t) == Tx(t).inputs = <<>>
Inputs(t) == {t} \X DOMAIN Tx(t).inputs
Outputs(t) == {t} \X DOMAIN Tx(t).outputs
Input(p) == Tx(p[1]).inputs[p[2]]
Output(p) == Tx(p[1]).outputs[p[2]]
InputValue(p) == Input(p).value
OutputValue(p) == Output(p).value

Block(h) == blocks[h + 1]
EndTxIndex(b) == b.firstTxIndex + b.numTxes
BlockTxs(h) == Block(h).firstTxIndex .. EndTxIndex(Block(h)) - 1

\* ChainAccess with n loaded blocks, and with errorOnReorg as the readers set it
MaxLoadedTx(n) == IF n > 0 THEN EndTxIndex(Block(n - 1)) ELSE 0
GetBlockHeight(n, t) ==
  IF t >= MaxLoadedTx(n) THEN OutOfRange
  ELSE Max({h \in 0 .. n - 1 : Block(h).firstTxIndex <= t})

SpendingTxIndex_AsStored(n, p) == Output(p).linkedTxNum       \* mutant
\* an output spent in an ignored block reads as unspent; 0 means unspent
SpendingTxIndex(n, p) ==
  IF Output(p).linkedTxNum < MaxLoadedTx(n) THEN Output(p).linkedTxNum ELSE 0
IsSpent(n, p) == SpendingTxIndex(n, p) # 0

\* the addresses that a transaction shows: those it pays, what is inside the
\* script hashes it spends, and the keys of both; and a script's txFirstSeen
Behind[a \in Address \cup {None}] ==
  IF a = None THEN {} ELSE {a} \cup Keys[a] \cup Behind[Wrapped[a]]
Shown(t) ==
  UNION {{Output(p).address} \cup Keys[Output(p).address] : p \in Outputs(t)}
  \cup UNION {Behind[Wrapped[Input(p).address]] : p \in Inputs(t)}
FirstTxIndex(a) == Min({t \in AllTxs : \E b \in Shown(t) : Script(b) = Script(a)})

Fee(t) ==
  IF IsCoinbase(t) THEN 0
  ELSE Total(Inputs(t), InputValue) - Total(Outputs(t), OutputValue)

-----------------------------------------------------------------------------
(* How the parser fills the files: a transaction links its inputs to the   *)
(* outputs they spend, and those outputs to itself.                        *)

Unspent == {p \in UNION {Outputs(t) : t \in AllTxs} :
              Output(p).linkedTxNum = 0 /\ IsSpendable(Output(p).address)}

Linked(ps) ==
  [t \in DOMAIN txs |-> [txs[t] EXCEPT !.outputs =
     [i \in DOMAIN @ |-> IF <<t - 1, i>> \in {ps[k] : k \in DOMAIN ps}
                         THEN [@[i] EXCEPT !.linkedTxNum = Len(txs)] ELSE @[i]]]]

Record(ps, outs, lock) ==
  txs' = Append(Linked(ps),
           [inputs |-> [k \in DOMAIN ps |->
                          Inout(ps[k][1], Output(ps[k]).address, Output(ps[k]).value)],
            outputs |-> [k \in DOMAIN outs |-> Inout(0, outs[k].address, outs[k].value)],
            locktime |-> lock])

InputLists == UNION {{s \in [1 .. k -> Unspent] :
                        \A i, j \in 1 .. k : i < j => s[i] # s[j]} : k \in 1 .. MaxInputs}

\* a new block begins with its coinbase transaction
AddBlock ==
  /\ Len(txs) < MaxTxs
  /\ \E outs \in Coinbases : Record(<<>>, outs, 0)
  /\ blocks' = Append(blocks, [firstTxIndex |-> Len(txs), numTxes |-> 1])

AddTx ==
  /\ Len(txs) < MaxTxs /\ Len(txs) - Len(blocks) < MaxSpends /\ blocks # <<>>
  /\ \E ps \in InputLists, outs \in Payments :
       /\ Total(DOMAIN ps, LAMBDA k : Output(ps[k]).value)
            >= Total(DOMAIN outs, LAMBDA k : outs[k].value)
       /\ Record(ps, outs, Locktime[outs])
  /\ blocks' = [blocks EXCEPT ![Len(blocks)].numTxes = @ + 1]

LedgerInit == txs = <<>> /\ blocks = <<>>
LedgerNext == AddBlock \/ AddTx

-----------------------------------------------------------------------------
(* Queries by address, and over a block.                                   *)

\* the address index names every output of an address, ignored blocks or not
OutputPointers(a) == {p \in UNION {Outputs(t) : t \in AllTxs} : Output(p).address = a}

\* a query that constructs Output(pointer) throws for an ignored transaction
Throws(n, ps) == \E p \in ps : GetBlockHeight(n, p[1]) = OutOfRange

Held_SpentLater(n, p, h) ==         \* mutant: the block that spends it counted in
  IF h = -1 THEN ~IsSpent(n, p)
  ELSE /\ GetBlockHeight(n, p[1]) <= h
       /\ ~IsSpent(n, p) \/ GetBlockHeight(n, SpendingTxIndex(n, p)) >= h
Held(n, p, h) ==
  IF h = -1 THEN ~IsSpent(n, p)
  ELSE /\ GetBlockHeight(n, p[1]) <= h
       /\ ~IsSpent(n, p) \/ GetBlockHeight(n, SpendingTxIndex(n, p)) > h

CalculateBalance(n, ps, h) ==
  IF Throws(n, ps) THEN OutOfRange
  ELSE Total({p \in ps : Held(n, p, h)}, OutputValue)

\* the inputs of t that equal what an input spending output p would be
GetInputPointers(t, p) ==
  {q \in Inputs(t) : Input(q) = Inout(p[1], Output(p).address, Output(p).value)}

SpendingTxs(n, ps) == {SpendingTxIndex(n, p) : p \in {p \in ps : IsSpent(n, p)}}

GetInputs(n, ps) ==
  IF Throws(n, ps) THEN OutOfRange
  ELSE UNION {GetInputPointers(SpendingTxIndex(n, p), p) : p \in {p \in ps : IsSpent(n, p)}}
GetOutputTransactions(n, ps) ==
  IF Throws(n, ps) THEN OutOfRange ELSE {p[1] : p \in ps}
GetInputTransactions(n, ps) ==
  IF Throws(n, ps) THEN OutOfRange ELSE SpendingTxs(n, ps)
GetTransactions(n, ps) ==
  IF Throws(n, ps) THEN OutOfRange ELSE {p[1] : p \in ps} \cup SpendingTxs(n, ps)

\* fullType: with the type inside a script hash, and the form of a multisig
FullType[a \in Address] ==
  CASE DedupType(a.type) = "SCRIPTHASH" /\ Wrapped[a] # None -> <<a.type>> \o FullType[Wrapped[a]]
    [] a.type = "MULTISIG" -> <<a.type, Required[a], Cardinality(Keys[a])>>
    [] OTHER -> <<a.type>>

\* what the addresses of a block gain, by a name of theirs
Net(h, names, name(_)) ==
  [x \in names |->
     Total({p \in UNION {Outputs(t) : t \in BlockTxs(h)} : name(Output(p).address) = x}, OutputValue)
     - Total({p \in UNION {Inputs(t) : t \in BlockTxs(h)} : name(Input(p).address) = x}, InputValue)]
NetAddressTypeValue(h) == Net(h, {a.type : a \in Address}, LAMBDA a : a.type)
NetFullTypeValue(h) == Net(h, {FullType[a] : a \in Address}, LAMBDA a : FullType[a])

\* outputs(...) of algorithms.hpp cut by the height they are spent at
OutputsUnspent(n, ps) == {p \in ps : ~IsSpent(n, p)}
OutputsSpentBeforeHeight(n, ps, h) ==
  {p \in ps : IsSpent(n, p) /\ GetBlockHeight(n, SpendingTxIndex(n, p)) < h}
OutputsSpentAfterHeight(n, ps, h) ==
  {p \in ps : IsSpent(n, p) /\ GetBlockHeight(n, SpendingTxIndex(n, p)) >= h}
SpentAfter(n, p) == GetBlockHeight(n, SpendingTxIndex(n, p)) - GetBlockHeight(n, p[1])
OutputsSpentWithinRelativeHeight(n, ps, d) == {p \in ps : IsSpent(n, p) /\ SpentAfter(n, p) < d}
OutputsSpentOutsideRelativeHeight(n, ps, d) == {p \in ps : IsSpent(n, p) /\ SpentAfter(n, p) >= d}

\* inputs(...) cut by the height of what they spend
CreatedHeight(n, p) == GetBlockHeight(n, Input(p).linkedTxNum)
InputsCreatedAfterHeight(n, ps, h) == {p \in ps : CreatedHeight(n, p) >= h}
InputsCreatedBeforeHeight(n, ps, h) == {p \in ps : CreatedHeight(n, p) < h}
Age(n, p) == GetBlockHeight(n, p[1]) - CreatedHeight(n, p)
InputsCreatedWithinRelativeHeight(n, ps, d) == {p \in ps : Age(n, p) < d}
InputsCreatedOutsideRelativeHeight(n, ps, d) == {p \in ps : Age(n, p) >= d}

\* and both by type
OutputsOfType(ps, type) == {p \in ps : Output(p).address.type = type}
InputsOfType(ps, type) == {p \in ps : Input(p).address.type = type}
InputCount(ts) == Total(ts, LAMBDA t : Len(Tx(t).inputs))
OutputCount(ts) == Total(ts, LAMBDA t : Len(Tx(t).outputs))

\* TransactionSummary, without the size
TransactionSummary(ins, outs, count, value) ==
  [totalInputs |-> ins, totalOutputs |-> outs, totalCount |-> count, totalOutputValue |-> value]
NoTransactions == TransactionSummary(0, 0, 0, 0)
Plus(s, r) == [f \in DOMAIN s |-> s[f] + r[f]]
SummaryOf(t) ==
  TransactionSummary(Len(Tx(t).inputs), Len(Tx(t).outputs), 1, Total(Outputs(t), OutputValue))

SpentAtAge(n, ins, maxAge, a) == Total({p \in ins : Min({maxAge, Age(n, p)}) = a}, InputValue)

\* totals[a]: first summed by age, capped at maxAge, then from the end
GetTotalSpentOfAges(n, h, maxAge) ==
  LET ins == {p \in UNION {Inputs(t) : t \in BlockTxs(h)} :
                Input(p).linkedTxNum <= EndTxIndex(Block(h - 1)) - 1}
      totals[a \in 0 .. maxAge - 1] ==
        SpentAtAge(n, ins, maxAge, a + 1) + (IF a = maxAge - 1 THEN 0 ELSE totals[a + 1])
  IN totals

-----------------------------------------------------------------------------
(* Properties.                                                             *)

AllBlocks == 0 .. Len(blocks) - 1
AllInputs(h) == UNION {Inputs(t) : t \in BlockTxs(h)}

\* No coin is lost or counted twice: at any height the balances of all
\* addresses (calculateBalance with a height) make up what the coinbases of the
\* blocks so far paid out, less the fees paid (fee of algorithms.hpp); what a
\* block adds to them is what its address types gain (netAddressTypeValue); and
\* the filters by height select the outputs that a balance is made of.  The full
\* types of a type share what the type gains (netFullTypeValue).
ValueIsConserved ==
  \A h \in AllBlocks :
    LET n == Len(blocks)
        created(ts) == Total({t \in ts : IsCoinbase(t)}, LAMBDA t : Total(Outputs(t), OutputValue))
                         - Total(ts, Fee)
        net == NetAddressTypeValue(h)
        full == NetFullTypeValue(h)
        held(ps) == {p \in OutputsUnspent(n, ps) \cup OutputsSpentAfterHeight(n, ps, h + 1) :
                       GetBlockHeight(n, p[1]) <= h}
    IN /\ Total(Address, LAMBDA a : CalculateBalance(n, OutputPointers(a), h))
            = created(UNION {BlockTxs(k) : k \in 0 .. h})
       /\ Total(DOMAIN net, LAMBDA type : net[type]) = created(BlockTxs(h))
       /\ \A type \in DOMAIN net :
            net[type] = Total({x \in DOMAIN full : x[1] = type}, LAMBDA x : full[x])
       /\ \A a \in Address :
            LET ps == OutputPointers(a)
            IN /\ CalculateBalance(n, ps, h) = Total(held(ps), OutputValue)
               /\ OutputsSpentBeforeHeight(n, ps, h)
                    = ps \ (OutputsUnspent(n, ps) \cup OutputsSpentAfterHeight(n, ps, h))

\* A reader that ignores the last blocks (blocksIgnored) sees the chain as it
\* was before them, although links and the address index know of them: a
\* query answers what it would have answered then, or throws.
IgnoredBlocksAreInvisible ==
  \A n \in 1 .. Len(blocks), a \in Address :
    LET ps == OutputPointers(a)
        full == Len(blocks)
        then == {t \in AllTxs : t < MaxLoadedTx(n)}
    IN /\ CalculateBalance(n, ps, -1) \in {OutOfRange, CalculateBalance(full, ps, n - 1)}
       /\ GetInputs(n, ps) \in {OutOfRange,
            {q \in UNION {Inputs(t) : t \in then} : Input(q).address = a}}
       /\ GetInputTransactions(n, ps) \in {OutOfRange,
            {t \in then : \E q \in Inputs(t) : Input(q).address = a}}
       /\ GetOutputTransactions(n, ps) \in {OutOfRange,
            {t \in then : \E p \in Outputs(t) : Output(p).address = a}}
       /\ ~Throws(n, ps) =>
            GetTransactions(n, ps) = GetInputTransactions(n, ps) \cup GetOutputTransactions(n, ps)
       /\ Throws(n, ps) <=> \E p \in ps : p[1] \notin then

\* getTotalSpentOfAges, which sums by age and then adds up from the oldest:
\* entry a is what the block spends of outputs more than a blocks old.
SpentOfAgesAddUp ==
  \A h \in AllBlocks \ {0}, maxAge \in 1 .. 3 :
    \A a \in 0 .. maxAge - 1 :
      GetTotalSpentOfAges(Len(blocks), h, maxAge)[a]
        = Total(AllInputs(h) \ InputsCreatedWithinRelativeHeight(Len(blocks), AllInputs(h), a + 1),
                InputValue)

\* Links can be followed both ways: what is spent is the same whether it is
\* looked up from the inputs or from the outputs, by age, by height and by type.
BothEndsOfALinkAgree ==
  LET n == Len(blocks)
      ins == UNION {AllInputs(h) : h \in AllBlocks}
      outs == UNION {Outputs(t) : t \in AllTxs}
      spent == outs \ OutputsUnspent(n, outs)
      same(is, os) == Total(is, InputValue) = Total(os, OutputValue) /\ Cardinality(is) = Cardinality(os)
  IN /\ InputCount(AllTxs) = Cardinality(ins) /\ OutputCount(AllTxs) = Cardinality(outs)
     /\ \A a \in Address : same(InputsOfType(ins, a.type), OutputsOfType(spent, a.type))
     /\ \A d \in 0 .. n :
          /\ same(InputsCreatedWithinRelativeHeight(n, ins, d), OutputsSpentWithinRelativeHeight(n, outs, d))
          /\ same(InputsCreatedOutsideRelativeHeight(n, ins, d), OutputsSpentOutsideRelativeHeight(n, outs, d))
          /\ same(InputsCreatedBeforeHeight(n, ins, d),
                  {p \in spent : GetBlockHeight(n, p[1]) < d})
          /\ same(InputsCreatedAfterHeight(n, ins, d),
                  {p \in spent : GetBlockHeight(n, p[1]) >= d})

\* The sums over coins come out right: balances by height, spending by age, and
\* what is found from either end of a link.
ValuesAddUp == ValueIsConserved /\ SpentOfAgesAddUp /\ BothEndsOfALinkAgree
=============================================================================
