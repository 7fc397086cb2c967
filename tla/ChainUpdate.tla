---------------------------- MODULE ChainUpdate ----------------------------
(***************************************************************************)
(* updateChain (src/parser/main.cpp): each run of the parser compares the  *)
(* chain on disk with the one the block index chose, rolls back the blocks *)
(* they do not share, adds the others in batches and saves the maps of the *)
(* unspent outputs.  What the eight processing functions do to one         *)
(* transaction is one step here, in transaction order, which is what       *)
(* OrderedSteps says of BlockProcessor::addNewBlocks.                      *)
(*                                                                         *)
(* Transactions are numbered from 0: transaction n is txFile[n + 1].       *)
(* Outputs, and scripts, are numbered from 1.                              *)
(***************************************************************************)
EXTENDS Integers, Sequences, FiniteSets

CONSTANTS
  Block, NullHash, Prev, Genesis,  \* the tree of blocks, as in ChainIndex
  Txs,       \* Txs[b]: the transactions of block b
  Ins,       \* Ins[t]: the outputs <<transaction, i>> that t spends
  Outs,      \* Outs[t]: the addresses t pays to
  NullData,  \* the "addresses" that are OP_RETURN outputs
  MaxBlocks, \* the values of --max-block the parser is run with
  BatchTxs   \* transactions in a batch (10000000 in the code)

Type == {"PUBKEY", "NULL_DATA"}
TypeOf(a) == IF a \in NullData THEN "NULL_DATA" ELSE "PUBKEY"

ASSUME TreeAssumption ==
  /\ NullHash \notin Block
  /\ Genesis \in Block
  /\ Prev \in [Block -> Block \cup {NullHash}]
  /\ \A b \in Block : Prev[b] = NullHash <=> b = Genesis
ASSUME TxAssumption ==
  /\ Txs \in [Block -> Seq(DOMAIN Ins \cap DOMAIN Outs)]
  /\ \A t \in DOMAIN Ins : Ins[t] \in Seq((DOMAIN Outs) \X (Nat \ {0}))
  /\ \A t \in DOMAIN Outs : Outs[t] \in Seq({Outs[t][i] : i \in DOMAIN Outs[t]})
ASSUME ParameterAssumption ==
  MaxBlocks \subseteq Int /\ BatchTxs \in Nat \ {0}

VARIABLES
  known,            \* the blocks in the block index
  pc,               \* where updateChain is
  chainBlocks,      \* the chain to bring the files to
  next,             \* how many of its blocks are done with
  newTxCount,       \* transactions in this batch
  undo,             \* transactions not rolled back
  scriptCounts,     \* of the rolled-back state
  blockFile,        \* records of hash and firstTxIndex
  txFile,           \* records of hash, inputs and outputs
  linkData,         \* txUpdates: records of pointer and txNum
  utxoState,        \* map from <<transaction, i>> to txNum and type
  utxoScriptState,  \* map from <<txNum, i>> to scriptNum
  addressDb,        \* map from address to scriptNum
  scriptIndexes,    \* the next scriptNum of each type
  scriptFile,       \* for each type, records of address and txFirstSeen
  saved,            \* the maps and indexes as last written to disk
  rolledBack        \* history: has a block ever been rolled back?

chainFiles == <<blockFile, txFile, linkData>>
maps       == <<utxoState, utxoScriptState>>
addresses  == <<addressDb, scriptIndexes, scriptFile>>
control    == <<chainBlocks, next, newTxCount, undo, scriptCounts>>
vars == <<known, pc, control, chainFiles, maps, addresses, saved, rolledBack>>

Init ==
  /\ known = {Genesis}
  /\ pc = "idle"
  /\ chainBlocks = << >> /\ next = 0 /\ newTxCount = 0 /\ undo = 0
  /\ scriptCounts = [ty \in Type |-> 0]
  /\ blockFile = << >> /\ txFile = << >> /\ linkData = << >>
  /\ utxoState = << >> /\ utxoScriptState = << >>
  /\ addressDb = << >>
  /\ scriptIndexes = [ty \in Type |-> 1]
  /\ scriptFile = [ty \in Type |-> << >>]
  /\ saved = [utxoState |-> << >>, utxoScriptState |-> << >>,
              scriptIndexes |-> [ty \in Type |-> 1]]
  /\ rolledBack = FALSE

-----------------------------------------------------------------------------
(* SerializableMap: add keeps the value of a key that is there, erase      *)
(* throws MissingKeyException for one that is not.                         *)
Add(map, new) ==
  [k \in DOMAIN map \cup DOMAIN new |-> IF k \in DOMAIN map THEN map[k] ELSE new[k]]

Erase(map, keys) == [k \in DOMAIN map \ keys |-> map[k]]

Holds(map, keys) == keys \subseteq DOMAIN map

IsSpendable(type) == type # "NULL_DATA"

-----------------------------------------------------------------------------
(* The block index (module ChainIndex) learns of a block.                  *)
Discover ==
  /\ \E b \in Block \ known : Prev[b] \in known /\ known' = known \cup {b}
  /\ UNCHANGED <<pc, control, chainFiles, maps, addresses, saved, rolledBack>>

Ancestry[b \in Block] ==
  IF Prev[b] = NullHash THEN <<b>> ELSE Append(Ancestry[Prev[b]], b)

(* A block names the hash of the one before it, so the way down ends.      *)
ASSUME AncestryAssumption ==
  \A b \in Block : Ancestry[b] \in Seq(Block)

(* What generateChain may return for the option maxBlock, which counts the *)
(* blocks to keep or, if it is negative, those to leave out.  (A negative  *)
(* one that leaves out every block is not passed.)                         *)
Limited(s, maxBlock) ==
  IF maxBlock < 0 THEN SubSeq(s, 1, Len(s) + maxBlock)
  ELSE IF maxBlock = 0 \/ maxBlock > Len(s) THEN s
  ELSE SubSeq(s, 1, maxBlock)

Chains(maxBlock) ==
  {Limited(Ancestry[b], maxBlock) :
     b \in {b \in known : \A c \in known : Len(Ancestry[c]) <= Len(Ancestry[b])}}
  \ {<< >>}

(* The search goes down from the top and stops at the first block that     *)
(* differs.                                                                *)
SplitPoint_Shorter(chain) ==      \* mutant: the common length, no comparison
  IF Len(blockFile) <= Len(chain) THEN Len(blockFile) ELSE Len(chain)

SplitPoint(chain) ==
  LET maxSize == IF Len(blockFile) <= Len(chain) THEN Len(blockFile) ELSE Len(chain)
      differ  == {h \in 1..maxSize : blockFile[h].hash # chain[h]}
  IN  IF differ = {} THEN maxSize
      ELSE (CHOOSE h \in differ : \A k \in differ : k <= h) - 1

AfterRollback == IF next = Len(chainBlocks) THEN "idle" ELSE "add"

(* updateChain up to the call of rollbackTransactions, which does nothing  *)
(* if there is no block to delete.  The maps are read from disk.           *)
Start ==
  /\ pc = "idle"
  /\ \E maxBlock \in MaxBlocks : chainBlocks' \in Chains(maxBlock)
  /\ next' = SplitPoint(chainBlocks')
  /\ undo' = Len(txFile)
  /\ scriptCounts' = [ty \in Type |-> Len(scriptFile[ty])]
  /\ newTxCount' = 0
  /\ utxoState' = saved.utxoState
  /\ utxoScriptState' = saved.utxoScriptState
  /\ scriptIndexes' = saved.scriptIndexes
  /\ pc' = IF Len(blockFile) > next' THEN "undo" ELSE AfterRollback'
  /\ rolledBack' = (rolledBack \/ Len(blockFile) > next')
  /\ UNCHANGED <<known, chainFiles, addressDb, scriptFile, saved>>

-----------------------------------------------------------------------------
(* rollbackState: the loop over the transactions to delete, last first.    *)
FirstDeletedTx == blockFile[next + 1].firstTxIndex

Undone     == txFile[undo]
UndoneNum  == undo - 1
UndoneOuts == {i \in DOMAIN Undone.outputs : IsSpendable(Undone.outputs[i].type)}

(* The outputs, as <<txNum, j>>, that the transaction spent.               *)
Unspent ==
  UNION {{<<m, j>> : j \in {j \in DOMAIN txFile[m + 1].outputs :
                              txFile[m + 1].outputs[j].linkedTxNum = UndoneNum}} :
         m \in {Undone.inputs[k].linkedTxNum : k \in DOMAIN Undone.inputs}}

Output(p) == txFile[p[1] + 1].outputs[p[2]]

UndoHolds ==
  /\ Holds(utxoState, {<<Undone.hash, i>> : i \in UndoneOuts})
  /\ Holds(utxoScriptState, {<<UndoneNum, i>> : i \in UndoneOuts})

(* Number 0, which RollbackAddresses leads to for a type that has no       *)
(* scripts yet, would be read from memory before the file.                 *)
FirstTxIndex(ty, num) ==
  IF num \in DOMAIN scriptFile[ty] THEN scriptFile[ty][num].txFirstSeen ELSE -1

(* A count drops to the number of a script first seen in the transaction.  *)
LoweredCount(ty) ==
  LET nums == {scriptCounts[ty]} \cup
              {Undone.outputs[i].scriptNum :
                 i \in {i \in DOMAIN Undone.outputs :
                          /\ Undone.outputs[i].type = ty
                          /\ FirstTxIndex(ty, Undone.outputs[i].scriptNum) = UndoneNum}}
  IN  CHOOSE n \in nums : \A m \in nums : n <= m

Restored(map) ==
  Add(map, [q \in {<<txFile[p[1] + 1].hash, p[2]>> : p \in Unspent} |->
              LET p == CHOOSE p \in Unspent : <<txFile[p[1] + 1].hash, p[2]>> = q
              IN  [txNum |-> p[1], type |-> Output(p).type]])

Undo ==
  /\ scriptCounts' = [ty \in Type |-> LoweredCount(ty)]
  /\ utxoState' = Restored(Erase(utxoState, {<<Undone.hash, i>> : i \in UndoneOuts}))
  /\ utxoScriptState' =
       Add(Erase(utxoScriptState, {<<UndoneNum, i>> : i \in UndoneOuts}),
           [p \in Unspent |-> Output(p).scriptNum])
  /\ txFile' = [m \in DOMAIN txFile |->
                  [txFile[m] EXCEPT !.outputs =
                     [j \in DOMAIN @ |-> IF <<m - 1, j>> \in Unspent
                                           THEN [@[j] EXCEPT !.linkedTxNum = 0]
                                           ELSE @[j]]]]
  /\ undo' = undo - 1
  /\ UNCHANGED pc

(* An uncaught exception ends the parser: nothing is saved.                *)
Throw == pc' = "failed" /\ UNCHANGED <<control, chainFiles, maps, addresses>>

UndoTx ==
  /\ pc = "undo"
  /\ undo > FirstDeletedTx
  /\ IF UndoHolds THEN Undo ELSE Throw
  /\ UNCHANGED <<known, chainBlocks, next, newTxCount, blockFile, linkData,
                 addresses, saved>>

SaveMaps(indexes) ==
  saved' = [utxoState |-> utxoState, utxoScriptState |-> utxoScriptState,
            scriptIndexes |-> indexes]

(* ... the end of rollbackState.                                           *)
SaveUndone ==
  /\ pc = "undo"
  /\ undo = FirstDeletedTx
  /\ SaveMaps(saved.scriptIndexes)
  /\ pc' = "truncate"
  /\ UNCHANGED <<known, control, chainFiles, maps, addresses>>

(* rollbackTransactions truncates the files of the chain ...               *)
Truncate ==
  /\ pc = "truncate"
  /\ txFile' = SubSeq(txFile, 1, FirstDeletedTx)
  /\ blockFile' = SubSeq(blockFile, 1, next)
  /\ pc' = "addresses"
  /\ UNCHANGED <<known, control, linkData, maps, addresses, saved>>

(* ... and AddressState and AddressWriter roll back to the script counts.  *)
RollbackAddresses ==
  /\ pc = "addresses"
  /\ addressDb' = Erase(addressDb, {a \in DOMAIN addressDb :
                                      addressDb[a] >= scriptCounts[TypeOf(a)]})
  /\ scriptIndexes' = scriptCounts
  /\ scriptFile' = [ty \in Type |-> SubSeq(scriptFile[ty], 1, scriptCounts[ty])]
  /\ saved' = [saved EXCEPT !.scriptIndexes = scriptCounts]
  /\ pc' = AfterRollback
  /\ UNCHANGED <<known, control, chainFiles, maps>>

-----------------------------------------------------------------------------
(* addNewBlocks: the next transaction of block next + 1.                   *)
TxCount == Len(txFile)

(* getStartingTxCount, and currentTxNum after it.                          *)
StartOfBlock ==
  IF blockFile = << >> THEN 0
  ELSE LET b == blockFile[Len(blockFile)] IN b.firstTxIndex + Len(Txs[b.hash])

Position == TxCount - StartOfBlock + 1
NewTx    == Txs[chainBlocks[next + 1]][Position]

(* processAddresses: an OP_RETURN always gets a number of its own, another *)
(* address the one it has, or one when it is first met.                    *)
IsNew_NoDedup(addrs, i) == TRUE   \* mutant: every output gets a number

IsNew(addrs, i) ==
  \/ addrs[i] \in NullData
  \/ addrs[i] \notin DOMAIN addressDb /\ \A j \in 1..(i - 1) : addrs[j] # addrs[i]

NewOuts(addrs, ty) == {i \in DOMAIN addrs : IsNew(addrs, i) /\ TypeOf(addrs[i]) = ty}

NewBefore(addrs, i) == Cardinality({j \in NewOuts(addrs, TypeOf(addrs[i])) : j < i})

ScriptNum(addrs, i) ==
  IF IsNew(addrs, i) THEN scriptIndexes[TypeOf(addrs[i])] + NewBefore(addrs, i)
  ELSE IF addrs[i] \in DOMAIN addressDb THEN addressDb[addrs[i]]
  ELSE LET first == CHOOSE j \in 1..i : addrs[j] = addrs[i] /\ IsNew(addrs, j)
       IN  scriptIndexes[TypeOf(addrs[i])] + NewBefore(addrs, first)

(* The new addresses of one type, in the order in which they are written.  *)
NewScripts(addrs, ty) ==
  [n \in 1..Cardinality(NewOuts(addrs, ty)) |->
     addrs[CHOOSE i \in NewOuts(addrs, ty) :
             Cardinality({j \in NewOuts(addrs, ty) : j < i}) = n - 1]]

SpendableOuts(t) ==
  {<<t, i>> : i \in {i \in DOMAIN Outs[t] : IsSpendable(TypeOf(Outs[t][i]))}}
Spent(t) == {Ins[t][k] : k \in DOMAIN Ins[t]}
SpentPointers(t) == {<<utxoState[p].txNum, p[2]>> : p \in Spent(t)}

(* The inputs are erased one by one: a second one that names the same      *)
(* output finds it gone.                                                   *)
SpendHolds(t) ==
  /\ Holds(utxoState, Spent(t))
  /\ \A k, l \in DOMAIN Ins[t] : Ins[t][k] = Ins[t][l] => k = l
  /\ Holds(utxoScriptState, SpentPointers(t))

ConnectUTXOs_NoErase(t) ==        \* mutant: spent outputs stay
  utxoState' = Add(utxoState,
    [p \in SpendableOuts(t) |->
       [txNum |-> TxCount, type |-> TypeOf(Outs[t][p[2]])]])

ConnectUTXOs(t) ==
  utxoState' = Add(Erase(utxoState, Spent(t)),
    [p \in SpendableOuts(t) |->
       [txNum |-> TxCount, type |-> TypeOf(Outs[t][p[2]])]])

RecordAddresses(t) ==
  utxoScriptState' = Add(Erase(utxoScriptState, SpentPointers(t)),
    [p \in {<<TxCount, i>> : i \in DOMAIN Outs[t]} |-> ScriptNum(Outs[t], p[2])])

(* An input is written with the number in utxoScriptState.                 *)
SerializeTransaction(t) ==
  /\ txFile' = Append(txFile,
       [hash    |-> t,
        inputs  |-> [k \in DOMAIN Ins[t] |->
                       LET p == <<utxoState[Ins[t][k]].txNum, Ins[t][k][2]>>
                       IN  [linkedTxNum |-> p[1], scriptNum |-> utxoScriptState[p]]],
        outputs |-> [i \in DOMAIN Outs[t] |->
                       [linkedTxNum |-> 0, type |-> TypeOf(Outs[t][i]),
                        scriptNum |-> ScriptNum(Outs[t], i)]]])
  /\ linkData' = linkData \o
       [k \in DOMAIN Ins[t] |->
          [pointer |-> <<utxoState[Ins[t][k]].txNum, Ins[t][k][2]>>, txNum |-> TxCount]]

ProcessAddresses(t) ==
  LET new == {i \in DOMAIN Outs[t] : IsNew(Outs[t], i)} IN
  /\ addressDb' = Add(addressDb,
       [a \in {Outs[t][i] : i \in new} \ NullData |->
          ScriptNum(Outs[t], CHOOSE i \in new : Outs[t][i] = a)])
  /\ scriptIndexes' = [ty \in Type |-> scriptIndexes[ty] + Len(NewScripts(Outs[t], ty))]

SerializeAddresses(t) ==
  scriptFile' = [ty \in Type |-> scriptFile[ty] \o
    [i \in DOMAIN NewScripts(Outs[t], ty) |->
       [address |-> NewScripts(Outs[t], ty)[i], txFirstSeen |-> TxCount]]]

Process(t) ==
  /\ ConnectUTXOs(t)
  /\ ProcessAddresses(t)
  /\ RecordAddresses(t)
  /\ SerializeTransaction(t)
  /\ SerializeAddresses(t)
  /\ UNCHANGED <<pc, control>>

AddTx ==
  /\ pc = "add"
  /\ Position <= Len(Txs[chainBlocks[next + 1]])
  /\ IF SpendHolds(NewTx) THEN Process(NewTx) ELSE Throw
  /\ UNCHANGED <<known, blockFile, saved>>

(* The block record is written; the batch ends if it is large enough.      *)
EndBlock ==
  /\ pc = "add"
  /\ Position > Len(Txs[chainBlocks[next + 1]])
  /\ blockFile' = Append(blockFile, [hash |-> chainBlocks[next + 1],
                                     firstTxIndex |-> StartOfBlock])
  /\ next' = next + 1
  /\ newTxCount' = newTxCount + Len(Txs[chainBlocks[next + 1]])
  /\ pc' = IF newTxCount' < BatchTxs /\ next' < Len(chainBlocks) THEN "add" ELSE "link"
  /\ UNCHANGED <<known, chainBlocks, undo, scriptCounts, txFile, linkData, maps,
                 addresses, saved>>

(* backUpdateTxes, which removes the file of the links it has applied.     *)
Linked(p) ==
  LET by == {k \in DOMAIN linkData : linkData[k].pointer = p}
  IN  IF by = {} THEN Output(p).linkedTxNum ELSE linkData[CHOOSE k \in by : TRUE].txNum

BackUpdateTxes_Last ==            \* mutant: outside the loop over the batches
  /\ pc = "link"
  /\ txFile' = IF next < Len(chainBlocks) THEN txFile
               ELSE [m \in DOMAIN txFile |->
                       [txFile[m] EXCEPT !.outputs =
                          [j \in DOMAIN @ |-> [@[j] EXCEPT !.linkedTxNum = Linked(<<m - 1, j>>)]]]]
  /\ linkData' = << >>
  /\ newTxCount' = 0
  /\ pc' = IF next < Len(chainBlocks) THEN "add" ELSE "save"
  /\ UNCHANGED <<known, chainBlocks, next, undo, scriptCounts, blockFile, maps,
                 addresses, saved>>

BackUpdateTxes ==
  /\ pc = "link"
  /\ txFile' = [m \in DOMAIN txFile |->
                  [txFile[m] EXCEPT !.outputs =
                     [j \in DOMAIN @ |-> [@[j] EXCEPT !.linkedTxNum = Linked(<<m - 1, j>>)]]]]
  /\ linkData' = << >>
  /\ newTxCount' = 0
  /\ pc' = IF next < Len(chainBlocks) THEN "add" ELSE "save"
  /\ UNCHANGED <<known, chainBlocks, next, undo, scriptCounts, blockFile, maps,
                 addresses, saved>>

(* The maps are saved, and the script counts by ~AddressState.             *)
Save ==
  /\ pc = "save"
  /\ SaveMaps(scriptIndexes)
  /\ pc' = "idle"
  /\ UNCHANGED <<known, control, chainFiles, maps, addresses>>

-----------------------------------------------------------------------------
Rollback == UndoTx \/ SaveUndone \/ Truncate \/ RollbackAddresses
AddBlocks == AddTx \/ EndBlock \/ BackUpdateTxes \/ Save

Next ==
  \/ Discover \/ Start
  \/ (Rollback \/ AddBlocks) /\ UNCHANGED rolledBack

Spec == Init /\ [][Next]_vars

-----------------------------------------------------------------------------
(* What the theorems take as given about the block tree; none of it is     *)
(* needed to run the parser.                                               *)

(* Of two branches, one has at most one block where the other has another. *)
ShallowForks ==
  \A b, c \in Block :
    \A h, k \in 1..Len(Ancestry[b]) \cap 1..Len(Ancestry[c]) :
      Ancestry[b][h] # Ancestry[c][h] /\ Ancestry[b][k] # Ancestry[c][k] => h = k

(* The transactions of branch b before the i-th one of its h-th block.     *)
Before(b, h, i) ==
  UNION {{Txs[Ancestry[b][k]][j] :
            j \in {j \in DOMAIN Txs[Ancestry[b][k]] : k < h \/ j < i}} : k \in 1..h}

(* No branch contains a transaction twice.                                 *)
OnceEach ==
  \A b \in Block : \A h \in 1..Len(Ancestry[b]) : \A i \in DOMAIN Txs[Ancestry[b][h]] :
    Txs[Ancestry[b][h]][i] \notin Before(b, h, i)

(* A transaction's inputs are different outputs that earlier transactions  *)
(* of its branch create and no earlier one spends.                         *)
ValidSpends ==
  \A b \in Block : \A h \in 1..Len(Ancestry[b]) : \A i \in DOMAIN Txs[Ancestry[b][h]] :
    LET t == Txs[Ancestry[b][h]][i]
        earlier == Before(b, h, i)
    IN  /\ \A k, l \in DOMAIN Ins[t] : Ins[t][k] = Ins[t][l] => k = l
        /\ \A p \in Spent(t) :
             /\ \E u \in earlier : p \in SpendableOuts(u)
             /\ \A u \in earlier : p \notin Spent(u)

-----------------------------------------------------------------------------
(* After an update the block file holds the chain of the block index, each *)
(* block followed by the next one's transactions: whatever was rolled      *)
(* back, the files are those of that chain and of no other.                *)
BlocksFollowChain ==
  pc = "idle" =>
    /\ Len(blockFile) = Len(chainBlocks)
    /\ \A h \in DOMAIN blockFile :
         LET b == blockFile[h]
             end == IF h = Len(blockFile) THEN Len(txFile) ELSE blockFile[h + 1].firstTxIndex
         IN  /\ b.hash = chainBlocks[h]
             /\ end = b.firstTxIndex + Len(Txs[b.hash])
             /\ \A k \in DOMAIN Txs[b.hash] :
                  txFile[b.firstTxIndex + k].hash = Txs[b.hash][k]

(* After an update utxoState holds the spendable outputs of the chain that *)
(* nothing spends, each with the number of its transaction: a rollback     *)
(* brings back what the deleted transactions spent and drops what they     *)
(* created, also when both branches contain the same transaction.          *)
UtxoMatches ==
  pc = "idle" =>
    LET chainTxs == {txFile[n].hash : n \in DOMAIN txFile}
        spent == UNION {Spent(t) : t \in chainTxs}
    IN  /\ DOMAIN utxoState = (UNION {SpendableOuts(t) : t \in chainTxs}) \ spent
        /\ \A p \in DOMAIN utxoState : txFile[utxoState[p].txNum + 1].hash = p[1]

(* After an update the two directions of the links agree: an input names   *)
(* the transaction of the output it spends, that output names the spender, *)
(* and an output nobody spends names nobody.  While a transaction is undone *)
(* the outputs that name it are as many as its inputs, so that all of them *)
(* are brought back (inputsAdded == tx->inputCount in rollbackState).      *)
LinksMatch ==
  /\ pc = "idle" =>
       \A n \in DOMAIN txFile : \A i \in DOMAIN txFile[n].outputs :
         LET p == <<txFile[n].hash, i>>
             spenders == {m \in DOMAIN txFile : p \in Spent(txFile[m].hash)}
         IN  /\ spenders = {} => txFile[n].outputs[i].linkedTxNum = 0
             /\ \A m \in spenders :
                  /\ txFile[n].outputs[i].linkedTxNum = m - 1
                  /\ \A k \in DOMAIN txFile[m].inputs :
                       Ins[txFile[m].hash][k] = p => txFile[m].inputs[k].linkedTxNum = n - 1
  /\ pc = "undo" /\ undo > FirstDeletedTx /\ UndoHolds =>
       Cardinality(Unspent) = Len(Undone.inputs)

(* Until a block is rolled back, the script record that an output's number *)
(* leads to is that of its address, first seen no later than that output,  *)
(* an address has one number, although one thread gives out the numbers    *)
(* and another appends the records, and an input has the number of the     *)
(* output it spends, which went through utxoScriptState.                   *)
ScriptsMatch ==
  pc = "idle" /\ ~rolledBack =>
    \A n \in DOMAIN txFile :
      /\ \A i \in DOMAIN txFile[n].outputs :
           LET o == txFile[n].outputs[i]
               a == Outs[txFile[n].hash][i]
           IN  /\ o.scriptNum \in DOMAIN scriptFile[o.type]
               /\ scriptFile[o.type][o.scriptNum].address = a
               /\ scriptFile[o.type][o.scriptNum].txFirstSeen <= n - 1
               /\ a \notin NullData => a \in DOMAIN addressDb /\ addressDb[a] = o.scriptNum
      /\ \A k \in DOMAIN txFile[n].inputs :
           LET m == txFile[n].inputs[k].linkedTxNum + 1
               p == Ins[txFile[n].hash][k]
           IN  txFile[n].inputs[k].scriptNum = txFile[m].outputs[p[2]].scriptNum
=============================================================================
