---------------------------- MODULE ChainReader ----------------------------
(***************************************************************************)
(* ChainAccess, the read-only view of the chain files, next to a parser    *)
(* that updates them: rollbackTransactions truncates one file after the    *)
(* other, then the steps of addNewBlocks append to them, each through a    *)
(* stream of its own that reaches the disk when it likes.                  *)
(*                                                                         *)
(* A block stands for its hash, and so for the chain that ends in it.  The *)
(* files are mapped shared: a reader sees the disk, up to the size that    *)
(* the file had when it was mapped.  A call first checks for a             *)
(* reorganisation and then reads through pointers into the files, one      *)
(* access after the other, and the parser moves in between.                *)
(***************************************************************************)
EXTENDS Integers, Sequences

CONSTANTS
  Block, Root,    \* blocks, and the parent of the first one
  Parent,         \* Parent[b]
  NumTxes,        \* NumTxes[b]
  BlocksIgnored,  \* of the DataConfiguration
  Missing,        \* an answer from beyond the end of a file: a fault or zeros
  Unread,         \* no answer yet
  MaxRuns         \* bound: runs of the parser

ASSUME TreeAssumption ==
  /\ Parent \in [Block -> Block \cup {Root}] /\ Root \notin Block
  /\ NumTxes \in [Block -> Nat \ {0}]
  /\ BlocksIgnored \in Nat /\ MaxRuns \in Nat

ASSUME AnswerAssumption ==
  Missing # Unread /\ {Missing, Unread} \cap (Block \cup (Block \X Nat)) = {}

Chain[b \in Block \cup {Root}] ==
  IF b = Root THEN <<>> ELSE Append(Chain[Parent[b]], b)
Txes[b \in Block \cup {Root}] ==
  IF b = Root THEN <<>> ELSE Txes[Parent[b]] \o [k \in 1..NumTxes[b] |-> <<b, k>>]

(* The tree has no cycles: chains end at Root.                             *)
ASSUME ChainAssumption ==
  /\ Chain[Root] = <<>> /\ Txes[Root] = <<>>
  /\ \A b \in Block :
       /\ Chain[b] \in Seq(Block) /\ Txes[b] \in Seq(Block \X Nat)
       /\ Chain[b] = Append(Chain[Parent[b]], b)
       /\ Txes[b] = Txes[Parent[b]] \o [k \in 1..NumTxes[b] |-> <<b, k>>]

FirstTxIndex(b) == Len(Txes[Parent[b]])

Files == {"block", "tx", "hash", "sequence"}

VARIABLES
  disk,     \* disk[f]: a block per entry, or a transaction per entry
  parser,   \* "idle", "cutting", "adding"
  cuts,     \* <<file, size>>: what the rollback has still to truncate
  target,   \* the last block of the chain being parsed
  runs,
  phase,    \* of the reader: "closed", "mapping", "ready", "failed"
  todo,     \* files it has still to map
  mapped,   \* mapped[f]: the size file f was mapped with
  maxHeight, lastBlockHash, maxLoadedTx,
  reloaded, \* was the reader's last load a reload?
  call,     \* its last call: "none", "threw", "search" (for the height), "open"
  index,    \* the entry that was asked for
  seen,     \* seen[f]: what was read of it last, for the files f the call reads
  first, count, \* upper_bound's first and count
  updates,  \* history: the updates under way since the call checked
  quiet     \* history: has the parser been idle since the load began?

pvars == <<disk, parser, cuts, target, runs>>
rvars == <<phase, todo, mapped, maxHeight, lastBlockHash, maxLoadedTx, reloaded>>
cvars == <<call, index, seen, first, count, updates>>
vars == <<pvars, rvars, cvars, quiet>>

Content(f, b) == IF f = "block" THEN Chain[b] ELSE Txes[b]

Init ==
  /\ disk = [f \in Files |-> <<>>]
  /\ parser = "idle" /\ cuts = <<>> /\ target = Root /\ runs = 0
  /\ phase = "closed" /\ todo = <<>> /\ mapped = [f \in Files |-> 0]
  /\ maxHeight = 0 /\ lastBlockHash = Root /\ maxLoadedTx = 0
  /\ reloaded = FALSE /\ quiet = FALSE
  /\ call = "none" /\ index = 0 /\ seen = <<>> /\ first = 0 /\ count = 0 /\ updates = 0

(***************************************************************************)
(* The parser.                                                             *)
(***************************************************************************)
(* The number of blocks to keep.  The search goes down from the top and    *)
(* ends at the first block that differs.                                   *)
SplitPoint(b, c) ==
  LET maxSize == IF Len(Chain[b]) < Len(Chain[c]) THEN Len(Chain[b]) ELSE Len(Chain[c])
      different == {i \in 1..maxSize : Chain[b][i] # Chain[c][i]}
  IN  IF different = {} THEN maxSize
      ELSE (CHOOSE i \in different : \A j \in different : j <= i) - 1

(* The cuts of rollbackTransactions, to the sizes it finds before the first. *)
Rollback(blockKeepSize) ==
  LET firstDeletedTxNum == FirstTxIndex(disk["block"][blockKeepSize + 1])
  IN  << <<"tx", firstDeletedTxNum>>, <<"hash", firstDeletedTxNum>>,
         <<"sequence", firstDeletedTxNum>>, <<"block", blockKeepSize>> >>

StartUpdate(b) ==
  /\ parser = "idle" /\ runs < MaxRuns /\ b # target
  /\ runs' = runs + 1
  /\ target' = b
  /\ IF Len(disk["block"]) > SplitPoint(target, b)
       THEN parser' = "cutting" /\ cuts' = Rollback(SplitPoint(target, b))
       ELSE parser' = "adding" /\ cuts' = <<>>
  /\ quiet' = FALSE
  /\ updates' = IF call \in {"search", "open"} THEN updates + 1 ELSE updates
  /\ UNCHANGED <<disk, rvars, call, index, seen, first, count>>

CutFile ==
  /\ parser = "cutting"
  /\ disk' = [disk EXCEPT ![Head(cuts)[1]] = SubSeq(@, 1, Head(cuts)[2])]
  /\ cuts' = Tail(cuts)
  /\ parser' = IF Tail(cuts) = <<>> THEN "adding" ELSE "cutting"
  /\ UNCHANGED <<target, runs, rvars, cvars, quiet>>

AppendTo(f) ==
  /\ parser = "adding"
  /\ \E n \in (Len(disk[f]) + 1)..Len(Content(f, target)) :
       disk' = [disk EXCEPT ![f] = SubSeq(Content(f, target), 1, n)]
  /\ parser' = IF \A g \in Files : disk'[g] = Content(g, target) THEN "idle" ELSE "adding"
  /\ UNCHANGED <<cuts, target, runs, rvars, cvars, quiet>>

(* An update whose blocks are all there already has nothing to append.     *)
NothingToAdd ==
  /\ parser = "adding" /\ \A f \in Files : disk[f] = Content(f, target)
  /\ parser' = "idle"
  /\ UNCHANGED <<disk, cuts, target, runs, rvars, cvars, quiet>>

(***************************************************************************)
(* The reader.  The constructor maps the files in the order in which they  *)
(* are declared; reload leaves out the sequence numbers.                   *)
(***************************************************************************)
OpenOrder == <<"block", "tx", "sequence", "hash">>
ReloadOrder_NoTx == <<"block", "hash">>
ReloadOrder == <<"block", "tx", "hash">>

NoCall ==
  /\ call' = "none" /\ seen' = <<>>
  /\ index' = 0 /\ first' = 0 /\ count' = 0 /\ updates' = 0

Load(order, again) ==
  /\ phase' = "mapping"
  /\ todo' = order
  /\ reloaded' = again
  /\ quiet' = (parser = "idle")
  /\ NoCall
  /\ UNCHANGED <<pvars, mapped, maxHeight, lastBlockHash, maxLoadedTx>>

Open == phase = "closed" /\ Load(OpenOrder, FALSE)
Reload == phase = "ready" /\ call \in {"none", "threw"} /\ Load(ReloadOrder, TRUE)

MapFile ==
  /\ phase = "mapping" /\ todo # <<>>
  /\ mapped' = [mapped EXCEPT ![Head(todo)] = Len(disk[Head(todo)])]
  /\ todo' = Tail(todo)
  /\ UNCHANGED <<pvars, phase, maxHeight, lastBlockHash, maxLoadedTx, reloaded, cvars, quiet>>

Setup ==
  /\ phase = "mapping" /\ todo = <<>>
  /\ maxHeight' = mapped["block"] - BlocksIgnored
  /\ \/ /\ maxHeight' <= 0
        /\ phase' = "ready" /\ maxLoadedTx' = 0
        /\ UNCHANGED lastBlockHash
     \/ /\ maxHeight' \in 1..Len(disk["block"])
        /\ phase' = "ready"
        /\ lastBlockHash' = disk["block"][maxHeight']
        /\ maxLoadedTx' = FirstTxIndex(lastBlockHash') + NumTxes[lastBlockHash']
     \/ /\ maxHeight' > Len(disk["block"])
        /\ phase' = "failed"
        /\ UNCHANGED <<lastBlockHash, maxLoadedTx>>
  /\ UNCHANGED <<pvars, todo, mapped, reloaded, cvars, quiet>>

Close ==
  /\ phase \in {"ready", "failed"} /\ call \in {"none", "threw"}
  /\ NoCall
  /\ phase' = "closed" /\ mapped' = [f \in Files |-> 0]
  /\ maxHeight' = 0 /\ lastBlockHash' = Root /\ maxLoadedTx' = 0 /\ reloaded' = FALSE
  /\ UNCHANGED <<pvars, todo, quiet>>

-----------------------------------------------------------------------------
(* What the reader is asked, with errorOnReorg.                            *)

Entry(f, i) == IF i < mapped[f] /\ i < Len(disk[f]) THEN disk[f][i + 1] ELSE Missing

ReorgCheck_Length == maxHeight <= Len(disk["block"])
ReorgCheck == Entry("block", maxHeight - 1) = lastBlockHash

Loaded == phase = "ready" /\ maxHeight > 0

(* reorgCheck, before anything is read for a call.                         *)
Check(files, i, next) ==
  /\ Loaded /\ call \in {"none", "threw"}
  /\ \/ /\ ReorgCheck
        /\ call' = next /\ index' = i /\ seen' = [f \in files |-> Unread]
        /\ first' = 0 /\ count' = IF next = "search" THEN maxHeight ELSE 0
        /\ updates' = IF parser = "idle" THEN 0 ELSE 1
     \/ /\ ~ReorgCheck
        /\ call' = "threw" /\ seen' = <<>>
        /\ index' = 0 /\ first' = 0 /\ count' = 0 /\ updates' = 0
  /\ UNCHANGED <<pvars, rvars, quiet>>

GetBlock == \E h \in 0..(maxHeight - 1) : Check({"block"}, h, "open")
GetTxHash == \E i \in 0..(maxLoadedTx - 1) : Check({"hash"}, i, "open")

(* The constructor of Transaction looks the height up, which checks for a  *)
(* reorganisation, and then gets the record and its sequence numbers,      *)
(* which does not.                                                         *)
GetTransaction == \E i \in 0..(maxLoadedTx - 1) : Check({"tx", "sequence"}, i, "search")

(* A comparison of std::upper_bound in getBlockHeight.  A block that is    *)
(* gone reads as zeros, if it does not end the process.                    *)
Before(b) == b # Missing /\ index < FirstTxIndex(b)

Probe ==
  /\ call = "search"
  /\ LET step == count \div 2
     IN  IF Before(Entry("block", first + step))
           THEN first' = first /\ count' = step
           ELSE first' = first + step + 1 /\ count' = count - (step + 1)
  /\ call' = IF count' = 0 THEN "open" ELSE "search"
  /\ UNCHANGED <<pvars, rvars, index, seen, updates, quiet>>

(* The pointers stay with the caller, who reads through them when he likes *)
(* and as often as he likes.                                               *)
Read(f) ==
  /\ call = "open" /\ f \in DOMAIN seen
  /\ seen' = [seen EXCEPT ![f] = Entry(f, index)]
  /\ UNCHANGED <<pvars, rvars, call, index, first, count, updates, quiet>>

Forget ==
  /\ call = "open"
  /\ NoCall
  /\ UNCHANGED <<pvars, rvars, quiet>>

-----------------------------------------------------------------------------
Next ==
  \/ \E b \in Block : StartUpdate(b)
  \/ CutFile \/ NothingToAdd \/ \E f \in Files : AppendTo(f)
  \/ Open \/ Reload \/ MapFile \/ Setup \/ Close
  \/ GetBlock \/ GetTxHash \/ GetTransaction \/ Probe \/ Forget \/ \E f \in Files : Read(f)

Spec == Init /\ [][Next]_vars

(***************************************************************************)
(* A hypothesis: no two chains differ at more than one height.  Otherwise  *)
(* the search for the split point leaves blocks of the old chain in place, *)
(* and the files themselves mix two chains (see ChainUpdate).              *)
(***************************************************************************)
ShallowForks ==
  \A b, c \in Block : \A i \in DOMAIN Chain[b] \cap DOMAIN Chain[c] :
    Chain[b][i] # Chain[c][i] => i + 1 \notin DOMAIN Chain[b] \cap DOMAIN Chain[c]

(* A call may read entries of another chain, if the parser replaces the    *)
(* loaded one after the check; but not unnoticed.  As long as the next     *)
(* check would find the last loaded block in its place, and no more than   *)
(* one update has been under way since the check of this call, everything  *)
(* that was read is of the loaded chain or beyond the end of a file, and   *)
(* the height is that of the transaction's block.                          *)
NeverAnotherChain ==
  Loaded /\ call = "open" /\ updates <= 1 /\ ReorgCheck =>
    /\ \A f \in DOMAIN seen :
         seen[f] \in {Unread, Missing, Content(f, lastBlockHash)[index + 1]}
    /\ "tx" \in DOMAIN seen => first = Len(Chain[Txes[lastBlockHash][index + 1][1]])

(* For a reader that loads the chain while no parser runs, no call throws  *)
(* and none finds an entry missing until the next parser starts; sequence  *)
(* numbers of the blocks that a reload finds are the exception.            *)
CompleteIfQuiet ==
  quiet =>
    /\ call # "threw"
    /\ \A f \in DOMAIN seen : seen[f] = Missing => f = "sequence" /\ reloaded
=============================================================================
