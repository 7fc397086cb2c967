------------------------- MODULE ChainUpdateProofs -------------------------
(***************************************************************************)
(* updateChain leaves the files and maps as if it had parsed the chain it  *)
(* was given from nothing, whatever it had to roll back: the block and     *)
(* transaction files hold the chain, utxoState its unspent outputs, links  *)
(* agree in both directions, and, until a rollback, script numbers lead to *)
(* the records of their addresses.                                         *)
(*                                                                         *)
(* All of it holds as long as no two branches of the block tree differ in  *)
(* more than one height.  Without that hypothesis it is false (see the run *)
(* of MCChainUpdateDeep): the search for the split point stops at the      *)
(* highest block that differs.                                             *)
(***************************************************************************)
EXTENDS ChainUpdate, TLAPS, SequenceTheorems, FiniteSetTheorems, WellFoundedInduction

-----------------------------------------------------------------------------
First(h) == blockFile[h].firstTxIndex
Size(h)  == Len(Txs[blockFile[h].hash])
Heights  == 1..Len(blockFile)

BlockRecord == [hash : Block, firstTxIndex : Nat]
Phases == {"idle", "undo", "truncate", "addresses", "add", "link", "save", "failed"}

(* The files hold records, and the chain is one of blocks.                 *)
FileInv ==
  /\ known \subseteq Block
  /\ pc \in Phases
  /\ blockFile \in Seq(BlockRecord)
  /\ txFile \in Seq(Range(txFile))
  /\ \A n \in DOMAIN txFile : "hash" \in DOMAIN txFile[n]
  /\ chainBlocks \in Seq(Block)
  /\ next \in Nat /\ next <= Len(chainBlocks)

(* The chain is the lower part of a branch of the tree.                    *)
BranchInv ==
  \E b \in Block :
    /\ Len(chainBlocks) <= Len(Ancestry[b])
    /\ \A h \in 1..Len(chainBlocks) : chainBlocks[h] = Ancestry[b][h]

(* Each block starts where the one before it ends, the first at 0.         *)
TileInv ==
  /\ Len(blockFile) > 0 => First(1) = 0
  /\ \A h, k \in Heights : k = h + 1 => First(k) = First(h) + Size(h)
  /\ \A h, k \in Heights : h < k => First(h) + Size(h) <= First(k)

(* The transactions of a block are those its record says.                  *)
ContentInv ==
  \A h \in Heights :
    /\ First(h) + Size(h) <= Len(txFile)
    /\ \A k \in 1..Size(h) : txFile[First(h) + k].hash = Txs[blockFile[h].hash][k]

(* The blocks below next are those of the chain, also while the ones above *)
(* are rolled back.                                                        *)
AgreeInv ==
  pc # "failed" =>
    /\ next <= Len(blockFile)
    /\ \A h \in 1..next : blockFile[h].hash = chainBlocks[h]

(* Where the files end in each phase.  Only while blocks are added are     *)
(* there transactions above the last block: the first ones of the next.    *)
PhaseInv ==
  /\ pc \in {"undo", "truncate"} => next < Len(blockFile)
  /\ pc \in {"idle", "addresses", "add", "link", "save"} => Len(blockFile) = next
  /\ pc \in {"idle", "save"} => next = Len(chainBlocks)
  /\ pc \notin {"add", "failed"} => Len(txFile) = StartOfBlock
  /\ pc = "add" =>
       /\ next < Len(chainBlocks)
       /\ StartOfBlock <= Len(txFile)
       /\ Len(txFile) - StartOfBlock <= Len(Txs[chainBlocks[next + 1]])
       /\ \A k \in 1..(Len(txFile) - StartOfBlock) :
            txFile[StartOfBlock + k].hash = Txs[chainBlocks[next + 1]][k]

BlockInv == FileInv /\ BranchInv /\ TileInv /\ ContentInv /\ AgreeInv /\ PhaseInv

-----------------------------------------------------------------------------
(* The lengths and indexes the formulas above are about are numbers.       *)
LEMMA FileFacts ==
  ASSUME FileInv
  PROVE  /\ Len(blockFile) \in Nat /\ DOMAIN blockFile = 1..Len(blockFile)
         /\ Len(txFile) \in Nat /\ DOMAIN txFile = 1..Len(txFile)
         /\ Len(chainBlocks) \in Nat /\ DOMAIN chainBlocks = 1..Len(chainBlocks)
         /\ \A h \in Heights : /\ blockFile[h].hash \in Block
                               /\ First(h) \in Nat /\ Size(h) \in Nat
         /\ \A h \in 1..Len(chainBlocks) : chainBlocks[h] \in Block
         /\ \A b \in Block : Len(Txs[b]) \in Nat /\ DOMAIN Txs[b] = 1..Len(Txs[b])
         /\ StartOfBlock \in Nat
<1>1. /\ Len(blockFile) \in Nat /\ DOMAIN blockFile = 1..Len(blockFile)
      /\ Len(txFile) \in Nat /\ DOMAIN txFile = 1..Len(txFile)
      /\ Len(chainBlocks) \in Nat /\ DOMAIN chainBlocks = 1..Len(chainBlocks)
  BY LenProperties DEF FileInv
<1>2. \A b \in Block : Len(Txs[b]) \in Nat /\ DOMAIN Txs[b] = 1..Len(Txs[b])
  <2> TAKE b \in Block
  <2>1. Txs[b] \in Seq(DOMAIN Ins \cap DOMAIN Outs)
    BY TxAssumption
  <2> QED
    BY <2>1, LenProperties
<1>3. \A h \in Heights : blockFile[h] \in BlockRecord
  BY <1>1, ElementOfSeq DEF FileInv, Heights
<1>4. \A h \in Heights : blockFile[h].hash \in Block /\ First(h) \in Nat
  BY <1>3 DEF BlockRecord, First
<1>5. \A h \in Heights : Size(h) \in Nat
  BY <1>2, <1>4 DEF Size
<1>6. \A h \in 1..Len(chainBlocks) : chainBlocks[h] \in Block
  BY <1>1, ElementOfSeq DEF FileInv
<1>7. StartOfBlock \in Nat
  <2>1. CASE blockFile = << >>
    BY <2>1 DEF StartOfBlock
  <2>2. CASE blockFile # << >>
    <3>1. Len(blockFile) \in Heights
      BY <1>1, <2>2, EmptySeq DEF Heights, FileInv
    <3> QED
      BY <2>2, <3>1, <1>4, <1>5 DEF StartOfBlock, First, Size
  <2> QED
    BY <2>1, <2>2
<1> QED
  BY <1>1, <1>2, <1>4, <1>5, <1>6, <1>7

(* Where the next block starts, without the case of the empty file.        *)
LEMMA StartFacts ==
  ASSUME FileInv
  PROVE  /\ Len(blockFile) = 0 => StartOfBlock = 0
         /\ Len(blockFile) > 0 =>
              StartOfBlock = First(Len(blockFile)) + Size(Len(blockFile))
<1>1. Len(blockFile) = 0 <=> blockFile = << >>
  BY EmptySeq DEF FileInv
<1>2. Len(blockFile) \in Nat
  BY FileFacts
<1> QED
  BY <1>1, <1>2 DEF StartOfBlock, First, Size

(* A step that leaves the block file and the chain, and the hashes of the  *)
(* transactions, keeps what the files and the chain say of each other.     *)
LEMMA HashesKept ==
  ASSUME BlockInv, pc' \in Phases,
         known' = known, blockFile' = blockFile,
         chainBlocks' = chainBlocks, next' = next,
         txFile' \in Seq(Range(txFile')), Len(txFile') = Len(txFile),
         \A n \in 1..Len(txFile) :
           "hash" \in DOMAIN txFile'[n] /\ txFile'[n].hash = txFile[n].hash
  PROVE  /\ FileInv' /\ BranchInv' /\ TileInv' /\ ContentInv'
         /\ pc # "failed" => AgreeInv'
         /\ StartOfBlock' = StartOfBlock
<1>1. FileInv'
  <2>1. DOMAIN txFile' = 1..Len(txFile)
    BY LenProperties
  <2> QED
    BY <2>1 DEF BlockInv, FileInv
<1>2. BranchInv'
  BY DEF BlockInv, BranchInv
<1>3. TileInv'
  BY DEF BlockInv, TileInv, First, Size, Heights
<1>4. ContentInv'
  <2> SUFFICES ASSUME NEW h \in Heights
               PROVE  /\ First(h) + Size(h) <= Len(txFile')
                      /\ \A k \in 1..Size(h) :
                           txFile'[First(h) + k].hash = Txs[blockFile[h].hash][k]
    BY DEF ContentInv, Heights, First, Size
  <2>1. /\ First(h) + Size(h) <= Len(txFile)
        /\ \A k \in 1..Size(h) : txFile[First(h) + k].hash = Txs[blockFile[h].hash][k]
    BY DEF BlockInv, ContentInv
  <2>2. First(h) \in Nat /\ Size(h) \in Nat /\ Len(txFile) \in Nat
    BY FileFacts DEF BlockInv
  <2>3. ASSUME NEW k \in 1..Size(h) PROVE First(h) + k \in 1..Len(txFile)
    BY <2>1, <2>2, <2>3
  <2> QED
    BY <2>1, <2>3
<1>5. pc # "failed" => AgreeInv'
  BY DEF BlockInv, AgreeInv
<1>6. StartOfBlock' = StartOfBlock
  BY DEF StartOfBlock
<1> QED
  BY <1>1, <1>2, <1>3, <1>4, <1>5, <1>6

(* A step that leaves all of it needs only the phase looked at.            *)
LEMMA FilesKept ==
  ASSUME BlockInv, pc' \in Phases, UNCHANGED <<known, blockFile, chainBlocks, next, txFile>>
  PROVE  /\ FileInv' /\ BranchInv' /\ TileInv' /\ ContentInv'
         /\ pc # "failed" => AgreeInv'
         /\ StartOfBlock' = StartOfBlock
<1>1. FileInv'
  BY DEF BlockInv, FileInv
<1>2. BranchInv' /\ TileInv' /\ ContentInv' /\ (pc # "failed" => AgreeInv')
  BY DEF BlockInv, BranchInv, TileInv, ContentInv, AgreeInv, First, Size, Heights
<1>3. StartOfBlock' = StartOfBlock
  BY DEF StartOfBlock
<1> QED
  BY <1>1, <1>2, <1>3

(* Discover, and a step of a variable the files do not depend on.          *)
LEMMA DiscoverStep ==
  ASSUME BlockInv, Discover
  PROVE  BlockInv'
<1>1. known' \subseteq Block
  BY DEF Discover, BlockInv, FileInv
<1>2. UNCHANGED <<pc, blockFile, chainBlocks, next, txFile>>
  BY DEF Discover, control, chainFiles
<1>3. FileInv'
  BY <1>1, <1>2 DEF BlockInv, FileInv
<1>4. StartOfBlock' = StartOfBlock
  BY <1>2 DEF StartOfBlock
<1> QED
  BY <1>2, <1>3, <1>4
     DEF BlockInv, BranchInv, TileInv, ContentInv, AgreeInv, PhaseInv, First, Size, Heights

(* A thrown exception ends the run: only the phase changes.                *)
LEMMA ThrowStep ==
  ASSUME BlockInv, Throw, known' = known
  PROVE  BlockInv'
<1>1. pc' = "failed" /\ UNCHANGED <<known, blockFile, chainBlocks, next, txFile>>
  BY DEF Throw, control, chainFiles
<1>2. FileInv' /\ BranchInv' /\ TileInv' /\ ContentInv'
  BY <1>1, FilesKept DEF Phases
<1>3. AgreeInv'
  BY <1>1 DEF AgreeInv
<1>4. PhaseInv'
  BY <1>1 DEF PhaseInv
<1> QED
  BY <1>2, <1>3, <1>4 DEF BlockInv

(* A file changed record by record is as long as it was.                   *)
LEMMA KeptSeq ==
  ASSUME NEW s, NEW t, s \in Seq(Range(s)), DOMAIN t = DOMAIN s,
         t = [i \in DOMAIN t |-> t[i]]
  PROVE  t \in Seq(Range(t)) /\ Len(t) = Len(s)
<1>1. Len(s) \in Nat /\ DOMAIN t = 1..Len(s)
  BY LenProperties
<1>2. \A i \in 1..Len(s) : t[i] \in Range(t)
  BY <1>1 DEF Range
<1>3. t \in [1..Len(s) -> Range(t)]
  BY <1>1, <1>2
<1>4. t \in Seq(Range(t))
  BY <1>1, <1>3
<1> QED
  BY <1>1, <1>3, <1>4

(* A file cut at n keeps its first n records.                              *)
LEMMA CutSeq ==
  ASSUME NEW S, NEW s \in Seq(S), NEW n \in Nat, n <= Len(s)
  PROVE  /\ Len(SubSeq(s, 1, n)) = n /\ SubSeq(s, 1, n) \in Seq(S)
         /\ SubSeq(s, 1, n) \in Seq(Range(SubSeq(s, 1, n)))
         /\ \A i \in 1..n : SubSeq(s, 1, n)[i] = s[i]
<1> DEFINE t == SubSeq(s, 1, n)
<1>1. Len(t) = n /\ t \in Seq(S) /\ \A i \in 1..n : t[i] = s[i]
  BY LenProperties
<1> HIDE DEF t
<1>2. t \in Seq(Range(t))
  BY <1>1, SeqOfRange
<1> QED
  BY <1>1, <1>2 DEF t

(* A record appended to a file leaves the others where they are.           *)
LEMMA GrownSeq ==
  ASSUME NEW s, s \in Seq(Range(s)), NEW r
  PROVE  /\ Len(Append(s, r)) = Len(s) + 1
         /\ Append(s, r) \in Seq(Range(Append(s, r)))
         /\ \A i \in 1..Len(s) : Append(s, r)[i] = s[i]
         /\ Append(s, r)[Len(s) + 1] = r
<1> DEFINE t == Append(s, r)
           S == Range(s) \cup {r}
<1>1. s \in Seq(S) /\ r \in S
  BY SeqMonotonic
<1>2. /\ Len(t) = Len(s) + 1 /\ t \in Seq(S) /\ Len(s) \in Nat
      /\ \A i \in 1..Len(s) : t[i] = s[i]
      /\ t[Len(s) + 1] = r
  <2> HIDE DEF S
  <2> QED
    BY <1>1, AppendProperties, LenProperties
<1> HIDE DEF t, S
<1>3. t \in Seq(Range(t))
  BY <1>2, SeqOfRange
<1> QED
  BY <1>2, <1>3 DEF t

(* When no transaction lies above the last block, none of the next block   *)
(* is there yet.                                                           *)
LEMMA FullStart ==
  ASSUME FileInv, Len(txFile) = StartOfBlock
  PROVE  /\ StartOfBlock <= Len(txFile)
         /\ next < Len(chainBlocks) =>
              /\ Len(txFile) - StartOfBlock <= Len(Txs[chainBlocks[next + 1]])
              /\ \A k \in 1..(Len(txFile) - StartOfBlock) :
                   txFile[StartOfBlock + k].hash = Txs[chainBlocks[next + 1]][k]
<1>1. StartOfBlock \in Nat /\ Len(txFile) \in Nat
  BY FileFacts
<1>2. Len(txFile) - StartOfBlock = 0 /\ StartOfBlock <= Len(txFile) /\ 1..0 = {}
  BY <1>1
<1>3. ASSUME next < Len(chainBlocks) PROVE Len(Txs[chainBlocks[next + 1]]) \in Nat
  <2>1. next + 1 \in 1..Len(chainBlocks)
    BY <1>3, FileFacts DEF FileInv
  <2> QED
    BY <2>1, FileFacts
<1> QED
  BY <1>2, <1>3

-----------------------------------------------------------------------------
(* The split point: with at most one height that differs, all blocks below *)
(* the one the search stops at agree.                                      *)
LEMMA SplitAgrees ==
  ASSUME FileInv, NEW c \in Seq(Block),
         \A h, k \in 1..Len(blockFile) \cap 1..Len(c) :
           blockFile[h].hash # c[h] /\ blockFile[k].hash # c[k] => h = k
  PROVE  /\ SplitPoint(c) \in Nat
         /\ SplitPoint(c) <= Len(blockFile) /\ SplitPoint(c) <= Len(c)
         /\ \A h \in 1..SplitPoint(c) : blockFile[h].hash = c[h]
<1> DEFINE maxSize == IF Len(blockFile) <= Len(c) THEN Len(blockFile) ELSE Len(c)
           differ  == {h \in 1..maxSize : blockFile[h].hash # c[h]}
           top     == CHOOSE h \in differ : \A k \in differ : k <= h
<1>1. Len(blockFile) \in Nat /\ Len(c) \in Nat
  BY FileFacts, LenProperties
<1>2. maxSize \in Nat /\ maxSize <= Len(blockFile) /\ maxSize <= Len(c)
  BY <1>1
<1>3. SplitPoint(c) = IF differ = {} THEN maxSize ELSE top - 1
  BY DEF SplitPoint
<1>4. \A h, k \in differ : h = k
  BY <1>1, <1>2
<1>5. CASE differ = {}
  <2>1. SplitPoint(c) = maxSize
    BY <1>3, <1>5
  <2>2. \A h \in 1..maxSize : blockFile[h].hash = c[h]
    BY <1>5
  <2> QED
    BY <1>2, <2>1, <2>2
<1>6. CASE differ # {}
  <2>1. PICK d \in differ : \A k \in differ : k = d
    BY <1>4, <1>6
  <2>2. d \in 1..maxSize /\ d \in Int
    BY <1>2, <2>1
  <2>3. top \in differ
    BY <2>1, <2>2
  <2>4. top = d
    BY <2>1, <2>3
  <2>5. SplitPoint(c) = d - 1
    BY <1>3, <1>6, <2>4
  <2>6. ASSUME NEW h \in 1..(d - 1) PROVE blockFile[h].hash = c[h]
    <3>1. h \in 1..maxSize /\ h # d
      BY <1>2, <2>2
    <3> QED
      BY <2>1, <3>1
  <2> HIDE DEF maxSize, differ, top
  <2> QED
    BY <1>1, <1>2, <2>2, <2>5, <2>6
<1> QED
  BY <1>5, <1>6

(* What generateChain returns is the lower part of a branch.               *)
LEMMA ChainIsBranch ==
  ASSUME FileInv, NEW maxBlock \in Int, NEW c \in Chains(maxBlock)
  PROVE  /\ c \in Seq(Block)
         /\ \E b \in Block : /\ Len(c) <= Len(Ancestry[b])
                             /\ \A h \in 1..Len(c) : c[h] = Ancestry[b][h]
<1>1. PICK b \in known : c = Limited(Ancestry[b], maxBlock) /\ c # << >>
  BY DEF Chains
<1> DEFINE s == Ancestry[b]
<1>2. b \in Block /\ s \in Seq(Block)
  BY <1>1, AncestryAssumption DEF FileInv
<1>3. Len(s) \in Nat
  BY <1>2, LenProperties
<1>4. c = s \/ \E n \in Int : n <= Len(s) /\ c = SubSeq(s, 1, n)
  BY <1>1, <1>3 DEF Limited
<1>5. CASE c = s
  BY <1>2, <1>3, <1>5
<1>6. ASSUME NEW n \in Int, n <= Len(s), c = SubSeq(s, 1, n)
      PROVE  /\ c \in Seq(Block) /\ Len(c) <= Len(s)
             /\ \A h \in 1..Len(c) : c[h] = s[h]
  <2>1. n >= 1
    <3>1. n < 1 => SubSeq(s, 1, n) = << >>
      BY <1>2, <1>6, SubSeqProperties, EmptySeq
    <3> QED
      BY <1>1, <1>6, <3>1
  <2> HIDE DEF s
  <2>2. /\ SubSeq(s, 1, n) \in Seq(Block) /\ Len(SubSeq(s, 1, n)) = n
        /\ \A h \in 1..n : SubSeq(s, 1, n)[h] = s[h]
    BY <1>2, <1>3, <1>6, <2>1
  <2> QED
    BY <1>6, <2>2
<1> HIDE DEF s
<1>7. c \in Seq(Block) /\ Len(c) <= Len(s) /\ \A h \in 1..Len(c) : c[h] = s[h]
  BY <1>4, <1>5, <1>6, <1>3, <1>2
<1> QED
  BY <1>2, <1>7 DEF s

(* The start of an update finds the split point.                           *)
LEMMA StartStep ==
  ASSUME ShallowForks, BlockInv, Start
  PROVE  BlockInv'
<1> DEFINE c == chainBlocks'
<1>1. PICK maxBlock \in MaxBlocks : c \in Chains(maxBlock)
  BY DEF Start
<1>2. /\ c \in Seq(Block)
      /\ \E b \in Block : /\ Len(c) <= Len(Ancestry[b])
                          /\ \A h \in 1..Len(c) : c[h] = Ancestry[b][h]
  BY <1>1, ChainIsBranch, ParameterAssumption DEF BlockInv
<1>3. pc = "idle" /\ next' = SplitPoint(c) /\ UNCHANGED <<known, blockFile, txFile>>
  BY DEF Start, chainFiles
<1>4. pc' = IF Len(blockFile) > next' THEN "undo"
            ELSE IF next' = Len(c) THEN "idle" ELSE "add"
  BY DEF Start, AfterRollback
<1>5. /\ Len(blockFile) = Len(chainBlocks) /\ Len(txFile) = StartOfBlock
      /\ \A h \in 1..Len(blockFile) : blockFile[h].hash = chainBlocks[h]
  BY <1>3 DEF BlockInv, PhaseInv, AgreeInv
<1>6. Len(blockFile) \in Nat /\ Len(c) \in Nat /\ StartOfBlock \in Nat
  BY <1>2, FileFacts, LenProperties DEF BlockInv
<1>7. \A h, k \in 1..Len(blockFile) \cap 1..Len(c) :
        blockFile[h].hash # c[h] /\ blockFile[k].hash # c[k] => h = k
  <2>1. PICK b \in Block : /\ Len(chainBlocks) <= Len(Ancestry[b])
                           /\ \A h \in 1..Len(chainBlocks) : chainBlocks[h] = Ancestry[b][h]
    BY DEF BlockInv, BranchInv
  <2>2. PICK d \in Block : /\ Len(c) <= Len(Ancestry[d])
                           /\ \A h \in 1..Len(c) : c[h] = Ancestry[d][h]
    BY <1>2
  <2>3. Len(Ancestry[b]) \in Nat /\ Len(Ancestry[d]) \in Nat
    BY AncestryAssumption, LenProperties
  <2> HIDE DEF c
  <2> TAKE h, k \in 1..Len(blockFile) \cap 1..Len(c)
  <2> HAVE blockFile[h].hash # c[h] /\ blockFile[k].hash # c[k]
  <2>4. /\ h \in 1..Len(Ancestry[b]) \cap 1..Len(Ancestry[d])
        /\ k \in 1..Len(Ancestry[b]) \cap 1..Len(Ancestry[d])
    BY <1>5, <1>6, <2>1, <2>2, <2>3
  <2>5. Ancestry[b][h] # Ancestry[d][h] /\ Ancestry[b][k] # Ancestry[d][k]
    BY <1>5, <2>1, <2>2
  <2> QED
    BY <2>4, <2>5 DEF ShallowForks
<1>8. /\ next' \in Nat /\ next' <= Len(blockFile) /\ next' <= Len(c)
      /\ \A h \in 1..next' : blockFile[h].hash = c[h]
  <2> HIDE DEF c
  <2> QED
    BY <1>2, <1>3, <1>7, SplitAgrees DEF BlockInv
<1>9. FileInv'
  BY <1>2, <1>3, <1>4, <1>8 DEF BlockInv, FileInv, Phases
<1>10. BranchInv'
  BY <1>2 DEF BranchInv
<1>11. TileInv' /\ ContentInv'
  BY <1>3 DEF BlockInv, TileInv, ContentInv, First, Size, Heights
<1>12. AgreeInv'
  BY <1>3, <1>8 DEF AgreeInv
<1>13. PhaseInv'
  <2>1. StartOfBlock' = StartOfBlock /\ Len(txFile') = StartOfBlock' /\ Len(blockFile') = Len(blockFile)
    BY <1>3, <1>5 DEF StartOfBlock
  <2>2. pc' \in {"idle", "add"} => next' = Len(blockFile)
    BY <1>4, <1>6, <1>8
  <2>3. pc' = "undo" => next' < Len(blockFile)
    BY <1>4, <1>6, <1>8
  <2>4. pc' \in {"idle", "add", "undo"}
    BY <1>4
  <2>5. pc' = "idle" => next' = Len(c)
    BY <1>4
  <2>6. pc' = "add" => next' < Len(c)
    BY <1>4, <1>6, <1>8
  <2>7. pc' = "add" => Len(Txs[c[next' + 1]]) \in Nat
    <3> HIDE DEF c
    <3>1. pc' = "add" => c[next' + 1] \in Block
      BY <1>2, <1>6, <1>8, <2>6, ElementOfSeq
    <3> QED
      BY <3>1, FileFacts DEF BlockInv
  <2>8. Len(txFile') - StartOfBlock' = 0 /\ 1..0 = {}
    BY <2>1, <1>6
  <2> HIDE DEF c
  <2>9. pc' = "add" =>
          /\ Len(txFile') - StartOfBlock' <= Len(Txs[c[next' + 1]])
          /\ \A k \in 1..(Len(txFile') - StartOfBlock') :
               txFile'[StartOfBlock' + k].hash = Txs[c[next' + 1]][k]
    BY <2>7, <2>8
  <2> QED
    BY <2>1, <2>2, <2>3, <2>4, <2>5, <2>6, <2>9, <1>6 DEF PhaseInv, c
<1> QED
  BY <1>9, <1>10, <1>11, <1>12, <1>13 DEF BlockInv

-----------------------------------------------------------------------------
(* A rolled-back transaction, and the links, change outputs only.          *)
LEMMA UndoTxStep ==
  ASSUME BlockInv, UndoTx
  PROVE  BlockInv'
<1>1. pc = "undo" /\ UNCHANGED <<known, chainBlocks, next, blockFile>>
  BY DEF UndoTx
<1>2. CASE UndoHolds
  <2>1. Undo
    BY <1>2 DEF UndoTx
  <2>2. pc' = pc
    BY <2>1 DEF Undo
  <2>3. Len(txFile) \in Nat /\ DOMAIN txFile = 1..Len(txFile)
    BY FileFacts DEF BlockInv
  <2>4. DOMAIN txFile' = DOMAIN txFile
    BY <2>1 DEF Undo
  <2>5. txFile' \in Seq(Range(txFile')) /\ Len(txFile') = Len(txFile)
    <3>1. txFile' = [i \in DOMAIN txFile' |-> txFile'[i]]
      BY <2>1 DEF Undo
    <3> QED
      BY <2>4, <3>1, KeptSeq DEF BlockInv, FileInv
  <2>6. \A n \in 1..Len(txFile) :
          "hash" \in DOMAIN txFile'[n] /\ txFile'[n].hash = txFile[n].hash
    BY <2>1, <2>3 DEF Undo, BlockInv, FileInv
  <2>7. /\ FileInv' /\ BranchInv' /\ TileInv' /\ ContentInv' /\ AgreeInv'
        /\ StartOfBlock' = StartOfBlock
    BY <1>1, <2>2, <2>5, <2>6, HashesKept DEF Phases
  <2>8. PhaseInv'
    BY <1>1, <2>2, <2>5, <2>7 DEF BlockInv, PhaseInv
  <2> QED
    BY <2>7, <2>8 DEF BlockInv
<1>3. CASE ~UndoHolds
  BY <1>1, <1>3, ThrowStep DEF UndoTx
<1> QED
  BY <1>2, <1>3

(* Back-linking leaves the blocks alone.                                   *)
LEMMA BackUpdateTxesStep ==
  ASSUME BlockInv, BackUpdateTxes
  PROVE  BlockInv'
<1>1. pc = "link" /\ UNCHANGED <<known, chainBlocks, next, blockFile>>
  BY DEF BackUpdateTxes
<1>2. pc' = IF next < Len(chainBlocks) THEN "add" ELSE "save"
  BY DEF BackUpdateTxes
<1>3. Len(txFile) \in Nat /\ DOMAIN txFile = 1..Len(txFile)
  BY FileFacts DEF BlockInv
<1>4. DOMAIN txFile' = DOMAIN txFile
  BY DEF BackUpdateTxes
<1>5. txFile' \in Seq(Range(txFile')) /\ Len(txFile') = Len(txFile)
  <2>1. txFile' = [i \in DOMAIN txFile' |-> txFile'[i]]
    BY DEF BackUpdateTxes
  <2> QED
    BY <1>4, <2>1, KeptSeq DEF BlockInv, FileInv
<1>6. \A n \in 1..Len(txFile) :
        "hash" \in DOMAIN txFile'[n] /\ txFile'[n].hash = txFile[n].hash
  BY <1>3 DEF BackUpdateTxes, BlockInv, FileInv
<1>7. /\ FileInv' /\ BranchInv' /\ TileInv' /\ ContentInv' /\ AgreeInv'
      /\ StartOfBlock' = StartOfBlock
  BY <1>1, <1>2, <1>5, <1>6, HashesKept DEF Phases
<1>8. PhaseInv'
  <2>1. /\ Len(blockFile) = next /\ Len(txFile) = StartOfBlock
        /\ next \in Nat /\ next <= Len(chainBlocks) /\ Len(chainBlocks) \in Nat
    BY <1>1, FileFacts DEF BlockInv, FileInv, PhaseInv
  <2>2. /\ StartOfBlock <= Len(txFile)
        /\ next < Len(chainBlocks) =>
             Len(txFile) - StartOfBlock <= Len(Txs[chainBlocks[next + 1]])
    BY <2>1, FullStart DEF BlockInv
  <2>3. 1..(Len(txFile) - StartOfBlock) = {}
    BY <1>3, <2>1
  <2> QED
    BY <1>1, <1>2, <1>5, <1>7, <2>1, <2>2, <2>3 DEF PhaseInv
<1> QED
  BY <1>7, <1>8 DEF BlockInv

(* The steps that only move on to the next phase.                          *)
LEMMA SaveUndoneStep ==
  ASSUME BlockInv, SaveUndone
  PROVE  BlockInv'
<1>1. /\ pc = "undo" /\ pc' = "truncate"
      /\ UNCHANGED <<known, blockFile, chainBlocks, next, txFile>>
  BY DEF SaveUndone, control, chainFiles
<1>2. /\ FileInv' /\ BranchInv' /\ TileInv' /\ ContentInv' /\ AgreeInv'
      /\ StartOfBlock' = StartOfBlock
  BY <1>1, FilesKept DEF Phases
<1>3. PhaseInv'
  BY <1>1, <1>2 DEF BlockInv, PhaseInv
<1> QED
  BY <1>2, <1>3 DEF BlockInv

(* Saving leaves the blocks alone.                                         *)
LEMMA SaveStep ==
  ASSUME BlockInv, Save
  PROVE  BlockInv'
<1>1. /\ pc = "save" /\ pc' = "idle"
      /\ UNCHANGED <<known, blockFile, chainBlocks, next, txFile>>
  BY DEF Save, control, chainFiles
<1>2. /\ FileInv' /\ BranchInv' /\ TileInv' /\ ContentInv' /\ AgreeInv'
      /\ StartOfBlock' = StartOfBlock
  BY <1>1, FilesKept DEF Phases
<1>3. PhaseInv'
  BY <1>1, <1>2 DEF BlockInv, PhaseInv
<1> QED
  BY <1>2, <1>3 DEF BlockInv

(* Rolling addresses back leaves the blocks alone.                         *)
LEMMA RollbackAddressesStep ==
  ASSUME BlockInv, RollbackAddresses
  PROVE  BlockInv'
<1>1. /\ pc = "addresses"
      /\ pc' = IF next = Len(chainBlocks) THEN "idle" ELSE "add"
      /\ UNCHANGED <<known, blockFile, chainBlocks, next, txFile>>
  BY DEF RollbackAddresses, AfterRollback, control, chainFiles
<1>2. /\ FileInv' /\ BranchInv' /\ TileInv' /\ ContentInv' /\ AgreeInv'
      /\ StartOfBlock' = StartOfBlock
  BY <1>1, FilesKept DEF Phases
<1>3. next \in Nat /\ Len(chainBlocks) \in Nat /\ next <= Len(chainBlocks)
  BY FileFacts DEF BlockInv, FileInv
<1>4. PhaseInv'
  BY <1>1, <1>2, <1>3, FullStart DEF BlockInv, PhaseInv
<1> QED
  BY <1>2, <1>4 DEF BlockInv

(* Both files are cut at the first block to delete.                        *)
LEMMA TruncateStep ==
  ASSUME BlockInv, Truncate
  PROVE  BlockInv'
<1> DEFINE cut == First(next + 1)
<1>1. /\ pc = "truncate" /\ pc' = "addresses"
      /\ txFile' = SubSeq(txFile, 1, cut) /\ blockFile' = SubSeq(blockFile, 1, next)
      /\ UNCHANGED <<known, chainBlocks, next>>
  BY DEF Truncate, FirstDeletedTx, First, control
<1>2. /\ next \in Nat /\ next < Len(blockFile) /\ Len(txFile) = StartOfBlock
      /\ Len(blockFile) \in Nat /\ Len(txFile) \in Nat
  BY <1>1, FileFacts DEF BlockInv, PhaseInv, FileInv
<1>3. next + 1 \in Heights /\ cut \in Nat /\ cut <= Len(txFile)
  <2>1. next + 1 \in Heights
    BY <1>2 DEF Heights
  <2>2. First(next + 1) \in Nat /\ Size(next + 1) \in Nat
    BY <2>1, FileFacts DEF BlockInv
  <2>3. First(next + 1) + Size(next + 1) <= Len(txFile)
    BY <2>1 DEF BlockInv, ContentInv
  <2> QED
    BY <1>2, <2>1, <2>2, <2>3
<1>4. /\ Len(blockFile') = next /\ blockFile' \in Seq(BlockRecord)
      /\ \A h \in 1..next : blockFile'[h] = blockFile[h]
  BY <1>1, <1>2, CutSeq DEF BlockInv, FileInv
<1>5. /\ Len(txFile') = cut /\ txFile' \in Seq(Range(txFile'))
      /\ \A n \in 1..cut : txFile'[n] = txFile[n]
  <2> HIDE DEF cut
  <2>1. txFile \in Seq(Range(txFile))
    BY DEF BlockInv, FileInv
  <2> QED
    BY <1>1, <1>2, <1>3, <2>1, CutSeq
<1>6. \A h \in 1..next : h \in Heights /\ First(h)' = First(h) /\ Size(h)' = Size(h)
  BY <1>2, <1>4 DEF Heights, First, Size
<1>7. Heights' = 1..next
  BY <1>4 DEF Heights
<1>8. FileInv'
  <2>1. DOMAIN txFile' = 1..cut
    BY <1>5, LenProperties
  <2>2. \A n \in 1..cut : n \in DOMAIN txFile
    BY <1>2, <1>3, FileFacts DEF BlockInv
  <2>3. \A n \in DOMAIN txFile' : "hash" \in DOMAIN txFile'[n]
    BY <1>5, <2>1, <2>2 DEF BlockInv, FileInv
  <2> HIDE DEF cut
  <2> QED
    BY <1>1, <1>4, <1>5, <2>3 DEF BlockInv, FileInv, Phases
<1>9. BranchInv'
  BY <1>1 DEF BlockInv, BranchInv
<1>10. TileInv'
  <2>1. Len(blockFile') > 0 => First(1)' = 0
    <3>1. Len(blockFile') > 0 => 1 \in 1..next /\ Len(blockFile) > 0
      BY <1>2, <1>4
    <3> QED
      BY <1>6, <3>1 DEF BlockInv, TileInv
  <2> QED
    BY <1>6, <1>7, <2>1 DEF BlockInv, TileInv
<1>11. ContentInv'
  <2> SUFFICES ASSUME NEW h \in 1..next
               PROVE  /\ First(h) + Size(h) <= cut
                      /\ \A k \in 1..Size(h) :
                           txFile'[First(h) + k].hash = Txs[blockFile[h].hash][k]
    BY <1>4, <1>5, <1>6, <1>7 DEF ContentInv
  <2>1. h \in Heights /\ h < next + 1
    BY <1>2, <1>6
  <2>2. First(h) + Size(h) <= cut
    BY <1>3, <2>1 DEF BlockInv, TileInv
  <2>3. First(h) \in Nat /\ Size(h) \in Nat
    BY <2>1, FileFacts DEF BlockInv
  <2>4. \A k \in 1..Size(h) : txFile[First(h) + k].hash = Txs[blockFile[h].hash][k]
    BY <2>1 DEF BlockInv, ContentInv
  <2> HIDE DEF cut
  <2>5. ASSUME NEW k \in 1..Size(h)
        PROVE  txFile'[First(h) + k].hash = Txs[blockFile[h].hash][k]
    <3>1. First(h) + k \in 1..cut
      BY <1>3, <2>2, <2>3
    <3> QED
      BY <1>5, <2>4, <3>1
  <2> QED
    BY <2>2, <2>5
<1>12. AgreeInv'
  BY <1>1, <1>2, <1>4 DEF BlockInv, AgreeInv
<1>13. StartOfBlock' = cut
  <2>1. /\ next = 0 => StartOfBlock' = 0
        /\ next > 0 => StartOfBlock' = First(next) + Size(next)
    <3>1. next = 0 <=> blockFile' = << >>
      BY <1>4, EmptySeq
    <3>2. next > 0 => blockFile'[next] = blockFile[next]
      BY <1>2, <1>4
    <3>3. next > 0 => blockFile' # << >>
      BY <1>2, <3>1
    <3>4. StartOfBlock' = IF blockFile' = << >> THEN 0
                          ELSE blockFile'[next].firstTxIndex + Len(Txs[blockFile'[next].hash])
      BY <1>4 DEF StartOfBlock
    <3> QED
      BY <3>1, <3>2, <3>3, <3>4 DEF First, Size
  <2>2. CASE next = 0
    <3>1. cut = 0
      BY <1>2, <2>2 DEF BlockInv, TileInv
    <3> QED
      BY <2>1, <2>2, <3>1
  <2>3. CASE next > 0
    <3>1. next \in 1..next /\ next \in Heights
      BY <1>2, <2>3 DEF Heights
    <3>2. cut = First(next) + Size(next)
      BY <1>3, <3>1 DEF BlockInv, TileInv
    <3> HIDE DEF cut
    <3> QED
      BY <2>1, <2>3, <3>2
  <2> QED
    BY <1>2, <2>2, <2>3
<1>14. PhaseInv'
  <2> HIDE DEF cut
  <2> QED
    BY <1>1, <1>4, <1>5, <1>13 DEF PhaseInv
<1> QED
  BY <1>8, <1>9, <1>10, <1>11, <1>12, <1>14 DEF BlockInv

-----------------------------------------------------------------------------
(* The transaction added is the next one of block next + 1.                *)
LEMMA AddTxStep ==
  ASSUME BlockInv, AddTx
  PROVE  BlockInv'
<1> DEFINE block == chainBlocks[next + 1]
           n     == Len(txFile)
           start == StartOfBlock
<1>1. pc = "add" /\ Position <= Len(Txs[block]) /\ UNCHANGED <<known, blockFile>>
  BY DEF AddTx
<1>2. CASE ~SpendHolds(NewTx)
  BY <1>1, <1>2, ThrowStep DEF AddTx
<1>3. CASE SpendHolds(NewTx)
  <2>1. Process(NewTx)
    BY <1>3 DEF AddTx
  <2>2. UNCHANGED <<pc, chainBlocks, next>>
    BY <2>1 DEF Process, control
  <2>3. PICK r : txFile' = Append(txFile, r) /\ "hash" \in DOMAIN r /\ r.hash = NewTx
    <3>1. ASSUME NEW t, NEW ins, NEW outs
          PROVE  "hash" \in DOMAIN [hash |-> t, inputs |-> ins, outputs |-> outs]
                 /\ [hash |-> t, inputs |-> ins, outputs |-> outs].hash = t
      OBVIOUS
    <3>2. \E ins, outs :
            txFile' = Append(txFile, [hash |-> NewTx, inputs |-> ins, outputs |-> outs])
      BY <2>1, Zenon DEF Process, SerializeTransaction
    <3> QED
      BY <3>1, <3>2
  <2>4. /\ next \in Nat /\ n \in Nat /\ start \in Nat /\ start <= n
        /\ next < Len(chainBlocks) /\ Len(chainBlocks) \in Nat
        /\ Len(blockFile) = next
        /\ n - start <= Len(Txs[block])
        /\ \A k \in 1..(n - start) : txFile[start + k].hash = Txs[block][k]
    BY <1>1, FileFacts DEF BlockInv, FileInv, PhaseInv
  <2>5. Len(Txs[block]) \in Nat
    <3>1. next + 1 \in 1..Len(chainBlocks)
      BY <2>4
    <3> QED
      BY <3>1, FileFacts DEF BlockInv
  <2>6. n - start + 1 <= Len(Txs[block]) /\ NewTx = Txs[block][n - start + 1]
    BY <1>1 DEF Position, TxCount, NewTx
  <2>7. /\ Len(txFile') = n + 1 /\ txFile' \in Seq(Range(txFile'))
        /\ \A i \in 1..n : txFile'[i] = txFile[i]
        /\ txFile'[n + 1] = r
    BY <2>3, GrownSeq DEF BlockInv, FileInv
  <2>8. FileInv'
    <3>1. DOMAIN txFile' = 1..(n + 1) /\ DOMAIN txFile = 1..n
      BY <2>7, LenProperties, FileFacts DEF BlockInv
    <3>2. ASSUME NEW i \in 1..(n + 1) PROVE "hash" \in DOMAIN txFile'[i]
      <4>1. i \in 1..n \/ i = n + 1
        BY <2>4
      <4> QED
        BY <2>3, <2>7, <3>1, <4>1 DEF BlockInv, FileInv
    <3> QED
      BY <1>1, <2>2, <2>7, <3>1, <3>2 DEF BlockInv, FileInv
  <2>9. BranchInv' /\ TileInv' /\ AgreeInv'
    BY <1>1, <2>2 DEF BlockInv, BranchInv, TileInv, AgreeInv, First, Size, Heights
  <2>10. ContentInv'
    <3> SUFFICES ASSUME NEW h \in Heights
                 PROVE  /\ First(h) + Size(h) <= Len(txFile')
                        /\ \A k \in 1..Size(h) :
                             txFile'[First(h) + k].hash = Txs[blockFile[h].hash][k]
      BY <1>1 DEF ContentInv, Heights, First, Size
    <3>1. /\ First(h) + Size(h) <= Len(txFile)
          /\ \A k \in 1..Size(h) : txFile[First(h) + k].hash = Txs[blockFile[h].hash][k]
      BY DEF BlockInv, ContentInv
    <3>2. First(h) \in Nat /\ Size(h) \in Nat
      BY FileFacts DEF BlockInv
    <3>3. ASSUME NEW k \in 1..Size(h) PROVE First(h) + k \in 1..n
      BY <2>4, <3>1, <3>2
    <3>4. First(h) + Size(h) <= n + 1
      BY <2>4, <3>1, <3>2
    <3> QED
      BY <2>7, <3>1, <3>3, <3>4
  <2>11. StartOfBlock' = start
    BY <1>1 DEF StartOfBlock
  <2>12. PhaseInv'
    <3> HIDE DEF n, start, block
    <3>1. ASSUME NEW k \in 1..((n + 1) - start)
          PROVE  txFile'[start + k].hash = Txs[block][k]
      <4>1. CASE k \in 1..(n - start)
        <5>1. start + k \in 1..n
          BY <2>4, <4>1
        <5> QED
          BY <2>4, <2>7, <4>1, <5>1
      <4>2. CASE k = n - start + 1
        <5>1. start + k = n + 1
          BY <2>4, <4>2
        <5> QED
          BY <2>3, <2>6, <2>7, <4>2, <5>1
      <4> QED
        BY <2>4, <4>1, <4>2
    <3>2. start <= n + 1 /\ (n + 1) - start <= Len(Txs[block])
      BY <2>4, <2>5, <2>6
    <3>3. chainBlocks'[next' + 1] = block /\ Len(chainBlocks') = Len(chainBlocks)
          /\ next' < Len(chainBlocks') /\ Len(blockFile') = next' /\ pc' = "add"
      BY <1>1, <2>2, <2>4 DEF block
    <3> QED
      BY <2>7, <2>11, <3>1, <3>2, <3>3 DEF PhaseInv
  <2> QED
    BY <2>8, <2>9, <2>10, <2>12 DEF BlockInv
<1> QED
  BY <1>2, <1>3

(* All transactions of the block are there when its record is written.     *)
LEMMA EndBlockStep ==
  ASSUME BlockInv, EndBlock
  PROVE  BlockInv'
<1> DEFINE block == chainBlocks[next + 1]
           n     == Len(txFile)
           start == StartOfBlock
           r     == [hash |-> block, firstTxIndex |-> start]
<1>1. /\ pc = "add" /\ Position > Len(Txs[block])
      /\ blockFile' = Append(blockFile, r) /\ next' = next + 1
      /\ UNCHANGED <<known, chainBlocks, txFile>>
  BY DEF EndBlock
<1>2. pc' \in {"add", "link"} /\ (pc' = "add" => next' < Len(chainBlocks))
  BY DEF EndBlock
<1>3. /\ next \in Nat /\ n \in Nat /\ start \in Nat /\ start <= n
      /\ next < Len(chainBlocks) /\ Len(chainBlocks) \in Nat
      /\ Len(blockFile) = next
      /\ n - start <= Len(Txs[block])
      /\ \A k \in 1..(n - start) : txFile[start + k].hash = Txs[block][k]
  BY <1>1, FileFacts DEF BlockInv, FileInv, PhaseInv
<1>4. block \in Block /\ Len(Txs[block]) \in Nat
  <2>1. next + 1 \in 1..Len(chainBlocks)
    BY <1>3
  <2> QED
    BY <2>1, FileFacts DEF BlockInv
<1>5. n = start + Len(Txs[block])
  BY <1>1, <1>3, <1>4 DEF Position, TxCount
<1>6. /\ r \in BlockRecord /\ r.hash = block /\ r.firstTxIndex = start
  BY <1>3, <1>4 DEF BlockRecord
<1> HIDE DEF r
<1>7. /\ blockFile' \in Seq(BlockRecord) /\ Len(blockFile') = next + 1
      /\ \A h \in 1..next : blockFile'[h] = blockFile[h]
      /\ blockFile'[next + 1] = r
  <2>1. blockFile \in Seq(BlockRecord)
    BY DEF BlockInv, FileInv
  <2> QED
    BY <1>1, <1>3, <1>6, <2>1, AppendProperties
<1> HIDE DEF n, start, block
<1>8. /\ Heights = 1..next /\ Heights' = 1..(next + 1)
      /\ \A h \in 1..next : First(h)' = First(h) /\ Size(h)' = Size(h)
  BY <1>3, <1>7 DEF Heights, First, Size
<1>9. \A h \in 1..(next + 1) :
        h = next + 1 => First(h)' = start /\ Size(h)' = Len(Txs[block])
  BY <1>6, <1>7 DEF First, Size
<1>10. \A h \in 1..(next + 1) : h \in 1..next \/ h = next + 1
  BY <1>3
<1>11. /\ \A h \in 1..next : First(h) \in Nat /\ Size(h) \in Nat
                             /\ First(h) + Size(h) <= start
       /\ next > 0 => start = First(next) + Size(next)
       /\ next = 0 => start = 0
  <2>1. /\ Len(blockFile) = 0 => start = 0
        /\ Len(blockFile) > 0 => start = First(Len(blockFile)) + Size(Len(blockFile))
    BY StartFacts DEF BlockInv, start
  <2>2. \A h \in 1..next : First(h) \in Nat /\ Size(h) \in Nat
    BY <1>8, FileFacts DEF BlockInv
  <2>3. ASSUME NEW h \in 1..next PROVE First(h) + Size(h) <= start
    <3>1. next \in 1..next /\ next > 0 /\ start = First(next) + Size(next)
      BY <1>3, <2>1
    <3>2. h = next \/ h < next
      BY <1>3
    <3>3. h < next => First(h) + Size(h) <= First(next)
      BY <1>8, <3>1 DEF BlockInv, TileInv
    <3>4. /\ First(h) \in Nat /\ Size(h) \in Nat
          /\ First(next) \in Nat /\ Size(next) \in Nat
      BY <2>2, <3>1
    <3> QED
      BY <3>1, <3>2, <3>3, <3>4
  <2> QED
    BY <1>3, <2>1, <2>2, <2>3
<1>12. FileInv'
  BY <1>1, <1>2, <1>3, <1>7 DEF BlockInv, FileInv, Phases
<1>13. BranchInv'
  BY <1>1 DEF BlockInv, BranchInv
<1>14. TileInv'
  <2>1. Len(blockFile') > 0 => First(1)' = 0
    <3>1. CASE next = 0
      BY <1>6, <1>7, <1>11, <3>1 DEF First
    <3>2. CASE next > 0
      <4>1. 1 \in 1..next /\ Len(blockFile) > 0
        BY <1>3, <3>2
      <4> QED
        BY <1>8, <4>1 DEF BlockInv, TileInv
    <3> QED
      BY <1>3, <3>1, <3>2
  <2>2. ASSUME NEW h \in 1..(next + 1), NEW k \in 1..(next + 1), k = h + 1
        PROVE  First(k)' = First(h)' + Size(h)'
    <3>1. h \in 1..next
      BY <1>3, <2>2
    <3>2. CASE k \in 1..next
      BY <1>8, <2>2, <3>1, <3>2 DEF BlockInv, TileInv
    <3>3. CASE k = next + 1
      <4>1. h = next
        BY <1>3, <2>2, <3>3
      <4>2. First(k)' = start
        BY <1>9, <3>3
      <4>3. start = First(h) + Size(h)
        BY <1>3, <1>11, <3>1, <4>1
      <4> QED
        BY <1>8, <3>1, <4>2, <4>3
    <3> QED
      BY <1>10, <3>2, <3>3
  <2>3. ASSUME NEW h \in 1..(next + 1), NEW k \in 1..(next + 1), h < k
        PROVE  First(h)' + Size(h)' <= First(k)'
    <3>1. h \in 1..next
      BY <1>3, <2>3
    <3>2. CASE k \in 1..next
      BY <1>8, <2>3, <3>1, <3>2 DEF BlockInv, TileInv
    <3>3. CASE k = next + 1
      BY <1>8, <1>9, <1>11, <3>1, <3>3
    <3> QED
      BY <1>10, <3>2, <3>3
  <2> QED
    BY <1>8, <2>1, <2>2, <2>3 DEF TileInv
<1>15. ContentInv'
  <2> SUFFICES ASSUME NEW h \in 1..(next + 1)
               PROVE  /\ First(h)' + Size(h)' <= n
                      /\ \A k \in 1..Size(h)' :
                           txFile[First(h)' + k].hash = Txs[blockFile'[h].hash][k]
    BY <1>1, <1>8 DEF ContentInv, n
  <2>1. CASE h \in 1..next
    <3>1. /\ First(h) + Size(h) <= Len(txFile)
          /\ \A k \in 1..Size(h) : txFile[First(h) + k].hash = Txs[blockFile[h].hash][k]
      BY <1>8, <2>1 DEF BlockInv, ContentInv
    <3> QED
      BY <1>7, <1>8, <2>1, <3>1 DEF n
  <2>2. CASE h = next + 1
    <3>1. n - start = Len(Txs[block])
      BY <1>3, <1>4, <1>5
    <3>2. First(h)' = start /\ Size(h)' = Len(Txs[block]) /\ blockFile'[h].hash = block
      BY <1>6, <1>7, <1>9, <2>2
    <3> QED
      BY <1>3, <1>4, <1>5, <3>1, <3>2
  <2> QED
    BY <1>10, <2>1, <2>2
<1>16. AgreeInv'
  <2>1. \A h \in 1..(next + 1) : blockFile'[h].hash = chainBlocks[h]
    BY <1>1, <1>6, <1>7, <1>10 DEF BlockInv, AgreeInv, block
  <2> QED
    BY <1>1, <1>3, <1>7, <2>1 DEF AgreeInv
<1>17. StartOfBlock' = n
  <2>1. blockFile' # << >>
    BY <1>3, <1>7, EmptySeq
  <2>2. StartOfBlock' = blockFile'[next + 1].firstTxIndex + Len(Txs[blockFile'[next + 1].hash])
    BY <1>7, <2>1 DEF StartOfBlock
  <2> QED
    BY <1>5, <1>6, <1>7, <2>2
<1>18. PhaseInv'
  <2>1. Len(txFile') = StartOfBlock'
    BY <1>1, <1>17 DEF n
  <2>2. ASSUME pc' = "add"
        PROVE  /\ next' < Len(chainBlocks')
               /\ StartOfBlock' <= Len(txFile')
               /\ Len(txFile') - StartOfBlock' <= Len(Txs[chainBlocks'[next' + 1]])
               /\ 1..(Len(txFile') - StartOfBlock') = {}
    <3>1. next + 2 \in 1..Len(chainBlocks) /\ next' + 1 = next + 2
      BY <1>1, <1>2, <1>3, <2>2
    <3>2. Len(Txs[chainBlocks[next + 2]]) \in Nat
      BY <3>1, FileFacts DEF BlockInv
    <3> QED
      BY <1>1, <1>2, <1>3, <1>17, <2>1, <2>2, <3>1, <3>2
  <2> QED
    BY <1>1, <1>2, <1>7, <2>1, <2>2 DEF PhaseInv
<1> QED
  BY <1>12, <1>13, <1>14, <1>15, <1>16, <1>18 DEF BlockInv

-----------------------------------------------------------------------------
(* The inductive invariant of the block and transaction files, through     *)
(* rollbacks, batches and updates that end in an exception.                *)
THEOREM BlockInvariance == ShallowForks => (Spec => []BlockInv)
<1> SUFFICES ASSUME ShallowForks PROVE Spec => []BlockInv
  OBVIOUS
<1>1. Init => BlockInv
  <2> SUFFICES ASSUME Init PROVE BlockInv
    OBVIOUS
  <2>1. /\ known = {Genesis} /\ pc = "idle" /\ next = 0
        /\ chainBlocks = << >> /\ blockFile = << >> /\ txFile = << >>
    BY DEF Init
  <2>2. \A S : << >> \in Seq(S) /\ Len(<< >>) = 0 /\ DOMAIN << >> = {} /\ 1..0 = {}
    BY EmptySeq
  <2>3. /\ chainBlocks \in Seq(Block) /\ blockFile \in Seq(BlockRecord)
        /\ txFile \in Seq(Range(txFile)) /\ DOMAIN txFile = {}
        /\ Len(chainBlocks) = 0 /\ Len(blockFile) = 0 /\ Len(txFile) = 0
    BY <2>1, <2>2
  <2>4. FileInv
    BY <2>1, <2>3, TreeAssumption DEF FileInv, Phases
  <2>5. Len(Ancestry[Genesis]) \in Nat /\ Genesis \in Block
    BY TreeAssumption, AncestryAssumption, LenProperties
  <2>6. BranchInv
    BY <2>2, <2>3, <2>5 DEF BranchInv
  <2>7. TileInv /\ ContentInv /\ AgreeInv
    BY <2>1, <2>2, <2>3 DEF TileInv, ContentInv, AgreeInv, Heights
  <2>8. PhaseInv
    BY <2>1, <2>3 DEF PhaseInv, StartOfBlock
  <2> QED
    BY <2>4, <2>6, <2>7, <2>8 DEF BlockInv
<1>2. BlockInv /\ [Next]_vars => BlockInv'
  <2> SUFFICES ASSUME BlockInv, [Next]_vars PROVE BlockInv'
    OBVIOUS
  <2>1. CASE Next
    BY <2>1, DiscoverStep, StartStep, UndoTxStep, SaveUndoneStep, TruncateStep,
       RollbackAddressesStep, AddTxStep, EndBlockStep, BackUpdateTxesStep, SaveStep
       DEF Next, Rollback, AddBlocks
  <2>2. CASE UNCHANGED vars
    <3>1. UNCHANGED <<known, pc, blockFile, chainBlocks, next, txFile>>
      BY <2>2 DEF vars, control, chainFiles
    <3> QED
      BY <3>1 DEF BlockInv, FileInv, BranchInv, TileInv, ContentInv, AgreeInv,
                  PhaseInv, StartOfBlock, First, Size, Heights
  <2> QED
    BY <2>1, <2>2
<1> QED
  BY <1>1, <1>2, PTL DEF Spec

(* After every update the files hold the blocks of the chain, each with    *)
(* its transactions, if no reorganisation replaces more than one block.    *)
THEOREM FilesHoldTheChain == ShallowForks => (Spec => []BlocksFollowChain)
<1> SUFFICES ASSUME ShallowForks PROVE Spec => []BlocksFollowChain
  OBVIOUS
<1>1. BlockInv => BlocksFollowChain
  <2> SUFFICES ASSUME BlockInv, pc = "idle"
               PROVE  /\ Len(blockFile) = Len(chainBlocks)
                      /\ \A h \in DOMAIN blockFile :
                           LET b == blockFile[h]
                               end == IF h = Len(blockFile) THEN Len(txFile)
                                      ELSE blockFile[h + 1].firstTxIndex
                           IN  /\ b.hash = chainBlocks[h]
                               /\ end = b.firstTxIndex + Len(Txs[b.hash])
                               /\ \A k \in DOMAIN Txs[b.hash] :
                                    txFile[b.firstTxIndex + k].hash = Txs[b.hash][k]
    BY DEF BlocksFollowChain
  <2>1. /\ Len(blockFile) = next /\ next = Len(chainBlocks)
        /\ Len(txFile) = StartOfBlock
        /\ \A h \in 1..next : blockFile[h].hash = chainBlocks[h]
    BY DEF BlockInv, PhaseInv, AgreeInv
  <2> SUFFICES ASSUME NEW h \in Heights
               PROVE  /\ blockFile[h].hash = chainBlocks[h]
                      /\ h = Len(blockFile) => Len(txFile) = First(h) + Size(h)
                      /\ h # Len(blockFile) => First(h + 1) = First(h) + Size(h)
                      /\ \A k \in DOMAIN Txs[blockFile[h].hash] :
                           txFile[First(h) + k].hash = Txs[blockFile[h].hash][k]
    BY <2>1, FileFacts DEF Heights, First, Size, BlockInv
  <2>2. Len(blockFile) \in Nat
    BY FileFacts DEF BlockInv
  <2>3. blockFile[h].hash = chainBlocks[h]
    BY <2>1 DEF Heights
  <2>4. h = Len(blockFile) => Len(txFile) = First(h) + Size(h)
    BY <2>1, <2>2, StartFacts DEF BlockInv, Heights
  <2>5. h # Len(blockFile) => First(h + 1) = First(h) + Size(h)
    <3>1. h # Len(blockFile) => h + 1 \in Heights
      BY <2>2 DEF Heights
    <3> QED
      BY <3>1 DEF BlockInv, TileInv
  <2>6. DOMAIN Txs[blockFile[h].hash] = 1..Size(h)
    BY FileFacts DEF BlockInv, Size
  <2> QED
    BY <2>3, <2>4, <2>5, <2>6 DEF BlockInv, ContentInv
<1> QED
  BY BlockInvariance, <1>1, PTL

(***************************************************************************)
(* The map of the unspent outputs, and the links between outputs and the   *)
(* inputs that spend them, follow the transaction file through additions,  *)
(* batches and rollbacks.  On top of the block file's invariant the        *)
(* argument needs one fact about the block chain:                          *)
(* no branch contains a transaction twice (BIP 30; the two coinbase        *)
(* transactions of 2010 that occur twice are outside of it).  That an      *)
(* output is not spent twice is not assumed: the parser would throw.       *)
(***************************************************************************)
Hash(n)    == txFile[n].hash
Link(n, i) == txFile[n].outputs[i].linkedTxNum

(* How many transactions the maps and the links reflect.                   *)
Live == IF pc \in {"undo", "truncate"} THEN undo ELSE Len(txFile)

Created(n)  == UNION {SpendableOuts(Hash(m)) : m \in 1..n}
Consumed(n) == UNION {Spent(Hash(m)) : m \in 1..n}

(* Each transaction is in a block, or above the last one.                  *)
CoverInv ==
  \A n \in 1..Len(txFile) :
    n > StartOfBlock \/ \E h \in Heights : First(h) < n /\ n <= First(h) + Size(h)

UniqueInv ==
  \A m, n \in 1..Len(txFile) : Hash(m) = Hash(n) => m = n

(* A record is that of its transaction.                                    *)
RecordInv ==
  \A n \in 1..Len(txFile) :
    /\ Hash(n) \in DOMAIN Ins /\ Hash(n) \in DOMAIN Outs
    /\ "inputs" \in DOMAIN txFile[n] /\ "outputs" \in DOMAIN txFile[n]
    /\ txFile[n].inputs = [k \in DOMAIN Ins[Hash(n)] |-> txFile[n].inputs[k]]
    /\ DOMAIN txFile[n].outputs = DOMAIN Outs[Hash(n)]
    /\ \A i \in DOMAIN Outs[Hash(n)] :
         /\ "linkedTxNum" \in DOMAIN txFile[n].outputs[i]
         /\ "type" \in DOMAIN txFile[n].outputs[i]
         /\ txFile[n].outputs[i].type = TypeOf(Outs[Hash(n)][i])

(* An input names the earlier transaction whose output it spends, and no   *)
(* output is spent twice.                                                  *)
InputInv ==
  \A n \in 1..Len(txFile) : \A k \in DOMAIN Ins[Hash(n)] :
    LET p == Ins[Hash(n)][k]
        m == txFile[n].inputs[k].linkedTxNum
    IN  m \in Nat /\ m + 1 < n /\ Hash(m + 1) = p[1] /\ p \in SpendableOuts(p[1])

OnceSpentInv ==
  /\ \A m, n \in 1..Len(txFile) : \A p \in Spent(Hash(m)) : p \in Spent(Hash(n)) => m = n
  /\ \A n \in 1..Len(txFile) : \A k, l \in DOMAIN Ins[Hash(n)] :
       Ins[Hash(n)][k] = Ins[Hash(n)][l] => k = l

ShapeInv == CoverInv /\ UniqueInv /\ RecordInv /\ InputInv /\ OnceSpentInv

-----------------------------------------------------------------------------
UndoInv ==
  pc \in {"undo", "truncate"} =>
    /\ undo \in Nat /\ FirstDeletedTx <= undo /\ undo <= Len(txFile)
    /\ pc = "truncate" => undo = FirstDeletedTx

(* utxoState holds what the live transactions create and do not spend.     *)
UtxoInv ==
  pc # "failed" =>
    /\ DOMAIN utxoState = Created(Live) \ Consumed(Live)
    /\ \A p \in DOMAIN utxoState :
         /\ utxoState[p].txNum \in Nat /\ utxoState[p].txNum + 1 \in 1..Live
         /\ Hash(utxoState[p].txNum + 1) = p[1]

(* Every unspent output has a script number.                               *)
ScriptMapInv ==
  pc # "failed" =>
    \A p \in DOMAIN utxoState : <<utxoState[p].txNum, p[2]>> \in DOMAIN utxoScriptState

(* Whenever an update may start the maps are those on disk.                *)
SavedInv ==
  /\ "utxoState" \in DOMAIN saved /\ "utxoScriptState" \in DOMAIN saved
  /\ pc \in {"idle", "truncate", "addresses"} =>
       saved.utxoState = utxoState /\ saved.utxoScriptState = utxoScriptState

(* A link that is there, or waits in linkData, leads to the spender.       *)
PendingInv ==
  pc # "failed" =>
    /\ linkData \in Seq(Range(linkData))
    /\ pc \notin {"add", "link"} => linkData = << >>
    /\ \A k \in DOMAIN linkData : \E n, m \in 1..Live : \E i \in DOMAIN Outs[Hash(n)] :
         /\ linkData[k] = [pointer |-> <<n - 1, i>>, txNum |-> m - 1]
         /\ <<Hash(n), i>> \in Spent(Hash(m))

LinkInv ==
  pc # "failed" =>
    \A n \in 1..Live : \A i \in DOMAIN Outs[Hash(n)] :
      /\ Link(n, i) \in Nat
      /\ Link(n, i) # 0 => Link(n, i) + 1 \in 1..Live
                           /\ <<Hash(n), i>> \in Spent(Hash(Link(n, i) + 1))

(* Every spender is linked, or waits to be.                                *)
SpenderInv ==
  pc # "failed" =>
    \A n, m \in 1..Live : \A i \in DOMAIN Outs[Hash(n)] :
      <<Hash(n), i>> \in Spent(Hash(m)) =>
        \/ Link(n, i) = m - 1
        \/ \E k \in DOMAIN linkData : linkData[k] = [pointer |-> <<n - 1, i>>, txNum |-> m - 1]

StateInv == UndoInv /\ UtxoInv /\ ScriptMapInv /\ SavedInv /\ PendingInv /\ LinkInv /\ SpenderInv

UpdateInv == BlockInv /\ ShapeInv /\ StateInv

-----------------------------------------------------------------------------
(* What the sets the formulas above are about contain.                     *)
LEMMA SetFacts ==
  ASSUME NEW n
  PROVE  /\ \A p : p \in Created(n) <=> \E m \in 1..n : p \in SpendableOuts(Hash(m))
         /\ \A p : p \in Consumed(n) <=> \E m \in 1..n : p \in Spent(Hash(m))
BY DEF Created, Consumed

(* An output is a pair of its transaction and its index.                   *)
LEMMA OutFacts ==
  ASSUME NEW t
  PROVE  /\ \A p \in SpendableOuts(t) : /\ p = <<t, p[2]>> /\ p[1] = t
                                        /\ p[2] \in DOMAIN Outs[t]
                                        /\ IsSpendable(TypeOf(Outs[t][p[2]]))
         /\ \A i \in DOMAIN Outs[t] :
              IsSpendable(TypeOf(Outs[t][i])) => <<t, i>> \in SpendableOuts(t)
BY DEF SpendableOuts

(* The transactions in the file are numbered from 1.                       *)
LEMMA LenFacts ==
  ASSUME BlockInv
  PROVE  Len(txFile) \in Nat /\ DOMAIN txFile = 1..Len(txFile)
BY FileFacts DEF BlockInv

(* The block above k is in the file if the file has more than k blocks.    *)
LEMMA AboveFacts ==
  ASSUME NEW k \in Nat, Len(blockFile) \in Nat, k < Len(blockFile)
  PROVE  k + 1 \in Heights
BY DEF Heights

(* A step that leaves the blocks, and of the transactions all but the      *)
(* links, keeps what the files say of each other.                          *)
LEMMA ShapeKept ==
  ASSUME BlockInv, ShapeInv, blockFile' = blockFile, Len(txFile') = Len(txFile),
         \A n \in 1..Len(txFile) :
           /\ txFile'[n].hash = txFile[n].hash
           /\ "inputs" \in DOMAIN txFile'[n] /\ "outputs" \in DOMAIN txFile'[n]
           /\ txFile'[n].inputs = txFile[n].inputs
           /\ DOMAIN txFile'[n].outputs = DOMAIN txFile[n].outputs
           /\ \A i \in DOMAIN txFile[n].outputs :
                /\ "linkedTxNum" \in DOMAIN txFile'[n].outputs[i]
                /\ "type" \in DOMAIN txFile'[n].outputs[i]
                /\ txFile'[n].outputs[i].type = txFile[n].outputs[i].type
  PROVE  ShapeInv'
<1>1. Len(txFile) \in Nat
  BY LenFacts
<1>2. \A n \in 1..Len(txFile) : Hash(n)' = Hash(n)
  BY DEF Hash
<1>3. CoverInv'
  BY DEF ShapeInv, CoverInv, StartOfBlock, First, Size, Heights
<1>4. UniqueInv'
  BY <1>2 DEF ShapeInv, UniqueInv
<1>5. RecordInv'
  <2> SUFFICES ASSUME NEW n \in 1..Len(txFile)
               PROVE  /\ Hash(n) \in DOMAIN Ins /\ Hash(n) \in DOMAIN Outs
                      /\ "inputs" \in DOMAIN txFile'[n] /\ "outputs" \in DOMAIN txFile'[n]
                      /\ txFile'[n].inputs = [k \in DOMAIN Ins[Hash(n)] |-> txFile'[n].inputs[k]]
                      /\ DOMAIN txFile'[n].outputs = DOMAIN Outs[Hash(n)]
                      /\ \A i \in DOMAIN Outs[Hash(n)] :
                           /\ "linkedTxNum" \in DOMAIN txFile'[n].outputs[i]
                           /\ "type" \in DOMAIN txFile'[n].outputs[i]
                           /\ txFile'[n].outputs[i].type = TypeOf(Outs[Hash(n)][i])
    BY <1>2 DEF RecordInv
  <2>1. txFile'[n].inputs = txFile[n].inputs
    OBVIOUS
  <2>2. txFile[n].inputs = [k \in DOMAIN Ins[Hash(n)] |-> txFile[n].inputs[k]]
    BY DEF ShapeInv, RecordInv
  <2>3. txFile'[n].inputs = [k \in DOMAIN Ins[Hash(n)] |-> txFile'[n].inputs[k]]
    BY <2>1, <2>2, Zenon
  <2> QED
    BY <2>3 DEF ShapeInv, RecordInv
<1>6. InputInv'
  <2> SUFFICES ASSUME NEW n \in 1..Len(txFile), NEW k \in DOMAIN Ins[Hash(n)]
               PROVE  LET p == Ins[Hash(n)][k]
                          m == txFile[n].inputs[k].linkedTxNum
                      IN  m \in Nat /\ m + 1 < n /\ Hash(m + 1)' = p[1] /\ p \in SpendableOuts(p[1])
    BY <1>2 DEF InputInv, SpendableOuts
  <2> DEFINE p == Ins[Hash(n)][k]
             m == txFile[n].inputs[k].linkedTxNum
  <2>1. m \in Nat /\ m + 1 < n /\ Hash(m + 1) = p[1] /\ p \in SpendableOuts(p[1])
    BY DEF ShapeInv, InputInv
  <2>2. m + 1 \in 1..Len(txFile)
    BY <1>1, <2>1
  <2> QED
    BY <1>2, <2>1, <2>2
<1>7. OnceSpentInv'
  <2>1. \A m, n \in 1..Len(txFile) :
          \A p \in Spent(Hash(m)') : p \in Spent(Hash(n)') => m = n
    BY <1>2 DEF ShapeInv, OnceSpentInv
  <2>2. \A n \in 1..Len(txFile) : \A k, l \in DOMAIN Ins[Hash(n)'] :
          Ins[Hash(n)'][k] = Ins[Hash(n)'][l] => k = l
    BY <1>2 DEF ShapeInv, OnceSpentInv
  <2> QED
    BY <2>1, <2>2 DEF OnceSpentInv
<1> QED
  BY <1>3, <1>4, <1>5, <1>6, <1>7 DEF ShapeInv

(* The same transactions spend the same outputs.                           *)
LEMMA InputsSame ==
  ASSUME InputInv, OnceSpentInv, txFile' = txFile
  PROVE  InputInv' /\ OnceSpentInv'
<1>1. ASSUME NEW n \in 1..Len(txFile'), NEW k \in DOMAIN Ins[txFile'[n].hash]
      PROVE  LET p == Ins[txFile'[n].hash][k]
                 m == txFile'[n].inputs[k].linkedTxNum
             IN  m \in Nat /\ m + 1 < n /\ txFile'[m + 1].hash = p[1] /\ p \in SpendableOuts(p[1])
  BY Zenon DEF InputInv, Hash
<1>2. \A m, n \in 1..Len(txFile') :
        \A p \in Spent(txFile'[m].hash) : p \in Spent(txFile'[n].hash) => m = n
  BY Zenon DEF OnceSpentInv, Hash
<1>3. \A n \in 1..Len(txFile') : \A k, l \in DOMAIN Ins[txFile'[n].hash] :
        Ins[txFile'[n].hash][k] = Ins[txFile'[n].hash][l] => k = l
  BY Zenon DEF OnceSpentInv, Hash
<1>4. InputInv'
  BY <1>1, Zenon DEF InputInv, SpendableOuts, Hash
<1>5. OnceSpentInv'
  BY <1>2, <1>3, Zenon DEF OnceSpentInv, Spent, Hash
<1> QED
  BY <1>4, <1>5

(* A step that leaves the blocks and the transactions keeps their shape.   *)
LEMMA ShapeSame ==
  ASSUME BlockInv, ShapeInv, UNCHANGED <<blockFile, txFile>>
  PROVE  ShapeInv'
<1>1. CoverInv' /\ UniqueInv' /\ RecordInv'
  BY DEF ShapeInv, CoverInv, StartOfBlock, First, Size, Heights, UniqueInv, RecordInv, Hash
<1>2. InputInv' /\ OnceSpentInv'
  BY InputsSame DEF ShapeInv
<1> QED
  BY <1>1, <1>2 DEF ShapeInv

(* A step that leaves the live transactions, their links and the maps      *)
(* keeps what the maps and the links say of them.                          *)
LEMMA StateKept ==
  ASSUME pc # "failed", UtxoInv, ScriptMapInv, PendingInv, LinkInv, SpenderInv,
         Live' = Live, UNCHANGED <<utxoState, linkData>>,
         DOMAIN utxoScriptState' = DOMAIN utxoScriptState,
         \A n \in 1..Live : Hash(n)' = Hash(n),
         \A n \in 1..Live : \A i \in DOMAIN Outs[Hash(n)] : Link(n, i)' = Link(n, i),
         pc' \notin {"add", "link"} => linkData = << >>
  PROVE  UtxoInv' /\ ScriptMapInv' /\ PendingInv' /\ LinkInv' /\ SpenderInv'
<1>1. UtxoInv'
  <2>1. Created(Live)' = Created(Live) /\ Consumed(Live)' = Consumed(Live)
    BY DEF Created, Consumed, SpendableOuts, Spent
  <2>2. \A p \in DOMAIN utxoState :
         /\ utxoState[p].txNum \in Nat /\ utxoState[p].txNum + 1 \in 1..Live
         /\ Hash(utxoState[p].txNum + 1) = p[1]
    BY DEF UtxoInv
  <2>3. \A p \in DOMAIN utxoState : Hash(utxoState[p].txNum + 1)' = p[1]
    BY <2>2
  <2> QED
    BY <2>1, <2>2, <2>3 DEF UtxoInv
<1>2. ScriptMapInv'
  BY DEF ScriptMapInv
<1>3. PendingInv'
  <2>1. \A k \in DOMAIN linkData : \E n, m \in 1..Live : \E i \in DOMAIN Outs[Hash(n)'] :
         /\ linkData[k] = [pointer |-> <<n - 1, i>>, txNum |-> m - 1]
         /\ <<Hash(n)', i>> \in Spent(Hash(m)')
    BY DEF PendingInv
  <2>2. linkData \in Seq(Range(linkData))
    BY DEF PendingInv
  <2> QED
    BY <2>1, <2>2 DEF PendingInv
<1>4. LinkInv'
  <2> SUFFICES ASSUME NEW n \in 1..Live', NEW i \in DOMAIN Outs[txFile'[n].hash]
               PROVE  LET l == txFile'[n].outputs[i].linkedTxNum
                      IN  /\ l \in Nat
                          /\ l # 0 => l + 1 \in 1..Live'
                               /\ <<txFile'[n].hash, i>> \in Spent(txFile'[l + 1].hash)
    BY Zenon DEF LinkInv, Link, Hash, Spent
  <2> DEFINE l == Link(n, i)
  <2>1. n \in 1..Live /\ txFile'[n].hash = Hash(n) /\ txFile'[n].outputs[i].linkedTxNum = l
    BY DEF Hash, Link
  <2>2. l \in Nat /\ (l # 0 => l + 1 \in 1..Live /\ <<Hash(n), i>> \in Spent(Hash(l + 1)))
    BY <2>1 DEF LinkInv
  <2>3. l # 0 => txFile'[l + 1].hash = Hash(l + 1)
    BY <2>2 DEF Hash
  <2> HIDE DEF l
  <2> QED
    BY <2>1, <2>2, <2>3
<1>5. SpenderInv'
  <2> SUFFICES ASSUME NEW n \in 1..Live, NEW m \in 1..Live, NEW i \in DOMAIN Outs[Hash(n)],
                      <<Hash(n), i>> \in Spent(Hash(m))
               PROVE  \/ Link(n, i) = m - 1
                      \/ \E k \in DOMAIN linkData :
                           linkData[k] = [pointer |-> <<n - 1, i>>, txNum |-> m - 1]
    BY DEF SpenderInv, Spent
  <2> QED
    BY DEF SpenderInv
<1> QED
  BY <1>1, <1>2, <1>3, <1>4, <1>5

-----------------------------------------------------------------------------
(* The steps that leave the transactions and the maps.                     *)
LEMMA DiscoverKeeps ==
  ASSUME UpdateInv, Discover
  PROVE  ShapeInv' /\ StateInv'
<1>1. UNCHANGED <<pc, next, undo, blockFile, txFile, linkData, utxoState, utxoScriptState, saved>>
  BY DEF Discover, control, chainFiles, maps
<1>2. ShapeInv'
  BY <1>1, ShapeSame DEF UpdateInv
<1>3. UndoInv' /\ SavedInv' /\ Live' = Live
  BY <1>1 DEF UpdateInv, StateInv, UndoInv, SavedInv, FirstDeletedTx, Live
<1>4. UtxoInv' /\ ScriptMapInv' /\ PendingInv' /\ LinkInv' /\ SpenderInv'
  <2>1. CASE pc = "failed"
    BY <1>1, <2>1 DEF UtxoInv, ScriptMapInv, PendingInv, LinkInv, SpenderInv
  <2>2. CASE pc # "failed"
    <3>1. pc' \notin {"add", "link"} => linkData = << >>
      BY <1>1, <2>2 DEF UpdateInv, StateInv, PendingInv
    <3>2. \A n : Hash(n)' = Hash(n) /\ \A i : Link(n, i)' = Link(n, i)
      BY <1>1 DEF Hash, Link
    <3> QED
      BY <1>1, <1>3, <2>2, <3>1, <3>2, StateKept DEF UpdateInv, StateInv
  <2> QED
    BY <2>1, <2>2
<1> QED
  BY <1>2, <1>3, <1>4 DEF StateInv

(* An exception leaves the files; nothing is claimed of the maps after it. *)
LEMMA ThrowKeeps ==
  ASSUME UpdateInv, Throw, saved' = saved
  PROVE  ShapeInv' /\ StateInv'
<1>1. pc' = "failed" /\ UNCHANGED <<blockFile, txFile>>
  BY DEF Throw, chainFiles
<1>2. ShapeInv'
  BY <1>1, ShapeSame DEF UpdateInv
<1> QED
  BY <1>1, <1>2 DEF UpdateInv, StateInv, UndoInv, UtxoInv, ScriptMapInv, SavedInv,
                    PendingInv, LinkInv, SpenderInv

(* An update starts with the maps on disk, which are those in memory.      *)
LEMMA StartKeeps ==
  ASSUME ShallowForks, UpdateInv, Start
  PROVE  ShapeInv' /\ StateInv'
<1>1. /\ pc = "idle" /\ UNCHANGED <<blockFile, txFile, linkData, saved>>
      /\ undo' = Len(txFile)
      /\ utxoState' = saved.utxoState /\ utxoScriptState' = saved.utxoScriptState
      /\ pc' = IF Len(blockFile) > next' THEN "undo" ELSE AfterRollback'
  BY DEF Start, chainFiles
<1>2. pc' \in {"undo", "idle", "add"}
  BY <1>1 DEF AfterRollback
<1>3. utxoState' = utxoState /\ utxoScriptState' = utxoScriptState /\ SavedInv'
  BY <1>1 DEF UpdateInv, StateInv, SavedInv
<1>4. ShapeInv'
  BY <1>1, ShapeSame DEF UpdateInv
<1>5. BlockInv'
  BY StartStep DEF UpdateInv
<1>6. Live' = Live
  BY <1>1 DEF Live
<1>7. UndoInv'
  <2> SUFFICES ASSUME pc' = "undo"
               PROVE  /\ Len(txFile) \in Nat
                      /\ blockFile[next' + 1].firstTxIndex <= Len(txFile)
    BY <1>1, <1>2 DEF UndoInv, FirstDeletedTx
  <2>1. next' \in Nat /\ next' < Len(blockFile) /\ Len(blockFile) \in Nat
    <3>1. next' \in Nat
      BY <1>5 DEF BlockInv, FileInv
    <3>2. Len(blockFile) \in Nat
      BY FileFacts DEF UpdateInv, BlockInv
    <3>3. Len(blockFile) > next'
      BY <1>1 DEF AfterRollback
    <3> QED
      BY <3>1, <3>2, <3>3
  <2>2. next' + 1 \in Heights
    BY <2>1, AboveFacts
  <2>3. First(next' + 1) \in Nat /\ Size(next' + 1) \in Nat /\ Len(txFile) \in Nat
    BY <2>2, FileFacts DEF UpdateInv, BlockInv
  <2>4. First(next' + 1) + Size(next' + 1) <= Len(txFile)
    BY <2>2 DEF UpdateInv, BlockInv, ContentInv
  <2> QED
    BY <2>3, <2>4 DEF First
<1>8. UtxoInv' /\ ScriptMapInv' /\ PendingInv' /\ LinkInv' /\ SpenderInv'
  <2>1. pc # "failed" /\ linkData = << >>
    BY <1>1 DEF UpdateInv, StateInv, PendingInv
  <2>2. \A n : Hash(n)' = Hash(n) /\ \A i : Link(n, i)' = Link(n, i)
    BY <1>1 DEF Hash, Link
  <2> QED
    BY <1>1, <1>3, <1>6, <2>1, <2>2, StateKept DEF UpdateInv, StateInv
<1> QED
  BY <1>3, <1>4, <1>7, <1>8 DEF StateInv

(* The maps are written to disk ...                                        *)
LEMMA SaveUndoneKeeps ==
  ASSUME UpdateInv, SaveUndone
  PROVE  ShapeInv' /\ StateInv'
<1>1. /\ pc = "undo" /\ pc' = "truncate" /\ undo = FirstDeletedTx
      /\ UNCHANGED <<next, undo, blockFile, txFile, linkData, utxoState, utxoScriptState>>
  BY DEF SaveUndone, control, chainFiles, maps
<1>2. ShapeInv'
  BY <1>1, ShapeSame DEF UpdateInv
<1>3. UndoInv' /\ Live' = Live
  BY <1>1 DEF UpdateInv, StateInv, UndoInv, FirstDeletedTx, Live
<1>4. SavedInv'
  BY <1>1 DEF SaveUndone, SaveMaps, SavedInv
<1>5. UtxoInv' /\ ScriptMapInv' /\ PendingInv' /\ LinkInv' /\ SpenderInv'
  <2>1. pc # "failed" /\ linkData = << >>
    BY <1>1 DEF UpdateInv, StateInv, PendingInv
  <2>2. \A n : Hash(n)' = Hash(n) /\ \A i : Link(n, i)' = Link(n, i)
    BY <1>1 DEF Hash, Link
  <2> QED
    BY <1>1, <1>3, <2>1, <2>2, StateKept DEF UpdateInv, StateInv
<1> QED
  BY <1>2, <1>3, <1>4, <1>5 DEF StateInv

(* ... also at the end of an update.                                       *)
LEMMA SaveKeeps ==
  ASSUME UpdateInv, Save
  PROVE  ShapeInv' /\ StateInv'
<1>1. /\ pc = "save" /\ pc' = "idle"
      /\ UNCHANGED <<next, undo, blockFile, txFile, linkData, utxoState, utxoScriptState>>
  BY DEF Save, control, chainFiles, maps
<1>2. ShapeInv'
  BY <1>1, ShapeSame DEF UpdateInv
<1>3. UndoInv' /\ Live' = Live
  BY <1>1 DEF UndoInv, Live
<1>4. SavedInv'
  BY <1>1 DEF Save, SaveMaps, SavedInv
<1>5. UtxoInv' /\ ScriptMapInv' /\ PendingInv' /\ LinkInv' /\ SpenderInv'
  <2>1. pc # "failed" /\ linkData = << >>
    BY <1>1 DEF UpdateInv, StateInv, PendingInv
  <2>2. \A n : Hash(n)' = Hash(n) /\ \A i : Link(n, i)' = Link(n, i)
    BY <1>1 DEF Hash, Link
  <2> QED
    BY <1>1, <1>3, <2>1, <2>2, StateKept DEF UpdateInv, StateInv
<1> QED
  BY <1>2, <1>3, <1>4, <1>5 DEF StateInv

(* Only the script counts on disk change with the addresses.               *)
LEMMA RollbackAddressesKeeps ==
  ASSUME UpdateInv, RollbackAddresses
  PROVE  ShapeInv' /\ StateInv'
<1>1. /\ pc = "addresses" /\ pc' \in {"idle", "add"}
      /\ saved' = [saved EXCEPT !.scriptIndexes = scriptCounts]
      /\ UNCHANGED <<next, undo, blockFile, txFile, linkData, utxoState, utxoScriptState>>
  BY DEF RollbackAddresses, AfterRollback, control, chainFiles, maps
<1>2. ShapeInv'
  BY <1>1, ShapeSame DEF UpdateInv
<1>3. UndoInv' /\ Live' = Live
  BY <1>1 DEF UndoInv, Live
<1>4. SavedInv'
  BY <1>1 DEF UpdateInv, StateInv, SavedInv
<1>5. UtxoInv' /\ ScriptMapInv' /\ PendingInv' /\ LinkInv' /\ SpenderInv'
  <2>1. pc # "failed" /\ linkData = << >>
    BY <1>1 DEF UpdateInv, StateInv, PendingInv
  <2>2. \A n : Hash(n)' = Hash(n) /\ \A i : Link(n, i)' = Link(n, i)
    BY <1>1 DEF Hash, Link
  <2> QED
    BY <1>1, <1>3, <2>1, <2>2, StateKept DEF UpdateInv, StateInv
<1> QED
  BY <1>2, <1>3, <1>4, <1>5 DEF StateInv

(* The record of a block covers the transactions that were above the last. *)
LEMMA EndBlockKeeps ==
  ASSUME UpdateInv, EndBlock
  PROVE  ShapeInv' /\ StateInv'
<1> DEFINE block == chainBlocks[next + 1]
           r     == [hash |-> block, firstTxIndex |-> StartOfBlock]
<1>1. /\ pc = "add" /\ pc' \in {"add", "link"}
      /\ blockFile' = Append(blockFile, r)
      /\ UNCHANGED <<txFile, linkData, utxoState, utxoScriptState, saved>>
  BY DEF EndBlock, maps
<1>2. /\ next \in Nat /\ Len(blockFile) = next /\ next < Len(chainBlocks)
      /\ Len(chainBlocks) \in Nat
      /\ Len(txFile) \in Nat /\ StartOfBlock \in Nat
      /\ Len(txFile) - StartOfBlock <= Len(Txs[block])
  BY <1>1, FileFacts DEF UpdateInv, BlockInv, FileInv, PhaseInv
<1>3. block \in Block /\ Len(Txs[block]) \in Nat
  <2>1. next + 1 \in 1..Len(chainBlocks)
    BY <1>2
  <2> QED
    BY <2>1, FileFacts DEF UpdateInv, BlockInv
<1>4. r \in BlockRecord /\ r.hash = block /\ r.firstTxIndex = StartOfBlock
  BY <1>2, <1>3 DEF BlockRecord
<1> HIDE DEF r
<1>5. /\ Len(blockFile') = next + 1
      /\ \A h \in 1..next : blockFile'[h] = blockFile[h]
      /\ blockFile'[next + 1] = r
  <2>1. blockFile \in Seq(BlockRecord)
    BY DEF UpdateInv, BlockInv, FileInv
  <2> QED
    BY <1>1, <1>2, <1>4, <2>1, AppendProperties
<1>6. /\ Heights = 1..next /\ Heights' = 1..(next + 1)
      /\ \A h \in 1..next : First(h)' = First(h) /\ Size(h)' = Size(h)
  BY <1>2, <1>5 DEF Heights, First, Size
<1>7. /\ blockFile'[next + 1].firstTxIndex = StartOfBlock
      /\ Len(Txs[blockFile'[next + 1].hash]) = Len(Txs[block])
  BY <1>4, <1>5
<1> HIDE DEF block
<1>8. CoverInv'
  <2> SUFFICES ASSUME NEW n \in 1..Len(txFile)
               PROVE  \E h \in Heights' : First(h)' < n /\ n <= First(h)' + Size(h)'
    BY <1>1 DEF CoverInv
  <2>1. CASE n > StartOfBlock
    <3>1. next + 1 \in 1..(next + 1)
      BY <1>2
    <3>2. /\ blockFile'[next + 1].firstTxIndex < n
          /\ n <= blockFile'[next + 1].firstTxIndex + Len(Txs[blockFile'[next + 1].hash])
      BY <1>2, <1>3, <1>7, <2>1
    <3> QED
      BY <1>6, <3>1, <3>2 DEF First, Size
  <2>2. CASE \E h \in Heights : First(h) < n /\ n <= First(h) + Size(h)
    <3>1. PICK h \in 1..next : First(h) < n /\ n <= First(h) + Size(h)
      BY <1>6, <2>2
    <3>2. h \in Heights' /\ First(h)' < n /\ n <= First(h)' + Size(h)'
      BY <1>2, <1>6, <3>1
    <3> QED
      BY <3>2
  <2> QED
    BY <2>1, <2>2 DEF UpdateInv, ShapeInv, CoverInv
<1>9. UniqueInv' /\ RecordInv'
  <2>1. UniqueInv /\ RecordInv /\ txFile' = txFile
    BY <1>1 DEF UpdateInv, ShapeInv
  <2>2. UniqueInv'
    BY <2>1 DEF UniqueInv, Hash
  <2>3. RecordInv'
    BY <2>1, Zenon DEF RecordInv, Hash, TypeOf
  <2> QED
    BY <2>2, <2>3
<1>10. InputInv' /\ OnceSpentInv'
  BY <1>1, InputsSame DEF UpdateInv, ShapeInv
<1>11. UndoInv' /\ SavedInv' /\ Live' = Live
  BY <1>1 DEF UpdateInv, StateInv, UndoInv, SavedInv, Live
<1>12. UtxoInv' /\ ScriptMapInv' /\ PendingInv' /\ LinkInv' /\ SpenderInv'
  <2>1. pc # "failed" /\ pc' \in {"add", "link"}
    BY <1>1
  <2>2. \A n : Hash(n)' = Hash(n) /\ \A i : Link(n, i)' = Link(n, i)
    BY <1>1 DEF Hash, Link
  <2> QED
    BY <1>1, <1>11, <2>1, <2>2, StateKept DEF UpdateInv, StateInv
<1> QED
  BY <1>8, <1>9, <1>10, <1>11, <1>12 DEF ShapeInv, StateInv

(* The files are cut where the maps already are.                           *)
LEMMA TruncateKeeps ==
  ASSUME UpdateInv, Truncate
  PROVE  ShapeInv' /\ StateInv'
<1> DEFINE cut == FirstDeletedTx
<1>1. /\ pc = "truncate" /\ pc' = "addresses"
      /\ txFile' = SubSeq(txFile, 1, cut) /\ blockFile' = SubSeq(blockFile, 1, next)
      /\ UNCHANGED <<linkData, utxoState, utxoScriptState, saved>>
  BY DEF Truncate, maps
<1>2. /\ undo = cut /\ cut \in Nat /\ cut <= Len(txFile) /\ Len(txFile) \in Nat
  BY <1>1, LenFacts DEF UpdateInv, StateInv, UndoInv
<1>3. /\ next \in Nat /\ next < Len(blockFile) /\ Len(blockFile) \in Nat
      /\ Len(txFile) = StartOfBlock
  BY <1>1, FileFacts DEF UpdateInv, BlockInv, PhaseInv, FileInv
<1>4. /\ Len(blockFile') = next
      /\ \A h \in 1..next : blockFile'[h] = blockFile[h]
  BY <1>1, <1>3, CutSeq DEF UpdateInv, BlockInv, FileInv
<1>5. /\ Len(txFile') = cut /\ \A n \in 1..cut : txFile'[n] = txFile[n]
  <2> HIDE DEF cut
  <2>1. txFile \in Seq(Range(txFile))
    BY DEF UpdateInv, BlockInv, FileInv
  <2> QED
    BY <1>1, <1>2, <2>1, CutSeq
<1>6. next + 1 \in Heights /\ First(next + 1) = cut
  BY <1>3, AboveFacts DEF First, FirstDeletedTx
<1> HIDE DEF cut
<1>7. \A n \in 1..cut : n \in 1..Len(txFile) /\ Hash(n)' = Hash(n)
  BY <1>2, <1>5 DEF Hash
<1>8. CoverInv'
  <2> SUFFICES ASSUME NEW n \in 1..cut
               PROVE  \E h \in Heights' : First(h)' < n /\ n <= First(h)' + Size(h)'
    BY <1>5 DEF CoverInv
  <2>1. PICK h \in Heights : First(h) < n /\ n <= First(h) + Size(h)
    <3>1. n \in 1..Len(txFile) /\ ~(n > StartOfBlock)
      BY <1>2, <1>3
    <3> QED
      BY <3>1 DEF UpdateInv, ShapeInv, CoverInv
  <2>2. h \in 1..next
    <3>1. h \in Nat /\ h >= 1 /\ h <= Len(blockFile)
      BY <1>3 DEF Heights
    <3>2. h > next + 1 => First(next + 1) + Size(next + 1) <= First(h)
      BY <1>6 DEF UpdateInv, BlockInv, TileInv
    <3>3. First(next + 1) \in Nat /\ Size(next + 1) \in Nat /\ First(h) \in Nat
      BY <1>6, FileFacts DEF UpdateInv, BlockInv
    <3>4. h # next + 1
      BY <1>2, <1>6, <2>1, <3>3
    <3>5. ~(h > next + 1)
      BY <1>2, <1>6, <2>1, <3>2, <3>3
    <3> QED
      BY <1>3, <3>1, <3>4, <3>5
  <2>3. h \in Heights' /\ First(h)' = First(h) /\ Size(h)' = Size(h)
    BY <1>4, <2>2 DEF Heights, First, Size
  <2> QED
    BY <2>1, <2>3
<1>9. UniqueInv'
  BY <1>5, <1>7 DEF UpdateInv, ShapeInv, UniqueInv
<1>10. RecordInv'
  <2> SUFFICES ASSUME NEW n \in 1..cut
               PROVE  /\ Hash(n) \in DOMAIN Ins /\ Hash(n) \in DOMAIN Outs
                      /\ "inputs" \in DOMAIN txFile[n] /\ "outputs" \in DOMAIN txFile[n]
                      /\ txFile[n].inputs = [k \in DOMAIN Ins[Hash(n)] |-> txFile[n].inputs[k]]
                      /\ DOMAIN txFile[n].outputs = DOMAIN Outs[Hash(n)]
                      /\ \A i \in DOMAIN Outs[Hash(n)] :
                           /\ "linkedTxNum" \in DOMAIN txFile[n].outputs[i]
                           /\ "type" \in DOMAIN txFile[n].outputs[i]
                           /\ txFile[n].outputs[i].type = TypeOf(Outs[Hash(n)][i])
    BY <1>5, <1>7 DEF RecordInv
  <2> QED
    BY <1>7 DEF UpdateInv, ShapeInv, RecordInv
<1>11. InputInv'
  <2> SUFFICES ASSUME NEW n \in 1..cut, NEW k \in DOMAIN Ins[Hash(n)]
               PROVE  LET p == Ins[Hash(n)][k]
                          m == txFile[n].inputs[k].linkedTxNum
                      IN  /\ m \in Nat /\ m + 1 < n
                          /\ txFile'[m + 1].hash = p[1] /\ p \in SpendableOuts(p[1])
    <3> SUFFICES ASSUME NEW n \in 1..Len(txFile'), NEW k \in DOMAIN Ins[txFile'[n].hash]
                 PROVE  LET p == Ins[txFile'[n].hash][k]
                            m == txFile'[n].inputs[k].linkedTxNum
                        IN  m \in Nat /\ m + 1 < n /\ txFile'[m + 1].hash = p[1] /\ p \in SpendableOuts(p[1])
      BY Zenon DEF InputInv, SpendableOuts, Hash
    <3>1. n \in 1..cut /\ txFile'[n] = txFile[n] /\ txFile'[n].hash = Hash(n)
      BY <1>5, <1>7 DEF Hash
    <3> QED
      BY <3>1, Zenon
  <2> DEFINE p == Ins[Hash(n)][k]
             m == txFile[n].inputs[k].linkedTxNum
  <2>1. m \in Nat /\ m + 1 < n /\ Hash(m + 1) = p[1] /\ p \in SpendableOuts(p[1])
    BY <1>7 DEF UpdateInv, ShapeInv, InputInv
  <2>2. m + 1 \in 1..cut
    BY <1>2, <2>1
  <2> QED
    BY <1>5, <2>1, <2>2 DEF Hash
<1>12. OnceSpentInv'
  <2>1. \A m, n \in 1..cut :
          \A p \in Spent(Hash(m)') : p \in Spent(Hash(n)') => m = n
    BY <1>7 DEF UpdateInv, ShapeInv, OnceSpentInv
  <2>2. \A n \in 1..cut : \A k, l \in DOMAIN Ins[Hash(n)'] :
          Ins[Hash(n)'][k] = Ins[Hash(n)'][l] => k = l
    BY <1>7 DEF UpdateInv, ShapeInv, OnceSpentInv
  <2> QED
    BY <1>5, <2>1, <2>2 DEF OnceSpentInv
<1>13. UndoInv' /\ SavedInv'
  BY <1>1 DEF UpdateInv, StateInv, UndoInv, SavedInv
<1>14. Live = cut /\ Live' = cut
  BY <1>1, <1>2, <1>5 DEF Live
<1>15. UtxoInv' /\ ScriptMapInv' /\ PendingInv' /\ LinkInv' /\ SpenderInv'
  <2>1. pc # "failed" /\ linkData = << >>
    BY <1>1 DEF UpdateInv, StateInv, PendingInv
  <2>2. \A n \in 1..cut : \A i : Link(n, i)' = Link(n, i)
    BY <1>5 DEF Link
  <2> QED
    BY <1>1, <1>7, <1>14, <2>1, <2>2, StateKept DEF UpdateInv, StateInv
<1> QED
  BY <1>8, <1>9, <1>10, <1>11, <1>12, <1>13, <1>15 DEF ShapeInv, StateInv

-----------------------------------------------------------------------------
(* The link of an output after linkData has been applied to it.            *)
LEMMA LinkedFacts ==
  ASSUME NEW q
  PROVE  \/ /\ \A k \in DOMAIN linkData : linkData[k].pointer # q
            /\ Linked(q) = Output(q).linkedTxNum
         \/ \E k \in DOMAIN linkData : /\ linkData[k].pointer = q
                                       /\ Linked(q) = linkData[k].txNum
BY DEF Linked

(* Back-linking applies the links that wait, and there is one per output.  *)
LEMMA BackUpdateTxesKeeps ==
  ASSUME UpdateInv, BackUpdateTxes
  PROVE  ShapeInv' /\ StateInv'
<1>1. /\ pc = "link" /\ pc' \in {"add", "save"} /\ linkData' = << >>
      /\ UNCHANGED <<next, undo, blockFile, utxoState, utxoScriptState, saved>>
  BY DEF BackUpdateTxes, maps
<1>2. txFile' = [m \in DOMAIN txFile |->
                  [txFile[m] EXCEPT !.outputs =
                     [j \in DOMAIN @ |-> [@[j] EXCEPT !.linkedTxNum = Linked(<<m - 1, j>>)]]]]
  BY DEF BackUpdateTxes
<1>3. Len(txFile) \in Nat /\ DOMAIN txFile = 1..Len(txFile)
  BY LenFacts DEF UpdateInv
<1>4. Len(txFile') = Len(txFile)
  <2>1. txFile' = [i \in DOMAIN txFile' |-> txFile'[i]] /\ DOMAIN txFile' = DOMAIN txFile
    BY <1>2
  <2> QED
    BY <2>1, KeptSeq DEF UpdateInv, BlockInv, FileInv
<1>5. ASSUME NEW n \in 1..Len(txFile)
      PROVE  /\ txFile'[n].hash = txFile[n].hash
             /\ "inputs" \in DOMAIN txFile'[n] /\ "outputs" \in DOMAIN txFile'[n]
             /\ txFile'[n].inputs = txFile[n].inputs
             /\ DOMAIN txFile'[n].outputs = DOMAIN txFile[n].outputs
             /\ \A i \in DOMAIN txFile[n].outputs :
                  /\ "linkedTxNum" \in DOMAIN txFile'[n].outputs[i]
                  /\ "type" \in DOMAIN txFile'[n].outputs[i]
                  /\ txFile'[n].outputs[i].type = txFile[n].outputs[i].type
                  /\ txFile'[n].outputs[i].linkedTxNum = Linked(<<n - 1, i>>)
  <2> DEFINE o == txFile[n].outputs
             upd(m) == [txFile[m] EXCEPT !.outputs =
                   [j \in DOMAIN @ |-> [@[j] EXCEPT !.linkedTxNum = Linked(<<m - 1, j>>)]]]
  <2>1. txFile'[n] = upd(n)
    <3>1. n \in DOMAIN txFile
      BY <1>3
    <3>2. txFile' = [m \in DOMAIN txFile |-> upd(m)]
      BY <1>2, Zenon
    <3> HIDE DEF upd
    <3> QED
      BY <3>1, <3>2
  <2>2. /\ "hash" \in DOMAIN txFile[n] /\ "inputs" \in DOMAIN txFile[n]
        /\ "outputs" \in DOMAIN txFile[n]
        /\ \A i \in DOMAIN o : "linkedTxNum" \in DOMAIN o[i] /\ "type" \in DOMAIN o[i]
    BY <1>3 DEF UpdateInv, BlockInv, FileInv, ShapeInv, RecordInv
  <2>3. /\ upd(n).hash = txFile[n].hash
        /\ "inputs" \in DOMAIN upd(n) /\ "outputs" \in DOMAIN upd(n)
        /\ upd(n).inputs = txFile[n].inputs
        /\ DOMAIN upd(n).outputs = DOMAIN o
    BY <2>2
  <2>4. \A i \in DOMAIN o : /\ "linkedTxNum" \in DOMAIN upd(n).outputs[i]
                            /\ "type" \in DOMAIN upd(n).outputs[i]
                            /\ upd(n).outputs[i].type = o[i].type
                            /\ upd(n).outputs[i].linkedTxNum = Linked(<<n - 1, i>>)
    BY <2>2
  <2> HIDE DEF upd
  <2> QED
    BY <2>1, <2>3, <2>4 DEF Link
<1>6. ShapeInv'
  BY <1>1, <1>4, <1>5, ShapeKept DEF UpdateInv
<1>7. Live = Len(txFile) /\ Live' = Len(txFile)
  BY <1>1, <1>4 DEF Live
<1>8. UndoInv' /\ SavedInv' /\ PendingInv'
  BY <1>1, EmptySeq DEF UpdateInv, StateInv, UndoInv, SavedInv, PendingInv
<1>9. \A n \in 1..Len(txFile) : Hash(n)' = Hash(n)
  BY <1>5 DEF Hash
<1>10. UtxoInv'
  <2>1. Created(Live)' = Created(Live) /\ Consumed(Live)' = Consumed(Live)
    BY <1>7, <1>9 DEF Created, Consumed, SpendableOuts, Spent
  <2>2. \A p \in DOMAIN utxoState :
         /\ utxoState[p].txNum \in Nat /\ utxoState[p].txNum + 1 \in 1..Live
         /\ Hash(utxoState[p].txNum + 1) = p[1]
    BY <1>1 DEF UpdateInv, StateInv, UtxoInv
  <2>3. \A p \in DOMAIN utxoState : Hash(utxoState[p].txNum + 1)' = p[1]
    BY <1>1, <1>7, <1>9, <2>2
  <2> QED
    BY <1>1, <1>7, <2>1, <2>2, <2>3 DEF UpdateInv, StateInv, UtxoInv
<1>11. ScriptMapInv'
  BY <1>1 DEF UpdateInv, StateInv, ScriptMapInv
<1>12. ASSUME NEW n \in 1..Live, NEW i \in DOMAIN Outs[Hash(n)]
       PROVE  \/ /\ \A k \in DOMAIN linkData : linkData[k].pointer # <<n - 1, i>>
                 /\ Link(n, i)' = Link(n, i)
              \/ \E m \in 1..Live : Link(n, i)' = m - 1 /\ <<Hash(n), i>> \in Spent(Hash(m))
  <2>1. n \in 1..Len(txFile) /\ i \in DOMAIN txFile[n].outputs
    BY <1>7 DEF UpdateInv, ShapeInv, RecordInv
  <2>2. Link(n, i)' = Linked(<<n - 1, i>>)
    BY <1>5, <2>1 DEF Link
  <2>3. CASE \E k \in DOMAIN linkData : /\ linkData[k].pointer = <<n - 1, i>>
                                        /\ Linked(<<n - 1, i>>) = linkData[k].txNum
    <3>1. PICK k \in DOMAIN linkData : /\ linkData[k].pointer = <<n - 1, i>>
                                       /\ Link(n, i)' = linkData[k].txNum
      BY <2>2, <2>3
    <3>2. PICK n2, m \in 1..Live : \E i2 \in DOMAIN Outs[Hash(n2)] :
            /\ linkData[k] = [pointer |-> <<n2 - 1, i2>>, txNum |-> m - 1]
            /\ <<Hash(n2), i2>> \in Spent(Hash(m))
      BY <1>1 DEF UpdateInv, StateInv, PendingInv
    <3>3. PICK i2 \in DOMAIN Outs[Hash(n2)] :
            /\ linkData[k] = [pointer |-> <<n2 - 1, i2>>, txNum |-> m - 1]
            /\ <<Hash(n2), i2>> \in Spent(Hash(m))
      BY <3>2
    <3>4. linkData[k].pointer = <<n2 - 1, i2>> /\ linkData[k].txNum = m - 1
      BY <3>3
    <3>5. n2 - 1 = n - 1 /\ i2 = i
      BY <3>1, <3>4
    <3>6. n2 = n
      BY <1>3, <1>7, <3>5
    <3> QED
      BY <3>1, <3>3, <3>4, <3>5, <3>6
  <2>4. Output(<<n - 1, i>>).linkedTxNum = Link(n, i)
    <3>1. (n - 1) + 1 = n
      BY <1>3, <1>7
    <3> QED
      BY <3>1 DEF Output, Link
  <2> QED
    BY <2>2, <2>3, <2>4, LinkedFacts
<1>13. LinkInv'
  <2>1. \A m \in 1..Live : txFile'[m].hash = Hash(m)
    BY <1>7, <1>9 DEF Hash
  <2>2. ASSUME NEW n \in 1..Live, NEW i \in DOMAIN Outs[Hash(n)], NEW v, v = Link(n, i)'
        PROVE  /\ v \in Nat
               /\ v # 0 => v + 1 \in 1..Live /\ <<Hash(n), i>> \in Spent(txFile'[v + 1].hash)
    <3>1. CASE v = Link(n, i)
      BY <1>1, <2>1, <3>1 DEF UpdateInv, StateInv, LinkInv
    <3>2. CASE \E m \in 1..Live : v = m - 1 /\ <<Hash(n), i>> \in Spent(Hash(m))
      <4>1. PICK m \in 1..Live : v = m - 1 /\ <<Hash(n), i>> \in Spent(Hash(m))
        BY <3>2
      <4>2. v \in Nat /\ v + 1 = m
        BY <1>3, <1>7, <4>1
      <4> QED
        BY <2>1, <4>1, <4>2
    <3> QED
      BY <1>12, <2>2, <3>1, <3>2
  <2> QED
    BY <1>7, <1>9, <2>2 DEF LinkInv, Hash, Link
<1>14. SpenderInv'
  <2> SUFFICES ASSUME NEW n \in 1..Live, NEW m \in 1..Live, NEW i \in DOMAIN Outs[Hash(n)],
                      <<Hash(n), i>> \in Spent(Hash(m))
               PROVE  Link(n, i)' = m - 1
    BY <1>7, <1>9 DEF SpenderInv, Spent
  <2>1. CASE /\ \A k \in DOMAIN linkData : linkData[k].pointer # <<n - 1, i>>
             /\ Link(n, i)' = Link(n, i)
    <3>1. \/ Link(n, i) = m - 1
          \/ \E k \in DOMAIN linkData : linkData[k] = [pointer |-> <<n - 1, i>>, txNum |-> m - 1]
      BY <1>1 DEF UpdateInv, StateInv, SpenderInv
    <3> QED
      BY <2>1, <3>1
  <2>2. CASE \E l \in 1..Live : Link(n, i)' = l - 1 /\ <<Hash(n), i>> \in Spent(Hash(l))
    BY <1>7, <2>2 DEF UpdateInv, ShapeInv, OnceSpentInv
  <2> QED
    BY <1>12, <2>1, <2>2
<1> QED
  BY <1>6, <1>8, <1>10, <1>11, <1>13, <1>14 DEF StateInv

-----------------------------------------------------------------------------
(* While transactions are undone the links of those before are complete,   *)
(* so that an input's output is found by the number of its spender, and    *)
(* nothing else is.                                                        *)
LEMMA UnspentFacts ==
  ASSUME UpdateInv, pc = "undo", undo > FirstDeletedTx
  PROVE  /\ undo \in 1..Len(txFile) /\ Live = undo
         /\ \A q \in Unspent : \E n \in 1..(undo - 1) : \E i \in DOMAIN Outs[Hash(n)] :
              q = <<n - 1, i>> /\ <<Hash(n), i>> \in Spent(Hash(undo))
         /\ \A k \in DOMAIN Ins[Hash(undo)] :
              /\ <<txFile[undo].inputs[k].linkedTxNum, Ins[Hash(undo)][k][2]>> \in Unspent
              /\ txFile[undo].inputs[k].linkedTxNum + 1 \in 1..(undo - 1)
              /\ Ins[Hash(undo)][k] = <<Hash(txFile[undo].inputs[k].linkedTxNum + 1),
                                        Ins[Hash(undo)][k][2]>>
              /\ Ins[Hash(undo)][k] \in
                   SpendableOuts(Hash(txFile[undo].inputs[k].linkedTxNum + 1))
         /\ \A n \in 1..(undo - 1) : \A i \in DOMAIN Outs[Hash(n)] :
              <<Hash(n), i>> \in Spent(Hash(undo)) => <<n - 1, i>> \in Unspent
<1>1. /\ undo \in Nat /\ FirstDeletedTx <= undo /\ undo <= Len(txFile) /\ Len(txFile) \in Nat
  BY LenFacts DEF UpdateInv, StateInv, UndoInv
<1>2. FirstDeletedTx \in Nat
  <2>1. next \in Nat /\ next < Len(blockFile) /\ Len(blockFile) \in Nat
    BY FileFacts DEF UpdateInv, BlockInv, PhaseInv, FileInv
  <2>2. next + 1 \in Heights
    BY <2>1, AboveFacts
  <2> QED
    BY <2>2, FileFacts DEF UpdateInv, BlockInv, First, FirstDeletedTx
<1>3. undo \in 1..Len(txFile) /\ Live = undo
  BY <1>1, <1>2 DEF Live
<1> DEFINE m(k) == txFile[undo].inputs[k].linkedTxNum
<1>4. /\ Undone = txFile[undo] /\ UndoneNum = undo - 1 /\ linkData = << >>
      /\ DOMAIN Undone.inputs = DOMAIN Ins[Hash(undo)]
  <2>1. Undone.inputs = [k \in DOMAIN Ins[Hash(undo)] |-> Undone.inputs[k]]
    BY <1>3 DEF UpdateInv, ShapeInv, RecordInv, Undone
  <2>2. DOMAIN Undone.inputs = DOMAIN Ins[Hash(undo)]
    BY <2>1, Zenon
  <2> QED
    BY <2>2 DEF UpdateInv, StateInv, PendingInv, Undone, UndoneNum
<1>5. ASSUME NEW k \in DOMAIN Ins[Hash(undo)]
      PROVE  /\ m(k) \in Nat /\ m(k) + 1 \in 1..(undo - 1)
             /\ Ins[Hash(undo)][k] = <<Hash(m(k) + 1), Ins[Hash(undo)][k][2]>>
             /\ Ins[Hash(undo)][k] \in SpendableOuts(Hash(m(k) + 1))
             /\ Ins[Hash(undo)][k][2] \in DOMAIN Outs[Hash(m(k) + 1)]
             /\ Ins[Hash(undo)][k] \in Spent(Hash(undo))
  <2>1. /\ m(k) \in Nat /\ m(k) + 1 < undo /\ Hash(m(k) + 1) = Ins[Hash(undo)][k][1]
        /\ Ins[Hash(undo)][k] \in SpendableOuts(Ins[Hash(undo)][k][1])
    BY <1>3 DEF UpdateInv, ShapeInv, InputInv
  <2>2. Ins[Hash(undo)][k] \in SpendableOuts(Hash(m(k) + 1))
    BY <2>1
  <2>3. m(k) + 1 \in 1..(undo - 1)
    BY <1>1, <2>1
  <2> HIDE DEF m
  <2> QED
    BY <2>1, <2>2, <2>3, OutFacts DEF Spent
<1>6. \A q : q \in Unspent <=>
        \E k \in DOMAIN Ins[Hash(undo)] : \E j \in DOMAIN txFile[m(k) + 1].outputs :
          Link(m(k) + 1, j) = undo - 1 /\ q = <<m(k), j>>
  BY <1>4 DEF Unspent, Link
<1>7. \A n \in 1..Len(txFile) : DOMAIN txFile[n].outputs = DOMAIN Outs[Hash(n)]
  BY DEF UpdateInv, ShapeInv, RecordInv
<1>8. \A n \in 1..(undo - 1) : n \in 1..Len(txFile) /\ n \in 1..Live
  BY <1>1, <1>3
<1> HIDE DEF m
<1>9. ASSUME NEW q \in Unspent
      PROVE  \E n \in 1..(undo - 1) : \E i \in DOMAIN Outs[Hash(n)] :
               q = <<n - 1, i>> /\ <<Hash(n), i>> \in Spent(Hash(undo))
  <2>1. PICK k \in DOMAIN Ins[Hash(undo)] : \E j \in DOMAIN txFile[m(k) + 1].outputs :
          Link(m(k) + 1, j) = undo - 1 /\ q = <<m(k), j>>
    BY <1>6
  <2>2. PICK j \in DOMAIN txFile[m(k) + 1].outputs :
          Link(m(k) + 1, j) = undo - 1 /\ q = <<m(k), j>>
    BY <2>1
  <2>3. m(k) + 1 \in 1..(undo - 1) /\ j \in DOMAIN Outs[Hash(m(k) + 1)] /\ (m(k) + 1) - 1 = m(k)
    BY <1>5, <1>7, <1>8
  <2>4. Link(m(k) + 1, j) # 0 /\ Link(m(k) + 1, j) + 1 = undo
    BY <1>1, <2>2, <2>3
  <2>5. <<Hash(m(k) + 1), j>> \in Spent(Hash(undo))
    BY <1>8, <2>3, <2>4 DEF UpdateInv, StateInv, LinkInv
  <2> QED
    BY <2>2, <2>3, <2>5
<1>10. ASSUME NEW n \in 1..(undo - 1), NEW i \in DOMAIN Outs[Hash(n)],
              <<Hash(n), i>> \in Spent(Hash(undo))
       PROVE  <<n - 1, i>> \in Unspent
  <2>1. PICK k \in DOMAIN Ins[Hash(undo)] : Ins[Hash(undo)][k] = <<Hash(n), i>>
    BY <1>10 DEF Spent
  <2>2. Hash(m(k) + 1) = Hash(n) /\ m(k) + 1 \in 1..Len(txFile)
    BY <1>5, <1>8, <2>1
  <2>3. m(k) + 1 = n
    BY <1>8, <2>2 DEF UpdateInv, ShapeInv, UniqueInv
  <2>4. m(k) = n - 1
    BY <1>5, <2>3
  <2>5. Link(n, i) = undo - 1
    <3>1. undo \in 1..Live /\ n \in 1..Live /\ DOMAIN linkData = {}
      BY <1>1, <1>3, <1>4, <1>8
    <3> QED
      BY <1>10, <3>1 DEF UpdateInv, StateInv, SpenderInv
  <2>6. i \in DOMAIN txFile[n].outputs
    BY <1>7, <1>8
  <2> QED
    BY <1>6, <2>3, <2>4, <2>5, <2>6
<1>11. ASSUME NEW k \in DOMAIN Ins[Hash(undo)]
       PROVE  <<m(k), Ins[Hash(undo)][k][2]>> \in Unspent
  <2>1. (m(k) + 1) - 1 = m(k)
    BY <1>5
  <2>2. <<Hash(m(k) + 1), Ins[Hash(undo)][k][2]>> \in Spent(Hash(undo))
    BY <1>5
  <2>3. <<(m(k) + 1) - 1, Ins[Hash(undo)][k][2]>> \in Unspent
    BY <1>5, <1>10, <2>2
  <2> QED
    BY <2>1, <2>3
<1> QED
  BY <1>3, <1>5, <1>9, <1>10, <1>11 DEF m

(* utxoState loses what the transaction created and regains what it spent. *)
LEMMA RestoredFacts ==
  ASSUME UpdateInv, pc = "undo", undo > FirstDeletedTx, Undo
  PROVE  /\ DOMAIN utxoState' = (DOMAIN utxoState \ SpendableOuts(Hash(undo)))
                                 \cup Spent(Hash(undo))
         /\ \A p \in DOMAIN utxoState \ SpendableOuts(Hash(undo)) : utxoState'[p] = utxoState[p]
         /\ \A p \in Spent(Hash(undo)) : p \notin DOMAIN utxoState =>
              \E q \in Unspent : /\ p = <<Hash(q[1] + 1), q[2]>>
                                 /\ utxoState'[p].txNum = q[1]
<1> DEFINE gone == {<<Undone.hash, i>> : i \in UndoneOuts}
           back == {<<txFile[p[1] + 1].hash, p[2]>> : p \in Unspent}
           of(q) == CHOOSE p \in Unspent : <<txFile[p[1] + 1].hash, p[2]>> = q
           new  == [q \in back |-> [txNum |-> of(q)[1], type |-> Output(of(q)).type]]
<1>1. utxoState' = Add(Erase(utxoState, gone), new)
  BY DEF Undo, Restored
<1>2. undo \in 1..Len(txFile)
  BY UnspentFacts
<1>3. gone = SpendableOuts(Hash(undo))
  <2>1. /\ DOMAIN txFile[undo].outputs = DOMAIN Outs[Hash(undo)]
        /\ \A i \in DOMAIN Outs[Hash(undo)] :
             txFile[undo].outputs[i].type = TypeOf(Outs[Hash(undo)][i])
    BY <1>2 DEF UpdateInv, ShapeInv, RecordInv
  <2> QED
    BY <2>1 DEF Undone, UndoneOuts, SpendableOuts, Hash
<1>4. back = Spent(Hash(undo))
  <2>1. \A q \in Unspent : <<Hash(q[1] + 1), q[2]>> \in Spent(Hash(undo))
    <3> TAKE q \in Unspent
    <3>1. PICK n \in 1..(undo - 1) : \E i \in DOMAIN Outs[Hash(n)] :
            q = <<n - 1, i>> /\ <<Hash(n), i>> \in Spent(Hash(undo))
      BY UnspentFacts
    <3>2. (n - 1) + 1 = n
      BY <1>2
    <3> QED
      BY <3>1, <3>2
  <2>2. \A k \in DOMAIN Ins[Hash(undo)] :
          \E q \in Unspent : Ins[Hash(undo)][k] = <<Hash(q[1] + 1), q[2]>>
    <3> TAKE k \in DOMAIN Ins[Hash(undo)]
    <3> DEFINE q == <<txFile[undo].inputs[k].linkedTxNum, Ins[Hash(undo)][k][2]>>
    <3>1. q \in Unspent /\ Ins[Hash(undo)][k] = <<Hash(q[1] + 1), q[2]>>
      BY UnspentFacts
    <3> QED
      BY <3>1
  <2>3. \A p \in back : p \in Spent(Hash(undo))
    BY <2>1 DEF Hash
  <2>4. \A p \in Spent(Hash(undo)) : p \in back
    BY <2>2 DEF Spent, Hash
  <2> QED
    BY <2>3, <2>4
<1>5. ASSUME NEW p \in back
      PROVE  of(p) \in Unspent /\ p = <<Hash(of(p)[1] + 1), of(p)[2]>> /\ new[p].txNum = of(p)[1]
  <2>1. \E q \in Unspent : <<txFile[q[1] + 1].hash, q[2]>> = p
    OBVIOUS
  <2>2. of(p) \in Unspent /\ <<txFile[of(p)[1] + 1].hash, of(p)[2]>> = p
    BY <2>1
  <2>3. new[p] = [txNum |-> of(p)[1], type |-> Output(of(p)).type]
    OBVIOUS
  <2> HIDE DEF of, new, back
  <2> QED
    BY <2>2, <2>3 DEF Hash
<1>6. DOMAIN new = back
  OBVIOUS
<1> HIDE DEF gone, back, of, new
<1>7. /\ DOMAIN utxoState' = (DOMAIN utxoState \ gone) \cup DOMAIN new
      /\ \A k \in DOMAIN utxoState \ gone : utxoState'[k] = utxoState[k]
      /\ \A k \in DOMAIN new : k \notin DOMAIN utxoState \ gone => utxoState'[k] = new[k]
  BY <1>1 DEF Add, Erase
<1>8. ASSUME NEW p \in Spent(Hash(undo)), p \notin DOMAIN utxoState
      PROVE  \E q \in Unspent : p = <<Hash(q[1] + 1), q[2]>> /\ utxoState'[p].txNum = q[1]
  <2>1. p \in back /\ utxoState'[p] = new[p]
    BY <1>4, <1>6, <1>7, <1>8
  <2> QED
    BY <1>5, <2>1
<1> QED
  BY <1>3, <1>4, <1>6, <1>7, <1>8

(* Undoing the last live transaction takes the maps and the links back to  *)
(* the one before.                                                         *)
LEMMA UndoKeeps ==
  ASSUME UpdateInv, UndoTx, UndoHolds
  PROVE  ShapeInv' /\ StateInv'
<1>1. /\ pc = "undo" /\ undo > FirstDeletedTx /\ Undo
      /\ UNCHANGED <<next, blockFile, linkData, saved>>
  BY DEF UndoTx
<1>2. pc' = pc /\ undo' = undo - 1
  BY <1>1 DEF Undo
<1>3. txFile' = [m \in DOMAIN txFile |->
                  [txFile[m] EXCEPT !.outputs =
                     [j \in DOMAIN @ |-> IF <<m - 1, j>> \in Unspent
                                           THEN [@[j] EXCEPT !.linkedTxNum = 0]
                                           ELSE @[j]]]]
  BY <1>1 DEF Undo
<1>4. Len(txFile) \in Nat /\ DOMAIN txFile = 1..Len(txFile)
  BY LenFacts DEF UpdateInv
<1>5. Len(txFile') = Len(txFile)
  <2>1. txFile' = [i \in DOMAIN txFile' |-> txFile'[i]] /\ DOMAIN txFile' = DOMAIN txFile
    BY <1>3
  <2> QED
    BY <2>1, KeptSeq DEF UpdateInv, BlockInv, FileInv
<1>6. ASSUME NEW n \in 1..Len(txFile)
      PROVE  /\ txFile'[n].hash = txFile[n].hash
             /\ "inputs" \in DOMAIN txFile'[n] /\ "outputs" \in DOMAIN txFile'[n]
             /\ txFile'[n].inputs = txFile[n].inputs
             /\ DOMAIN txFile'[n].outputs = DOMAIN txFile[n].outputs
             /\ \A i \in DOMAIN txFile[n].outputs :
                  /\ "linkedTxNum" \in DOMAIN txFile'[n].outputs[i]
                  /\ "type" \in DOMAIN txFile'[n].outputs[i]
                  /\ txFile'[n].outputs[i].type = txFile[n].outputs[i].type
                  /\ txFile'[n].outputs[i].linkedTxNum =
                       IF <<n - 1, i>> \in Unspent THEN 0 ELSE Link(n, i)
  <2> DEFINE o == txFile[n].outputs
             upd(m) == [txFile[m] EXCEPT !.outputs =
                          [j \in DOMAIN @ |-> IF <<m - 1, j>> \in Unspent
                                                THEN [@[j] EXCEPT !.linkedTxNum = 0]
                                                ELSE @[j]]]
  <2>1. txFile'[n] = upd(n)
    <3>1. n \in DOMAIN txFile
      BY <1>4
    <3>2. txFile' = [m \in DOMAIN txFile |-> upd(m)]
      BY <1>3, Zenon
    <3> HIDE DEF upd
    <3> QED
      BY <3>1, <3>2
  <2>2. /\ "hash" \in DOMAIN txFile[n] /\ "inputs" \in DOMAIN txFile[n]
        /\ "outputs" \in DOMAIN txFile[n]
        /\ \A i \in DOMAIN o : "linkedTxNum" \in DOMAIN o[i] /\ "type" \in DOMAIN o[i]
    BY <1>4 DEF UpdateInv, BlockInv, FileInv, ShapeInv, RecordInv
  <2>3. /\ upd(n).hash = txFile[n].hash
        /\ "inputs" \in DOMAIN upd(n) /\ "outputs" \in DOMAIN upd(n)
        /\ upd(n).inputs = txFile[n].inputs
        /\ DOMAIN upd(n).outputs = DOMAIN o
    BY <2>2
  <2>4. \A i \in DOMAIN o : /\ "linkedTxNum" \in DOMAIN upd(n).outputs[i]
                            /\ "type" \in DOMAIN upd(n).outputs[i]
                            /\ upd(n).outputs[i].type = o[i].type
                            /\ upd(n).outputs[i].linkedTxNum =
                                 IF <<n - 1, i>> \in Unspent THEN 0 ELSE o[i].linkedTxNum
    BY <2>2
  <2> HIDE DEF upd
  <2> QED
    BY <2>1, <2>3, <2>4 DEF Link
<1>7. ShapeInv'
  BY <1>1, <1>5, <1>6, ShapeKept DEF UpdateInv
<1>8. /\ undo \in 1..Len(txFile) /\ Live = undo /\ Live' = undo - 1 /\ undo - 1 \in Nat
      /\ \A n \in 1..(undo - 1) : n \in 1..Len(txFile) /\ n \in 1..undo
  BY <1>1, <1>2, <1>4, UnspentFacts DEF Live
<1>9. FirstDeletedTx \in Nat
  <2>1. next \in Nat /\ next < Len(blockFile) /\ Len(blockFile) \in Nat
    BY <1>1, FileFacts DEF UpdateInv, BlockInv, PhaseInv, FileInv
  <2>2. next + 1 \in Heights
    BY <2>1, AboveFacts
  <2> QED
    BY <2>2, FileFacts DEF UpdateInv, BlockInv, First, FirstDeletedTx
<1>10. UndoInv' /\ SavedInv'
  <2>1. FirstDeletedTx' = FirstDeletedTx
    BY <1>1 DEF FirstDeletedTx
  <2>2. undo - 1 \in Nat /\ FirstDeletedTx <= undo - 1 /\ undo - 1 <= Len(txFile')
    BY <1>1, <1>4, <1>5, <1>8, <1>9
  <2> QED
    BY <1>1, <1>2, <2>1, <2>2 DEF UpdateInv, StateInv, UndoInv, SavedInv
<1>11. \A n \in 1..Len(txFile) : Hash(n)' = Hash(n)
  BY <1>6 DEF Hash
<1>12. PendingInv'
  <2>1. linkData = << >>
    BY <1>1 DEF UpdateInv, StateInv, PendingInv
  <2> QED
    BY <1>1, <2>1, EmptySeq DEF PendingInv
<1>13. ASSUME NEW n \in 1..(undo - 1), NEW i \in DOMAIN Outs[Hash(n)]
       PROVE  /\ <<Hash(n), i>> \in Spent(Hash(undo)) => Link(n, i)' = 0
              /\ <<Hash(n), i>> \notin Spent(Hash(undo)) => Link(n, i)' = Link(n, i)
  <2>1. i \in DOMAIN txFile[n].outputs
    BY <1>8 DEF UpdateInv, ShapeInv, RecordInv
  <2>2. Link(n, i)' = IF <<n - 1, i>> \in Unspent THEN 0 ELSE Link(n, i)
    BY <1>6, <1>8, <2>1 DEF Link
  <2>3. <<Hash(n), i>> \in Spent(Hash(undo)) => <<n - 1, i>> \in Unspent
    BY <1>1, UnspentFacts
  <2>4. ASSUME <<n - 1, i>> \in Unspent PROVE <<Hash(n), i>> \in Spent(Hash(undo))
    <3>1. PICK l \in 1..(undo - 1) : \E j \in DOMAIN Outs[Hash(l)] :
            <<n - 1, i>> = <<l - 1, j>> /\ <<Hash(l), j>> \in Spent(Hash(undo))
      BY <1>1, <2>4, UnspentFacts
    <3>2. l = n
      BY <1>8, <3>1
    <3> QED
      BY <3>1, <3>2
  <2> QED
    BY <2>2, <2>3, <2>4
<1>14. LinkInv'
  <2>1. \A m \in 1..(undo - 1) : txFile'[m].hash = Hash(m)
    BY <1>8, <1>11 DEF Hash
  <2>2. ASSUME NEW n \in 1..(undo - 1), NEW i \in DOMAIN Outs[Hash(n)], NEW v, v = Link(n, i)'
        PROVE  /\ v \in Nat
               /\ v # 0 => /\ v + 1 \in 1..(undo - 1)
                           /\ <<Hash(n), i>> \in Spent(txFile'[v + 1].hash)
    <3>1. CASE <<Hash(n), i>> \in Spent(Hash(undo))
      BY <1>13, <2>2, <3>1
    <3>2. CASE <<Hash(n), i>> \notin Spent(Hash(undo))
      <4>1. v = Link(n, i)
        BY <1>13, <2>2, <3>2
      <4>2. v \in Nat /\ (v # 0 => v + 1 \in 1..undo /\ <<Hash(n), i>> \in Spent(Hash(v + 1)))
        BY <1>1, <1>8, <4>1 DEF UpdateInv, StateInv, LinkInv
      <4>3. v # 0 => v + 1 # undo
        BY <3>2, <4>2
      <4>4. v # 0 => v + 1 \in 1..(undo - 1)
        BY <1>8, <4>2, <4>3
      <4> QED
        BY <2>1, <4>2, <4>4
    <3> QED
      BY <3>1, <3>2
  <2> QED
    BY <1>8, <2>1, <2>2 DEF LinkInv, Hash, Link
<1>15. SpenderInv'
  <2> SUFFICES ASSUME NEW n \in 1..(undo - 1), NEW m \in 1..(undo - 1),
                      NEW i \in DOMAIN Outs[Hash(n)], <<Hash(n), i>> \in Spent(Hash(m))
               PROVE  Link(n, i)' = m - 1
    BY <1>8, <1>11 DEF SpenderInv, Spent
  <2>1. m # undo
    BY <1>8
  <2>2. <<Hash(n), i>> \notin Spent(Hash(undo))
    BY <1>8, <2>1 DEF UpdateInv, ShapeInv, OnceSpentInv
  <2>3. DOMAIN linkData = {}
    BY <1>1 DEF UpdateInv, StateInv, PendingInv
  <2>4. Link(n, i) = m - 1
    BY <1>1, <1>8, <2>3 DEF UpdateInv, StateInv, SpenderInv
  <2> QED
    BY <1>13, <2>2, <2>4
<1>16. /\ DOMAIN utxoState' = (DOMAIN utxoState \ SpendableOuts(Hash(undo)))
                               \cup Spent(Hash(undo))
       /\ \A p \in DOMAIN utxoState \ SpendableOuts(Hash(undo)) : utxoState'[p] = utxoState[p]
       /\ \A p \in Spent(Hash(undo)) : p \notin DOMAIN utxoState =>
            \E q \in Unspent : p = <<Hash(q[1] + 1), q[2]>> /\ utxoState'[p].txNum = q[1]
  BY <1>1, RestoredFacts
<1>17. /\ DOMAIN utxoState = Created(undo) \ Consumed(undo)
       /\ \A p \in DOMAIN utxoState :
            /\ utxoState[p].txNum \in Nat /\ utxoState[p].txNum + 1 \in 1..undo
            /\ Hash(utxoState[p].txNum + 1) = p[1]
  BY <1>1, <1>8 DEF UpdateInv, StateInv, UtxoInv
<1> DEFINE Cr(p) == \E m \in 1..(undo - 1) : p \in SpendableOuts(Hash(m))
           Co(p) == \E m \in 1..(undo - 1) : p \in Spent(Hash(m))
<1>18. \A p : /\ p \in Created(undo) <=> Cr(p) \/ p \in SpendableOuts(Hash(undo))
              /\ p \in Consumed(undo) <=> Co(p) \/ p \in Spent(Hash(undo))
  <2>1. 1..undo = 1..(undo - 1) \cup {undo}
    BY <1>8
  <2> QED
    BY <2>1, SetFacts
<1>19. \A p : p \in Created(Live)' <=> Cr(p)
  <2>1. Created(Live)' = UNION {SpendableOuts(Hash(m)) : m \in 1..(undo - 1)}
    BY <1>8, <1>11 DEF Created, SpendableOuts
  <2> QED
    BY <2>1
<1>20. \A p : p \in Consumed(Live)' <=> Co(p)
  <2>1. Consumed(Live)' = UNION {Spent(Hash(m)) : m \in 1..(undo - 1)}
    BY <1>8, <1>11 DEF Consumed, Spent
  <2> QED
    BY <2>1
<1>21. \A m \in 1..undo : \A p \in SpendableOuts(Hash(m)) :
         p[1] = Hash(undo) => m = undo
  <2> TAKE m \in 1..undo
  <2> TAKE p \in SpendableOuts(Hash(m))
  <2> HAVE p[1] = Hash(undo)
  <2>1. Hash(m) = Hash(undo)
    BY OutFacts
  <2> QED
    BY <1>4, <1>8, <2>1 DEF UpdateInv, ShapeInv, UniqueInv
<1>22. \A p \in SpendableOuts(Hash(undo)) : ~Cr(p)
  <2> SUFFICES ASSUME NEW p \in SpendableOuts(Hash(undo)), NEW m \in 1..(undo - 1),
                      p \in SpendableOuts(Hash(m))
               PROVE  FALSE
    OBVIOUS
  <2>1. p[1] = Hash(undo)
    BY OutFacts
  <2>2. m \in 1..undo /\ m # undo
    BY <1>8
  <2> QED
    BY <1>21, <2>1, <2>2
<1>23. ASSUME NEW p \in Spent(Hash(undo)) PROVE Cr(p) /\ ~Co(p)
  <2>1. PICK k \in DOMAIN Ins[Hash(undo)] : p = Ins[Hash(undo)][k]
    BY DEF Spent
  <2>2. Cr(p)
    BY <1>1, <2>1, UnspentFacts
  <2>3. ASSUME NEW m \in 1..(undo - 1), p \in Spent(Hash(m)) PROVE FALSE
    <3>1. m # undo
      BY <1>8
    <3> QED
      BY <1>8, <2>3, <3>1 DEF UpdateInv, ShapeInv, OnceSpentInv
  <2> QED
    BY <2>2, <2>3
<1> HIDE DEF Cr, Co
<1>24. DOMAIN utxoState' = Created(Live)' \ Consumed(Live)'
  <2>1. ASSUME NEW p PROVE p \in DOMAIN utxoState' <=> Cr(p) /\ ~Co(p)
    <3>1. p \in DOMAIN utxoState <=> /\ Cr(p) \/ p \in SpendableOuts(Hash(undo))
                                     /\ ~(Co(p) \/ p \in Spent(Hash(undo)))
      BY <1>17, <1>18
    <3>2. p \in DOMAIN utxoState' <=>
            \/ p \in DOMAIN utxoState /\ p \notin SpendableOuts(Hash(undo))
            \/ p \in Spent(Hash(undo))
      BY <1>16
    <3>3. p \in SpendableOuts(Hash(undo)) => ~Cr(p)
      BY <1>22
    <3>4. p \in Spent(Hash(undo)) => Cr(p) /\ ~Co(p)
      BY <1>23
    <3> QED
      BY <3>1, <3>2, <3>3, <3>4
  <2> QED
    BY <1>19, <1>20, <2>1
<1>25. ASSUME NEW p \in DOMAIN utxoState \ SpendableOuts(Hash(undo))
       PROVE  utxoState[p].txNum + 1 # undo
  <2>1. SUFFICES ASSUME utxoState[p].txNum + 1 = undo PROVE FALSE
    OBVIOUS
  <2>2. p[1] = Hash(undo)
    BY <1>17, <2>1
  <2>3. PICK m \in 1..undo : p \in SpendableOuts(Hash(m))
    BY <1>17, SetFacts
  <2>4. m = undo
    BY <1>21, <2>2, <2>3
  <2> QED
    BY <2>3, <2>4
<1>26. ASSUME NEW p \in Spent(Hash(undo))
       PROVE  \E n \in 1..(undo - 1) : \E i : /\ p = <<Hash(n), i>> /\ <<n - 1, i>> \in Unspent
                                              /\ utxoState'[p].txNum = n - 1
  <2>1. p \notin DOMAIN utxoState
    BY <1>17, <1>18
  <2>2. PICK q \in Unspent : p = <<Hash(q[1] + 1), q[2]>> /\ utxoState'[p].txNum = q[1]
    BY <1>16, <2>1
  <2>3. PICK n \in 1..(undo - 1) : \E i : q = <<n - 1, i>>
    <3>1. \E n \in 1..(undo - 1) : \E i \in DOMAIN Outs[Hash(n)] :
            q = <<n - 1, i>> /\ <<Hash(n), i>> \in Spent(Hash(undo))
      BY <1>1, UnspentFacts
    <3> QED
      BY <3>1
  <2>4. (n - 1) + 1 = n /\ q[1] = n - 1 /\ q = <<n - 1, q[2]>>
    BY <1>8, <2>3
  <2> QED
    BY <2>2, <2>4
<1>27. ASSUME NEW p \in DOMAIN utxoState', NEW v, v = utxoState'[p].txNum
       PROVE  v \in Nat /\ v + 1 \in 1..(undo - 1) /\ Hash(v + 1) = p[1]
  <2>1. CASE p \in DOMAIN utxoState \ SpendableOuts(Hash(undo))
    <3>1. v = utxoState[p].txNum
      BY <1>16, <1>27, <2>1
    <3>2. v \in Nat /\ v + 1 \in 1..undo /\ v + 1 # undo /\ Hash(v + 1) = p[1]
      BY <1>17, <1>25, <2>1, <3>1
    <3> QED
      BY <1>8, <3>2
  <2>2. CASE p \in Spent(Hash(undo))
    <3>1. PICK n \in 1..(undo - 1) : \E i : p = <<Hash(n), i>> /\ v = n - 1
      BY <1>26, <1>27, <2>2
    <3>2. v \in Nat /\ v + 1 = n
      BY <1>8, <3>1
    <3> QED
      BY <3>1, <3>2
  <2> QED
    BY <1>16, <2>1, <2>2
<1>28. UtxoInv'
  <2>1. \A p \in DOMAIN utxoState' :
          /\ utxoState'[p].txNum \in Nat /\ utxoState'[p].txNum + 1 \in 1..(undo - 1)
          /\ txFile'[utxoState'[p].txNum + 1].hash = p[1]
    <3> TAKE p \in DOMAIN utxoState'
    <3>1. /\ utxoState'[p].txNum \in Nat /\ utxoState'[p].txNum + 1 \in 1..(undo - 1)
          /\ txFile[utxoState'[p].txNum + 1].hash = p[1]
      BY <1>27 DEF Hash
    <3>2. \A n \in 1..(undo - 1) : txFile'[n].hash = txFile[n].hash
      BY <1>6, <1>8
    <3> QED
      BY <3>1, <3>2
  <2> QED
    BY <1>8, <1>24, <2>1 DEF UtxoInv, Hash
<1>29. ScriptMapInv'
  <2> DEFINE gone == {<<UndoneNum, i>> : i \in UndoneOuts}
             new  == [p \in Unspent |-> Output(p).scriptNum]
  <2>1. utxoScriptState' = Add(Erase(utxoScriptState, gone), new)
    BY <1>1 DEF Undo
  <2>2. \A q \in gone : q[1] = undo - 1
    BY DEF UndoneNum
  <2>3. DOMAIN new = Unspent
    OBVIOUS
  <2> HIDE DEF gone, new
  <2>4. DOMAIN utxoScriptState' = (DOMAIN utxoScriptState \ gone) \cup Unspent
    BY <2>1, <2>3 DEF Add, Erase
  <2> SUFFICES ASSUME NEW p \in DOMAIN utxoState'
               PROVE  <<utxoState'[p].txNum, p[2]>> \in DOMAIN utxoScriptState'
    BY DEF ScriptMapInv
  <2>5. CASE p \in DOMAIN utxoState \ SpendableOuts(Hash(undo))
    <3>1. /\ utxoState'[p] = utxoState[p] /\ utxoState[p].txNum \in Nat
          /\ utxoState[p].txNum + 1 # undo
      BY <1>16, <1>17, <1>25, <2>5
    <3>2. utxoState[p].txNum # undo - 1
      BY <1>8, <3>1
    <3>3. <<utxoState[p].txNum, p[2]>> \in DOMAIN utxoScriptState
      BY <1>1, <2>5 DEF UpdateInv, StateInv, ScriptMapInv
    <3>4. <<utxoState[p].txNum, p[2]>> \notin gone
      BY <2>2, <3>2
    <3> QED
      BY <2>4, <3>1, <3>3, <3>4
  <2>6. CASE p \in Spent(Hash(undo))
    <3>1. PICK n \in 1..(undo - 1) :
            \E i : /\ p = <<Hash(n), i>> /\ <<n - 1, i>> \in Unspent
                   /\ utxoState'[p].txNum = n - 1
      BY <1>26, <2>6
    <3> QED
      BY <2>4, <3>1
  <2> QED
    BY <1>16, <2>5, <2>6
<1> QED
  BY <1>7, <1>10, <1>12, <1>14, <1>15, <1>28, <1>29 DEF StateInv

-----------------------------------------------------------------------------
(* While blocks are added the file holds the transactions of the branch    *)
(* before the one to add.                                                  *)
LEMMA FileIsBefore ==
  ASSUME UpdateInv, pc = "add", Position <= Len(Txs[chainBlocks[next + 1]])
  PROVE  \E b \in Block : \E h \in 1..Len(Ancestry[b]) : \E i \in DOMAIN Txs[Ancestry[b][h]] :
           /\ NewTx = Txs[Ancestry[b][h]][i]
           /\ \A n \in 1..Len(txFile) : Hash(n) \in Before(b, h, i)
           /\ \A u \in Before(b, h, i) : \E n \in 1..Len(txFile) : Hash(n) = u
<1>1. /\ next \in Nat /\ next < Len(chainBlocks) /\ Len(chainBlocks) \in Nat
      /\ Len(blockFile) = next /\ Heights = 1..next
      /\ Len(txFile) \in Nat /\ StartOfBlock \in Nat /\ StartOfBlock <= Len(txFile)
      /\ Len(txFile) - StartOfBlock <= Len(Txs[chainBlocks[next + 1]])
      /\ \A k \in 1..(Len(txFile) - StartOfBlock) :
           txFile[StartOfBlock + k].hash = Txs[chainBlocks[next + 1]][k]
      /\ \A h \in 1..next : blockFile[h].hash = chainBlocks[h]
  BY FileFacts DEF UpdateInv, BlockInv, FileInv, PhaseInv, AgreeInv, Heights
<1>2. PICK b \in Block : /\ Len(chainBlocks) <= Len(Ancestry[b])
                         /\ \A h \in 1..Len(chainBlocks) : chainBlocks[h] = Ancestry[b][h]
  BY DEF UpdateInv, BlockInv, BranchInv
<1>3. Len(Ancestry[b]) \in Nat
  BY AncestryAssumption, LenProperties
<1>4. \A h \in 1..(next + 1) : /\ h \in 1..Len(chainBlocks) /\ h \in 1..Len(Ancestry[b])
                               /\ Ancestry[b][h] = chainBlocks[h]
                               /\ DOMAIN Txs[chainBlocks[h]] = 1..Len(Txs[chainBlocks[h]])
                               /\ Len(Txs[chainBlocks[h]]) \in Nat
  <2> TAKE h \in 1..(next + 1)
  <2>1. h \in 1..Len(chainBlocks) /\ h \in 1..Len(Ancestry[b])
    BY <1>1, <1>2, <1>3
  <2>2. chainBlocks[h] \in Block
    BY <2>1, FileFacts DEF UpdateInv, BlockInv
  <2> QED
    BY <1>2, <2>1, <2>2, FileFacts DEF UpdateInv, BlockInv
<1>5. \A h \in 1..next : h \in 1..(next + 1) /\ h < next + 1
  BY <1>1
<1>6. next + 1 \in 1..(next + 1)
  BY <1>1
<1>7. Position = Len(txFile) - StartOfBlock + 1 /\ Position \in DOMAIN Txs[chainBlocks[next + 1]]
  BY <1>1, <1>4, <1>6 DEF Position, TxCount
<1> DEFINE S(k) == {j \in DOMAIN Txs[Ancestry[b][k]] : k < next + 1 \/ j < Position}
<1>8. \A u : u \in Before(b, next + 1, Position) <=>
               \E k \in 1..(next + 1) : \E j \in S(k) : u = Txs[Ancestry[b][k]][j]
  <2> DEFINE T(k) == {Txs[Ancestry[b][k]][j] : j \in S(k)}
  <2>1. Before(b, next + 1, Position) = UNION {T(k) : k \in 1..(next + 1)}
    BY DEF Before
  <2>2. \A u, k : u \in T(k) <=> \E j \in S(k) : u = Txs[Ancestry[b][k]][j]
    <3> HIDE DEF S
    <3> QED
      OBVIOUS
  <2> HIDE DEF T, S
  <2> QED
    BY <2>1, <2>2
<1>9. ASSUME NEW n \in 1..Len(txFile)
      PROVE  \E k \in 1..(next + 1) : \E j \in S(k) : Hash(n) = Txs[Ancestry[b][k]][j]
  <2>1. CASE n > StartOfBlock
    <3>1. /\ n - StartOfBlock \in 1..(Len(txFile) - StartOfBlock)
          /\ StartOfBlock + (n - StartOfBlock) = n
          /\ n - StartOfBlock < Position
      BY <1>1, <1>7, <2>1
    <3>2. n - StartOfBlock \in 1..Len(Txs[chainBlocks[next + 1]])
      BY <1>1, <1>4, <1>6, <3>1
    <3>3. Hash(n) = Txs[chainBlocks[next + 1]][n - StartOfBlock]
      BY <1>1, <3>1 DEF Hash
    <3>4. n - StartOfBlock \in S(next + 1)
      BY <1>4, <1>6, <3>1, <3>2
    <3> QED
      BY <1>4, <1>6, <3>3, <3>4
  <2>2. CASE \E h \in Heights : First(h) < n /\ n <= First(h) + Size(h)
    <3>1. PICK h \in 1..next : First(h) < n /\ n <= First(h) + Size(h)
      BY <1>1, <2>2
    <3>2. First(h) \in Nat /\ Size(h) \in Nat
      BY <1>1, FileFacts DEF UpdateInv, BlockInv
    <3>3. n - First(h) \in 1..Size(h) /\ First(h) + (n - First(h)) = n
      BY <1>1, <3>1, <3>2
    <3>4. Hash(n) = Txs[blockFile[h].hash][n - First(h)]
      BY <1>1, <3>3 DEF UpdateInv, BlockInv, ContentInv, Hash
    <3>5. blockFile[h].hash = Ancestry[b][h] /\ n - First(h) \in DOMAIN Txs[Ancestry[b][h]]
      BY <1>1, <1>4, <1>5, <3>3 DEF Size
    <3> QED
      BY <1>5, <3>4, <3>5
  <2> QED
    BY <2>1, <2>2 DEF UpdateInv, ShapeInv, CoverInv
<1>10. ASSUME NEW k \in 1..(next + 1), NEW j \in S(k)
       PROVE  \E n \in 1..Len(txFile) : Hash(n) = Txs[Ancestry[b][k]][j]
  <2>1. CASE k = next + 1
    <3>1. j \in 1..(Len(txFile) - StartOfBlock)
      <4>1. j \in DOMAIN Txs[Ancestry[b][next + 1]] /\ (next + 1 < next + 1 \/ j < Position)
        BY <2>1, Zenon
      <4>2. j \in 1..Len(Txs[chainBlocks[next + 1]]) /\ Len(Txs[chainBlocks[next + 1]]) \in Nat
        BY <1>4, <1>6, <4>1
      <4> QED
        BY <1>1, <1>7, <4>1, <4>2
    <3>2. StartOfBlock + j \in 1..Len(txFile)
      BY <1>1, <3>1
    <3>3. Hash(StartOfBlock + j) = Txs[Ancestry[b][k]][j]
      BY <1>1, <1>4, <2>1, <3>1 DEF Hash
    <3> QED
      BY <3>2, <3>3
  <2>2. CASE k \in 1..next
    <3>1. blockFile[k].hash = Ancestry[b][k] /\ j \in 1..Size(k)
      BY <1>1, <1>4, <1>5, <2>2 DEF Size
    <3>2. /\ First(k) + Size(k) <= Len(txFile)
          /\ txFile[First(k) + j].hash = Txs[Ancestry[b][k]][j]
      BY <1>1, <2>2, <3>1 DEF UpdateInv, BlockInv, ContentInv
    <3>3. First(k) \in Nat /\ Size(k) \in Nat
      BY <1>1, <2>2, FileFacts DEF UpdateInv, BlockInv
    <3>4. First(k) + j \in 1..Len(txFile)
      BY <1>1, <3>1, <3>2, <3>3
    <3> QED
      BY <3>2, <3>4 DEF Hash
  <2> QED
    BY <1>1, <2>1, <2>2
<1> HIDE DEF S
<1>11. /\ \A n \in 1..Len(txFile) : Hash(n) \in Before(b, next + 1, Position)
       /\ \A u \in Before(b, next + 1, Position) : \E n \in 1..Len(txFile) : Hash(n) = u
  BY <1>8, <1>9, <1>10
<1>12. /\ next + 1 \in 1..Len(Ancestry[b]) /\ Position \in DOMAIN Txs[Ancestry[b][next + 1]]
       /\ NewTx = Txs[Ancestry[b][next + 1]][Position]
  BY <1>4, <1>6, <1>7 DEF NewTx
<1> QED
  BY <1>11, <1>12

(* The transaction to add is not there yet.                                *)
LEMMA NewTxFacts ==
  ASSUME OnceEach, UpdateInv, pc = "add", Position <= Len(Txs[chainBlocks[next + 1]])
  PROVE  /\ NewTx \in DOMAIN Ins /\ NewTx \in DOMAIN Outs
         /\ \A n \in 1..Len(txFile) : Hash(n) # NewTx
<1>1. PICK b \in Block : \E h \in 1..Len(Ancestry[b]) : \E i \in DOMAIN Txs[Ancestry[b][h]] :
        /\ NewTx = Txs[Ancestry[b][h]][i]
        /\ \A n \in 1..Len(txFile) : Hash(n) \in Before(b, h, i)
  BY FileIsBefore
<1>2. PICK h, i :
        /\ h \in 1..Len(Ancestry[b]) /\ i \in DOMAIN Txs[Ancestry[b][h]]
        /\ NewTx = Txs[Ancestry[b][h]][i]
        /\ \A n \in 1..Len(txFile) : Hash(n) \in Before(b, h, i)
  BY <1>1
<1>3. \A n \in 1..Len(txFile) : Hash(n) # NewTx
  BY <1>2 DEF OnceEach
<1>4. Ancestry[b][h] \in Block
  BY <1>2, AncestryAssumption, LenProperties, ElementOfSeq
<1>5. Txs[Ancestry[b][h]] \in Seq(DOMAIN Ins \cap DOMAIN Outs)
  BY <1>4, TxAssumption
<1>6. NewTx \in DOMAIN Ins \cap DOMAIN Outs
  BY <1>2, <1>5, LenProperties, ElementOfSeq
<1> QED
  BY <1>3, <1>6

(* The record that is written for it ...                                   *)
LEMMA RecordFacts ==
  ASSUME BlockInv, NEW t, SerializeTransaction(t)
  PROVE  /\ Len(txFile') = Len(txFile) + 1
         /\ \A n \in 1..Len(txFile) : txFile'[n] = txFile[n]
         /\ LET r == txFile'[Len(txFile) + 1]
            IN  /\ r.hash = t /\ "inputs" \in DOMAIN r /\ "outputs" \in DOMAIN r
                /\ r.inputs = [k \in DOMAIN Ins[t] |-> r.inputs[k]]
                /\ \A k \in DOMAIN Ins[t] :
                     r.inputs[k].linkedTxNum = utxoState[Ins[t][k]].txNum
                /\ DOMAIN r.outputs = DOMAIN Outs[t]
                /\ \A i \in DOMAIN Outs[t] :
                     /\ "linkedTxNum" \in DOMAIN r.outputs[i] /\ "type" \in DOMAIN r.outputs[i]
                     /\ r.outputs[i].type = TypeOf(Outs[t][i]) /\ r.outputs[i].linkedTxNum = 0
<1> DEFINE at(k) == <<utxoState[Ins[t][k]].txNum, Ins[t][k][2]>>
           ins   == [k \in DOMAIN Ins[t] |->
                       LET p == at(k)
                       IN  [linkedTxNum |-> p[1], scriptNum |-> utxoScriptState[p]]]
           outs  == [i \in DOMAIN Outs[t] |->
                       [linkedTxNum |-> 0, type |-> TypeOf(Outs[t][i]),
                        scriptNum |-> ScriptNum(Outs[t], i)]]
           r     == [hash |-> t, inputs |-> ins, outputs |-> outs]
<1>1. txFile' = Append(txFile, r)
  BY DEF SerializeTransaction
<1>2. /\ ins = [k \in DOMAIN Ins[t] |-> ins[k]]
      /\ \A k \in DOMAIN Ins[t] : ins[k].linkedTxNum = utxoState[Ins[t][k]].txNum
  OBVIOUS
<1>3. /\ DOMAIN outs = DOMAIN Outs[t]
      /\ \A i \in DOMAIN Outs[t] :
           /\ "linkedTxNum" \in DOMAIN outs[i] /\ "type" \in DOMAIN outs[i]
           /\ outs[i].type = TypeOf(Outs[t][i]) /\ outs[i].linkedTxNum = 0
  OBVIOUS
<1> HIDE DEF ins, outs
<1>4. /\ "hash" \in DOMAIN r /\ "inputs" \in DOMAIN r /\ "outputs" \in DOMAIN r
      /\ r.hash = t /\ r.inputs = ins /\ r.outputs = outs
  OBVIOUS
<1> HIDE DEF r
<1>5. /\ Len(txFile') = Len(txFile) + 1
      /\ \A i \in 1..Len(txFile) : txFile'[i] = txFile[i]
      /\ txFile'[Len(txFile) + 1] = r
  BY <1>1, GrownSeq DEF BlockInv, FileInv
<1>6. r.inputs = [k \in DOMAIN Ins[t] |-> r.inputs[k]]
  BY <1>2, <1>4, Zenon
<1> QED
  BY <1>2, <1>3, <1>4, <1>5, <1>6

(* ... and the links that wait for its inputs.                             *)
LEMMA NewLinkFacts ==
  ASSUME NEW t \in DOMAIN Ins, linkData \in Seq(Range(linkData)), SerializeTransaction(t)
  PROVE  /\ linkData' \in Seq(Range(linkData'))
         /\ \A k \in DOMAIN linkData : \E l \in DOMAIN linkData' : linkData'[l] = linkData[k]
         /\ \A k \in DOMAIN Ins[t] : \E l \in DOMAIN linkData' :
              linkData'[l] = [pointer |-> <<utxoState[Ins[t][k]].txNum, Ins[t][k][2]>>,
                              txNum |-> Len(txFile)]
         /\ \A l \in DOMAIN linkData' :
              \/ \E k \in DOMAIN linkData : linkData'[l] = linkData[k]
              \/ \E k \in DOMAIN Ins[t] :
                   linkData'[l] = [pointer |-> <<utxoState[Ins[t][k]].txNum, Ins[t][k][2]>>,
                                   txNum |-> Len(txFile)]
<1> DEFINE link(k) == [pointer |-> <<utxoState[Ins[t][k]].txNum, Ins[t][k][2]>>,
                       txNum |-> Len(txFile)]
           new == [k \in DOMAIN Ins[t] |-> link(k)]
           S   == Range(linkData) \cup Range(new)
<1>1. linkData' = linkData \o new
  BY DEF SerializeTransaction, TxCount
<1>2. Ins[t] \in Seq((DOMAIN Outs) \X (Nat \ {0}))
  BY TxAssumption
<1>3. Len(Ins[t]) \in Nat /\ DOMAIN Ins[t] = 1..Len(Ins[t])
  BY <1>2, LenProperties
<1>4. DOMAIN new = DOMAIN Ins[t] /\ \A k \in DOMAIN Ins[t] : new[k] = link(k)
  OBVIOUS
<1>5. new \in Seq(Range(new)) /\ Len(new) = Len(Ins[t])
  <2>1. new = [k \in DOMAIN new |-> new[k]]
    OBVIOUS
  <2>2. \A k \in 1..Len(Ins[t]) : new[k] \in Range(new)
    BY <1>3, <1>4 DEF Range
  <2> HIDE DEF new
  <2>3. new \in [1..Len(Ins[t]) -> Range(new)]
    BY <1>3, <1>4, <2>1, <2>2
  <2> QED
    BY <1>3, <2>3
<1> HIDE DEF new, link
<1>6. linkData \in Seq(S) /\ new \in Seq(S)
  BY <1>5, SeqMonotonic
<1> HIDE DEF S
<1>7. /\ Len(linkData) \in Nat /\ DOMAIN linkData = 1..Len(linkData)
      /\ DOMAIN new = 1..Len(new) /\ Len(new) \in Nat
  BY <1>5, LenProperties
<1>8. /\ linkData' \in Seq(S) /\ Len(linkData') = Len(linkData) + Len(new)
      /\ \A i \in 1..(Len(linkData) + Len(new)) :
           linkData'[i] = IF i <= Len(linkData) THEN linkData[i] ELSE new[i - Len(linkData)]
  BY <1>1, <1>6, ConcatProperties
<1>9. DOMAIN linkData' = 1..(Len(linkData) + Len(new))
  BY <1>8, LenProperties
<1>10. linkData' \in Seq(Range(linkData'))
  BY <1>8, SeqOfRange
<1>11. ASSUME NEW k \in DOMAIN linkData
       PROVE  \E l \in DOMAIN linkData' : linkData'[l] = linkData[k]
  <2>1. k \in 1..(Len(linkData) + Len(new)) /\ k <= Len(linkData)
    BY <1>7
  <2> QED
    BY <1>8, <1>9, <2>1
<1>12. ASSUME NEW k \in DOMAIN Ins[t] PROVE \E l \in DOMAIN linkData' : linkData'[l] = link(k)
  <2>1. /\ Len(linkData) + k \in 1..(Len(linkData) + Len(new))
        /\ ~(Len(linkData) + k <= Len(linkData)) /\ (Len(linkData) + k) - Len(linkData) = k
    BY <1>3, <1>5, <1>7
  <2> QED
    BY <1>4, <1>8, <1>9, <2>1
<1>13. ASSUME NEW l \in DOMAIN linkData'
       PROVE  \/ \E k \in DOMAIN linkData : linkData'[l] = linkData[k]
              \/ \E k \in DOMAIN Ins[t] : linkData'[l] = link(k)
  <2>1. CASE l <= Len(linkData)
    BY <1>7, <1>8, <1>9, <2>1
  <2>2. CASE ~(l <= Len(linkData))
    <3>1. l - Len(linkData) \in DOMAIN Ins[t]
      BY <1>4, <1>7, <1>9, <2>2
    <3> QED
      BY <1>4, <1>8, <1>9, <2>2, <3>1
  <2> QED
    BY <2>1, <2>2
<1> QED
  BY <1>10, <1>11, <1>12, <1>13 DEF link

(* What it spends is created by an earlier transaction and not spent yet.  *)
LEMMA SpentFacts ==
  ASSUME OnceEach, UpdateInv, pc = "add", Position <= Len(Txs[chainBlocks[next + 1]]),
         SpendHolds(NewTx)
  PROVE  /\ \A p \in Spent(NewTx) :
              /\ p \in DOMAIN utxoState
              /\ utxoState[p].txNum \in Nat /\ utxoState[p].txNum + 1 \in 1..Len(txFile)
              /\ Hash(utxoState[p].txNum + 1) = p[1]
              /\ p \in SpendableOuts(p[1]) /\ p = <<p[1], p[2]>> /\ p[2] \in DOMAIN Outs[p[1]]
              /\ \A m \in 1..Len(txFile) : p \notin Spent(Hash(m))
              /\ p[1] # NewTx
         /\ \A m \in 1..Len(txFile) : \A p \in Spent(Hash(m)) : p[1] # NewTx
<1>1. Live = Len(txFile) /\ Len(txFile) \in Nat
  BY LenFacts DEF Live, UpdateInv
<1>2. \A n \in 1..Len(txFile) : Hash(n) # NewTx
  BY NewTxFacts
<1>3. ASSUME NEW p \in Spent(NewTx)
      PROVE  /\ p \in DOMAIN utxoState
             /\ utxoState[p].txNum \in Nat /\ utxoState[p].txNum + 1 \in 1..Len(txFile)
             /\ Hash(utxoState[p].txNum + 1) = p[1]
             /\ p \in SpendableOuts(p[1]) /\ p = <<p[1], p[2]>> /\ p[2] \in DOMAIN Outs[p[1]]
             /\ \A m \in 1..Len(txFile) : p \notin Spent(Hash(m))
             /\ p[1] # NewTx
  <2>1. p \in DOMAIN utxoState
    BY DEF SpendHolds, Holds
  <2>2. /\ utxoState[p].txNum \in Nat /\ utxoState[p].txNum + 1 \in 1..Len(txFile)
        /\ Hash(utxoState[p].txNum + 1) = p[1]
        /\ p \in Created(Len(txFile)) /\ p \notin Consumed(Len(txFile))
    BY <1>1, <2>1 DEF UpdateInv, StateInv, UtxoInv
  <2>3. PICK m \in 1..Len(txFile) : p \in SpendableOuts(Hash(m))
    BY <2>2, SetFacts
  <2>4. p = <<Hash(m), p[2]>> /\ p[1] = Hash(m) /\ p[2] \in DOMAIN Outs[Hash(m)]
    BY <2>3, OutFacts
  <2>5. \A l \in 1..Len(txFile) : p \notin Spent(Hash(l))
    BY <2>2, SetFacts
  <2> QED
    BY <1>2, <2>1, <2>2, <2>3, <2>4, <2>5
<1>4. ASSUME NEW m \in 1..Len(txFile), NEW p \in Spent(Hash(m)) PROVE p[1] # NewTx
  <2>1. PICK k \in DOMAIN Ins[Hash(m)] : p = Ins[Hash(m)][k]
    BY DEF Spent
  <2> DEFINE v == txFile[m].inputs[k].linkedTxNum
  <2>2. v \in Nat /\ v + 1 < m /\ Hash(v + 1) = p[1]
    BY <2>1 DEF UpdateInv, ShapeInv, InputInv
  <2>3. v + 1 \in 1..Len(txFile)
    BY <1>1, <2>2
  <2> QED
    BY <1>2, <2>2, <2>3
<1> QED
  BY <1>3, <1>4

(* Adding a transaction takes the maps and the links to it.                *)
LEMMA ProcessKeeps ==
  ASSUME OnceEach, UpdateInv, AddTx, SpendHolds(NewTx)
  PROVE  ShapeInv' /\ StateInv'
<1> DEFINE t == NewTx
           n == Len(txFile)
<1>1. /\ pc = "add" /\ Position <= Len(Txs[chainBlocks[next + 1]]) /\ Process(t)
      /\ UNCHANGED <<blockFile, saved>>
  BY DEF AddTx
<1>2. pc' = pc /\ SerializeTransaction(t) /\ ConnectUTXOs(t) /\ RecordAddresses(t)
  BY <1>1 DEF Process
<1>3. /\ t \in DOMAIN Ins /\ t \in DOMAIN Outs /\ \A m \in 1..n : Hash(m) # t
  BY <1>1, NewTxFacts
<1>4. /\ \A p \in Spent(t) :
           /\ p \in DOMAIN utxoState
           /\ utxoState[p].txNum \in Nat /\ utxoState[p].txNum + 1 \in 1..n
           /\ Hash(utxoState[p].txNum + 1) = p[1]
           /\ p \in SpendableOuts(p[1]) /\ p = <<p[1], p[2]>> /\ p[2] \in DOMAIN Outs[p[1]]
           /\ \A m \in 1..n : p \notin Spent(Hash(m))
           /\ p[1] # t
      /\ \A m \in 1..n : \A p \in Spent(Hash(m)) : p[1] # t
  BY <1>1, SpentFacts
<1>5. \A k, l \in DOMAIN Ins[t] : Ins[t][k] = Ins[t][l] => k = l
  BY DEF SpendHolds
<1>6. TxCount = n /\ n \in Nat /\ StartOfBlock \in Nat /\ StartOfBlock <= n
  BY <1>1, FileFacts DEF TxCount, UpdateInv, BlockInv, PhaseInv
<1> HIDE DEF t
<1>7. /\ Len(txFile') = n + 1
      /\ \A m \in 1..n : txFile'[m] = txFile[m]
      /\ LET r == txFile'[n + 1]
         IN  /\ r.hash = t /\ "inputs" \in DOMAIN r /\ "outputs" \in DOMAIN r
             /\ r.inputs = [k \in DOMAIN Ins[t] |-> r.inputs[k]]
             /\ \A k \in DOMAIN Ins[t] :
                  r.inputs[k].linkedTxNum = utxoState[Ins[t][k]].txNum
             /\ DOMAIN r.outputs = DOMAIN Outs[t]
             /\ \A i \in DOMAIN Outs[t] :
                  /\ "linkedTxNum" \in DOMAIN r.outputs[i] /\ "type" \in DOMAIN r.outputs[i]
                  /\ r.outputs[i].type = TypeOf(Outs[t][i]) /\ r.outputs[i].linkedTxNum = 0
  BY <1>2, RecordFacts DEF UpdateInv
<1>8. Live = n /\ Live' = n + 1
  BY <1>1, <1>2, <1>7 DEF Live
<1> HIDE DEF n
<1>9. \A m \in 1..(n + 1) : m \in 1..n \/ m = n + 1
  BY <1>6
<1>10. /\ \A m \in 1..n : m \in 1..(n + 1) /\ m # n + 1 /\ txFile'[m].hash = Hash(m)
       /\ txFile'[n + 1].hash = t /\ n + 1 \in 1..(n + 1)
  BY <1>6, <1>7 DEF Hash
<1>11. CoverInv'
  <2> SUFFICES ASSUME NEW m \in 1..(n + 1)
               PROVE  m > StartOfBlock \/ \E h \in Heights : First(h) < m /\ m <= First(h) + Size(h)
    BY <1>1, <1>7 DEF CoverInv, StartOfBlock, Heights, First, Size
  <2>1. CASE m \in 1..n
    BY <2>1 DEF UpdateInv, ShapeInv, CoverInv, n
  <2>2. CASE m = n + 1
    BY <1>6, <2>2
  <2> QED
    BY <1>9, <2>1, <2>2
<1>12. UniqueInv'
  <2>1. \A l, m \in 1..(n + 1) : txFile'[l].hash = txFile'[m].hash => l = m
    <3>1. \A l, m \in 1..n : Hash(l) = Hash(m) => l = m
      BY DEF UpdateInv, ShapeInv, UniqueInv, n
    <3> QED
      BY <1>3, <1>9, <1>10, <3>1
  <2> QED
    BY <1>7, <2>1 DEF UniqueInv, Hash
<1>13. RecordInv'
  <2> SUFFICES ASSUME NEW m \in 1..(n + 1), NEW u, u = txFile'[m].hash
               PROVE  /\ u \in DOMAIN Ins /\ u \in DOMAIN Outs
                      /\ "inputs" \in DOMAIN txFile'[m] /\ "outputs" \in DOMAIN txFile'[m]
                      /\ txFile'[m].inputs = [k \in DOMAIN Ins[u] |-> txFile'[m].inputs[k]]
                      /\ DOMAIN txFile'[m].outputs = DOMAIN Outs[u]
                      /\ \A i \in DOMAIN Outs[u] :
                           /\ "linkedTxNum" \in DOMAIN txFile'[m].outputs[i]
                           /\ "type" \in DOMAIN txFile'[m].outputs[i]
                           /\ txFile'[m].outputs[i].type = TypeOf(Outs[u][i])
    BY <1>7 DEF RecordInv, Hash
  <2>1. CASE m \in 1..n
    BY <1>7, <2>1 DEF UpdateInv, ShapeInv, RecordInv, Hash, n
  <2>2. CASE m = n + 1
    BY <1>3, <1>7, <2>2
  <2> QED
    BY <1>9, <2>1, <2>2
<1>14. InputInv'
  <2>3. Len(txFile') = n + 1
    BY <1>7
  <2> SUFFICES ASSUME NEW m \in 1..(n + 1), NEW k \in DOMAIN Ins[txFile'[m].hash]
               PROVE  LET p == Ins[txFile'[m].hash][k]
                          v == txFile'[m].inputs[k].linkedTxNum
                      IN  /\ v \in Nat /\ v + 1 < m
                          /\ txFile'[v + 1].hash = p[1] /\ p \in SpendableOuts(p[1])
    BY <2>3 DEF InputInv, SpendableOuts, Hash
  <2> DEFINE p == Ins[txFile'[m].hash][k]
             v == txFile'[m].inputs[k].linkedTxNum
  <2>1. CASE m \in 1..n
    <3>1. v \in Nat /\ v + 1 < m /\ Hash(v + 1) = p[1] /\ p \in SpendableOuts(p[1])
      <4>1. k \in DOMAIN Ins[Hash(m)] /\ p = Ins[Hash(m)][k] /\ v = txFile[m].inputs[k].linkedTxNum
        BY <1>7, <1>10, <2>1
      <4> QED
        BY <2>1, <4>1 DEF UpdateInv, ShapeInv, InputInv, n
    <3>2. v + 1 \in 1..n
      BY <1>6, <2>1, <3>1
    <3> QED
      BY <1>10, <3>1, <3>2
  <2>2. CASE m = n + 1
    <3>1. k \in DOMAIN Ins[t] /\ p = Ins[t][k] /\ v = utxoState[p].txNum
      BY <1>7, <2>2
    <3>2. p \in Spent(t)
      BY <3>1 DEF Spent
    <3>3. v \in Nat /\ v + 1 \in 1..n /\ Hash(v + 1) = p[1] /\ p \in SpendableOuts(p[1])
      BY <1>4, <3>1, <3>2
    <3>4. v + 1 < m
      BY <1>6, <2>2, <3>3
    <3> QED
      BY <1>10, <3>3, <3>4
  <2> QED
    BY <1>9, <2>1, <2>2
<1>15. OnceSpentInv'
  <2>1. \A l, m \in 1..(n + 1) :
          \A p \in Spent(txFile'[l].hash) : p \in Spent(txFile'[m].hash) => l = m
    <3>1. \A l, m \in 1..n : \A p \in Spent(Hash(l)) : p \in Spent(Hash(m)) => l = m
      BY DEF UpdateInv, ShapeInv, OnceSpentInv, n
    <3> QED
      BY <1>4, <1>9, <1>10, <3>1
  <2>2. \A m \in 1..(n + 1) : \A k, l \in DOMAIN Ins[txFile'[m].hash] :
          Ins[txFile'[m].hash][k] = Ins[txFile'[m].hash][l] => k = l
    <3>1. \A m \in 1..n : \A k, l \in DOMAIN Ins[Hash(m)] :
            Ins[Hash(m)][k] = Ins[Hash(m)][l] => k = l
      BY DEF UpdateInv, ShapeInv, OnceSpentInv, n
    <3> QED
      BY <1>5, <1>9, <1>10, <3>1
  <2> QED
    BY <1>7, <2>1, <2>2 DEF OnceSpentInv, Hash
<1>16. UndoInv' /\ SavedInv'
  BY <1>1, <1>2 DEF UpdateInv, StateInv, UndoInv, SavedInv
<1>17. /\ DOMAIN utxoState' = (DOMAIN utxoState \ Spent(t)) \cup SpendableOuts(t)
       /\ \A p \in DOMAIN utxoState \ Spent(t) : utxoState'[p] = utxoState[p]
       /\ \A p \in SpendableOuts(t) : p \notin DOMAIN utxoState => utxoState'[p].txNum = n
  <2> DEFINE new == [p \in SpendableOuts(t) |->
                       [txNum |-> n, type |-> TypeOf(Outs[t][p[2]])]]
  <2>1. utxoState' = Add(Erase(utxoState, Spent(t)), new)
    BY <1>2, <1>6 DEF ConnectUTXOs
  <2>2. DOMAIN new = SpendableOuts(t) /\ \A p \in SpendableOuts(t) : new[p].txNum = n
    OBVIOUS
  <2> HIDE DEF new
  <2>3. /\ DOMAIN utxoState' = (DOMAIN utxoState \ Spent(t)) \cup DOMAIN new
        /\ \A p \in DOMAIN utxoState \ Spent(t) : utxoState'[p] = utxoState[p]
        /\ \A p \in DOMAIN new : p \notin DOMAIN utxoState \ Spent(t) => utxoState'[p] = new[p]
    BY <2>1 DEF Add, Erase
  <2> QED
    BY <2>2, <2>3
<1>18. /\ DOMAIN utxoState = Created(n) \ Consumed(n)
       /\ \A p \in DOMAIN utxoState :
            /\ utxoState[p].txNum \in Nat /\ utxoState[p].txNum + 1 \in 1..n
            /\ Hash(utxoState[p].txNum + 1) = p[1]
  BY <1>1, <1>8 DEF UpdateInv, StateInv, UtxoInv
<1>19. \A p : p \in Created(Live)' <=> p \in Created(n) \/ p \in SpendableOuts(t)
  <2>1. Created(Live)' = UNION {SpendableOuts(txFile'[m].hash) : m \in 1..(n + 1)}
    BY <1>8 DEF Created, SpendableOuts, Hash
  <2>2. \A p : p \in Created(Live)' <=> \E m \in 1..(n + 1) : p \in SpendableOuts(txFile'[m].hash)
    BY <2>1
  <2> QED
    BY <1>9, <1>10, <2>2, SetFacts
<1>20. \A p : p \in Consumed(Live)' <=> p \in Consumed(n) \/ p \in Spent(t)
  <2>1. Consumed(Live)' = UNION {Spent(txFile'[m].hash) : m \in 1..(n + 1)}
    BY <1>8 DEF Consumed, Spent, Hash
  <2>2. \A p : p \in Consumed(Live)' <=> \E m \in 1..(n + 1) : p \in Spent(txFile'[m].hash)
    BY <2>1
  <2> QED
    BY <1>9, <1>10, <2>2, SetFacts
<1>21. \A p \in SpendableOuts(t) : /\ p \notin Consumed(n) /\ p \notin Spent(t)
                                   /\ p \notin DOMAIN utxoState /\ p[1] = t
                                   /\ p[2] \in DOMAIN Outs[t]
  <2> TAKE p \in SpendableOuts(t)
  <2>1. p[1] = t /\ p[2] \in DOMAIN Outs[t]
    BY OutFacts
  <2>2. p \notin Consumed(n) /\ p \notin Spent(t)
    BY <1>4, <2>1, SetFacts
  <2>3. p \notin DOMAIN utxoState
    BY <1>3, <1>18, <2>1
  <2> QED
    BY <2>1, <2>2, <2>3
<1>22. UtxoInv'
  <2>1. DOMAIN utxoState' = Created(Live)' \ Consumed(Live)'
    <3>1. \A p : p \in DOMAIN utxoState' <=> p \in Created(Live)' /\ p \notin Consumed(Live)'
      BY <1>17, <1>18, <1>19, <1>20, <1>21
    <3> QED
      BY <3>1
  <2>2. ASSUME NEW p \in DOMAIN utxoState', NEW v, v = utxoState'[p].txNum
        PROVE  v \in Nat /\ v + 1 \in 1..(n + 1) /\ txFile'[v + 1].hash = p[1]
    <3>1. CASE p \in DOMAIN utxoState \ Spent(t)
      BY <1>10, <1>17, <1>18, <2>2, <3>1
    <3>2. CASE p \in SpendableOuts(t)
      <4>1. v = n /\ p[1] = t
        BY <1>17, <1>21, <2>2, <3>2
      <4> QED
        BY <1>6, <1>10, <4>1
    <3> QED
      BY <1>17, <3>1, <3>2
  <2> QED
    BY <1>8, <2>1, <2>2 DEF UtxoInv, Hash
<1>23. ScriptMapInv'
  <2> DEFINE new == [p \in {<<n, i>> : i \in DOMAIN Outs[t]} |-> ScriptNum(Outs[t], p[2])]
  <2>1. utxoScriptState' = Add(Erase(utxoScriptState, SpentPointers(t)), new)
    BY <1>2, <1>6 DEF RecordAddresses
  <2>2. DOMAIN new = {<<n, i>> : i \in DOMAIN Outs[t]}
    OBVIOUS
  <2> HIDE DEF new
  <2>3. /\ \A q \in DOMAIN utxoScriptState : q \notin SpentPointers(t) => q \in DOMAIN utxoScriptState'
        /\ \A i \in DOMAIN Outs[t] : <<n, i>> \in DOMAIN utxoScriptState'
    BY <2>1, <2>2 DEF Add, Erase
  <2> SUFFICES ASSUME NEW p \in DOMAIN utxoState'
               PROVE  <<utxoState'[p].txNum, p[2]>> \in DOMAIN utxoScriptState'
    BY DEF ScriptMapInv
  <2>4. CASE p \in DOMAIN utxoState \ Spent(t)
    <3>1. utxoState'[p] = utxoState[p]
      BY <1>17, <2>4
    <3>2. <<utxoState[p].txNum, p[2]>> \in DOMAIN utxoScriptState
      BY <1>1, <2>4 DEF UpdateInv, StateInv, ScriptMapInv
    <3>3. p = <<p[1], p[2]>> /\ Hash(utxoState[p].txNum + 1) = p[1]
      <4>1. PICK m \in 1..n : p \in SpendableOuts(Hash(m))
        BY <1>18, <2>4, SetFacts
      <4> QED
        BY <1>18, <2>4, <4>1, OutFacts
    <3>4. ASSUME NEW q \in Spent(t), <<utxoState[p].txNum, p[2]>> = <<utxoState[q].txNum, q[2]>>
          PROVE  FALSE
      <4>1. utxoState[p].txNum = utxoState[q].txNum /\ p[2] = q[2]
        BY <3>4
      <4>2. q = <<q[1], q[2]>> /\ Hash(utxoState[q].txNum + 1) = q[1]
        BY <1>4
      <4>3. p = q
        BY <3>3, <4>1, <4>2
      <4> QED
        BY <2>4, <4>3
    <3>5. <<utxoState[p].txNum, p[2]>> \notin SpentPointers(t)
      BY <3>4 DEF SpentPointers
    <3> QED
      BY <2>3, <3>1, <3>2, <3>5
  <2>5. CASE p \in SpendableOuts(t)
    BY <1>17, <1>21, <2>3, <2>5
  <2> QED
    BY <1>17, <2>4, <2>5
<1>24. /\ linkData' \in Seq(Range(linkData'))
       /\ \A k \in DOMAIN linkData : \E l \in DOMAIN linkData' : linkData'[l] = linkData[k]
       /\ \A k \in DOMAIN Ins[t] : \E l \in DOMAIN linkData' :
            linkData'[l] = [pointer |-> <<utxoState[Ins[t][k]].txNum, Ins[t][k][2]>>, txNum |-> n]
       /\ \A l \in DOMAIN linkData' :
            \/ \E k \in DOMAIN linkData : linkData'[l] = linkData[k]
            \/ \E k \in DOMAIN Ins[t] :
                 linkData'[l] = [pointer |-> <<utxoState[Ins[t][k]].txNum, Ins[t][k][2]>>,
                                 txNum |-> n]
  <2>1. linkData \in Seq(Range(linkData))
    BY <1>1 DEF UpdateInv, StateInv, PendingInv
  <2> QED
    BY <1>2, <1>3, <2>1, NewLinkFacts DEF n
<1>25. PendingInv'
  <2>1. ASSUME NEW l \in DOMAIN linkData'
        PROVE  \E a, m \in 1..(n + 1) : \E i \in DOMAIN Outs[txFile'[a].hash] :
                 /\ linkData'[l] = [pointer |-> <<a - 1, i>>, txNum |-> m - 1]
                 /\ <<txFile'[a].hash, i>> \in Spent(txFile'[m].hash)
    <3>1. CASE \E k \in DOMAIN linkData : linkData'[l] = linkData[k]
      <4>1. PICK a, m \in 1..n : \E i \in DOMAIN Outs[Hash(a)] :
              /\ linkData'[l] = [pointer |-> <<a - 1, i>>, txNum |-> m - 1]
              /\ <<Hash(a), i>> \in Spent(Hash(m))
        BY <1>1, <1>8, <3>1 DEF UpdateInv, StateInv, PendingInv
      <4> QED
        BY <1>10, <4>1
    <3>2. ASSUME NEW k \in DOMAIN Ins[t],
                 linkData'[l] = [pointer |-> <<utxoState[Ins[t][k]].txNum, Ins[t][k][2]>>,
                                 txNum |-> n]
          PROVE  \E a, m \in 1..(n + 1) : \E i \in DOMAIN Outs[txFile'[a].hash] :
                   /\ linkData'[l] = [pointer |-> <<a - 1, i>>, txNum |-> m - 1]
                   /\ <<txFile'[a].hash, i>> \in Spent(txFile'[m].hash)
      <4> DEFINE p == Ins[t][k]
                 v == utxoState[p].txNum
      <4>1. p \in Spent(t)
        BY DEF Spent
      <4>2. /\ v \in Nat /\ v + 1 \in 1..n /\ Hash(v + 1) = p[1]
            /\ p = <<p[1], p[2]>> /\ p[2] \in DOMAIN Outs[p[1]]
        BY <1>4, <4>1
      <4>3. (v + 1) - 1 = v /\ (n + 1) - 1 = n
        BY <1>6, <4>2
      <4>4. linkData'[l] = [pointer |-> <<v, p[2]>>, txNum |-> n]
        BY <3>2
      <4> HIDE DEF p, v
      <4>5. v + 1 \in 1..(n + 1) /\ txFile'[v + 1].hash = p[1]
        BY <1>10, <4>2
      <4>6. linkData'[l] = [pointer |-> <<(v + 1) - 1, p[2]>>, txNum |-> (n + 1) - 1]
        BY <4>3, <4>4
      <4>7. <<txFile'[v + 1].hash, p[2]>> \in Spent(txFile'[n + 1].hash)
        BY <1>10, <4>1, <4>2, <4>5
      <4> QED
        BY <1>10, <4>2, <4>5, <4>6, <4>7
    <3> QED
      BY <1>24, <3>1, <3>2
  <2> QED
    BY <1>1, <1>2, <1>8, <1>24, <2>1 DEF PendingInv, Hash
<1>26. LinkInv'
  <2> SUFFICES ASSUME NEW m \in 1..(n + 1), NEW i \in DOMAIN Outs[txFile'[m].hash],
                      NEW v, v = txFile'[m].outputs[i].linkedTxNum
               PROVE  /\ v \in Nat
                      /\ v # 0 => /\ v + 1 \in 1..(n + 1)
                                  /\ <<txFile'[m].hash, i>> \in Spent(txFile'[v + 1].hash)
    BY <1>8 DEF LinkInv, Link, Hash
  <2>1. CASE m \in 1..n
    <3>1. v = Link(m, i) /\ i \in DOMAIN Outs[Hash(m)]
      BY <1>7, <1>10, <2>1 DEF Link
    <3>2. v \in Nat /\ (v # 0 => v + 1 \in 1..n /\ <<Hash(m), i>> \in Spent(Hash(v + 1)))
      BY <1>1, <1>8, <2>1, <3>1 DEF UpdateInv, StateInv, LinkInv
    <3> QED
      BY <1>10, <2>1, <3>2
  <2>2. CASE m = n + 1
    BY <1>7, <2>2
  <2> QED
    BY <1>9, <2>1, <2>2
<1>27. SpenderInv'
  <2> SUFFICES ASSUME NEW a \in 1..(n + 1), NEW m \in 1..(n + 1),
                      NEW i \in DOMAIN Outs[txFile'[a].hash],
                      <<txFile'[a].hash, i>> \in Spent(txFile'[m].hash)
               PROVE  \/ txFile'[a].outputs[i].linkedTxNum = m - 1
                      \/ \E k \in DOMAIN linkData' :
                           linkData'[k] = [pointer |-> <<a - 1, i>>, txNum |-> m - 1]
    BY <1>8 DEF SpenderInv, Link, Hash
  <2>1. a \in 1..n
    <3>1. SUFFICES ASSUME a = n + 1 PROVE FALSE
      BY <1>9
    <3>2. <<t, i>>[1] = t /\ <<t, i>> \in Spent(txFile'[m].hash)
      BY <1>10, <3>1
    <3> QED
      BY <1>4, <1>9, <1>10, <3>2
  <2>2. CASE m \in 1..n
    <3>1. \/ Link(a, i) = m - 1
          \/ \E k \in DOMAIN linkData : linkData[k] = [pointer |-> <<a - 1, i>>, txNum |-> m - 1]
      BY <1>1, <1>8, <1>10, <2>1, <2>2 DEF UpdateInv, StateInv, SpenderInv
    <3>2. txFile'[a].outputs[i].linkedTxNum = Link(a, i)
      BY <1>7, <2>1 DEF Link
    <3> QED
      BY <1>24, <3>1, <3>2
  <2>3. CASE m = n + 1
    <3>1. PICK k \in DOMAIN Ins[t] : Ins[t][k] = <<Hash(a), i>>
      BY <1>10, <2>1, <2>3 DEF Spent
    <3> DEFINE p == Ins[t][k]
               v == utxoState[p].txNum
    <3>2. p \in Spent(t)
      BY DEF Spent
    <3>3. v \in Nat /\ v + 1 \in 1..n /\ Hash(v + 1) = p[1]
      BY <1>4, <3>2
    <3>4. p[1] = Hash(a) /\ p[2] = i
      BY <3>1
    <3>5. PICK l \in DOMAIN linkData' : linkData'[l] = [pointer |-> <<v, p[2]>>, txNum |-> n]
      BY <1>24
    <3> HIDE DEF p, v
    <3>6. v + 1 = a
      BY <2>1, <3>3, <3>4 DEF UpdateInv, ShapeInv, UniqueInv, n
    <3>7. v = a - 1 /\ n = m - 1
      BY <1>6, <2>3, <3>3, <3>6
    <3> QED
      BY <3>4, <3>5, <3>7
  <2> QED
    BY <1>9, <2>2, <2>3
<1> QED
  BY <1>11, <1>12, <1>13, <1>14, <1>15, <1>16, <1>22, <1>23, <1>25, <1>26, <1>27
     DEF ShapeInv, StateInv

(* A transaction that cannot be added leaves the files as they are.        *)
LEMMA AddTxKeeps ==
  ASSUME OnceEach, UpdateInv, AddTx
  PROVE  ShapeInv' /\ StateInv'
<1>1. CASE SpendHolds(NewTx)
  BY <1>1, ProcessKeeps
<1>2. CASE ~SpendHolds(NewTx)
  BY <1>2, ThrowKeeps DEF AddTx
<1> QED
  BY <1>1, <1>2

(* Nor does a transaction that cannot be undone.                           *)
LEMMA UndoTxKeeps ==
  ASSUME UpdateInv, UndoTx
  PROVE  ShapeInv' /\ StateInv'
<1>1. CASE UndoHolds
  BY <1>1, UndoKeeps
<1>2. CASE ~UndoHolds
  BY <1>2, ThrowKeeps DEF UndoTx
<1> QED
  BY <1>1, <1>2

-----------------------------------------------------------------------------
(* The inductive invariant of the maps and the links.                      *)
THEOREM UpdateInvariance == ShallowForks /\ OnceEach => (Spec => []UpdateInv)
<1> SUFFICES ASSUME ShallowForks, OnceEach PROVE Spec => []UpdateInv
  OBVIOUS
<1>1. Init => ShapeInv /\ StateInv
  <2> SUFFICES ASSUME Init PROVE ShapeInv /\ StateInv
    OBVIOUS
  <2>1. /\ pc = "idle" /\ blockFile = << >> /\ txFile = << >> /\ linkData = << >>
        /\ utxoState = << >> /\ utxoScriptState = << >>
        /\ saved = [utxoState |-> << >>, utxoScriptState |-> << >>,
                    scriptIndexes |-> [ty \in Type |-> 1]]
    BY DEF Init
  <2>2. Len(txFile) = 0 /\ Live = 0 /\ 1..0 = {} /\ DOMAIN << >> = {}
    BY <2>1, EmptySeq DEF Live
  <2>3. ShapeInv
    BY <2>2 DEF ShapeInv, CoverInv, UniqueInv, RecordInv, InputInv, OnceSpentInv
  <2>4. UndoInv /\ ScriptMapInv /\ LinkInv /\ SpenderInv
    BY <2>1, <2>2 DEF UndoInv, ScriptMapInv, LinkInv, SpenderInv
  <2>5. UtxoInv
    <3>1. Created(Live) = {}
      BY <2>2 DEF Created
    <3> QED
      BY <2>1, <2>2, <3>1 DEF UtxoInv
  <2>6. SavedInv
    <3>1. \A i : LET s == [utxoState |-> << >>, utxoScriptState |-> << >>, scriptIndexes |-> i]
                 IN  /\ "utxoState" \in DOMAIN s /\ "utxoScriptState" \in DOMAIN s
                     /\ s.utxoState = << >> /\ s.utxoScriptState = << >>
      OBVIOUS
    <3> QED
      BY <2>1, <3>1 DEF SavedInv
  <2>7. PendingInv
    BY <2>1, <2>2, EmptySeq DEF PendingInv
  <2> QED
    BY <2>3, <2>4, <2>5, <2>6, <2>7 DEF StateInv
<1>2. UpdateInv /\ [Next]_vars => ShapeInv' /\ StateInv'
  <2> SUFFICES ASSUME UpdateInv, [Next]_vars PROVE ShapeInv' /\ StateInv'
    OBVIOUS
  <2>1. CASE Next
    BY <2>1, DiscoverKeeps, StartKeeps, UndoTxKeeps, SaveUndoneKeeps, TruncateKeeps,
       RollbackAddressesKeeps, AddTxKeeps, EndBlockKeeps, BackUpdateTxesKeeps, SaveKeeps
       DEF Next, Rollback, AddBlocks
  <2>2. CASE UNCHANGED vars
    <3>1. UNCHANGED <<pc, next, undo, blockFile, txFile, linkData, utxoState, utxoScriptState, saved>>
      BY <2>2 DEF vars, control, chainFiles, maps
    <3>2. ShapeInv'
      BY <3>1, ShapeSame DEF UpdateInv
    <3>3. UndoInv' /\ SavedInv' /\ Live' = Live
      BY <3>1 DEF UpdateInv, StateInv, UndoInv, SavedInv, FirstDeletedTx, Live
    <3>4. UtxoInv' /\ ScriptMapInv' /\ PendingInv' /\ LinkInv' /\ SpenderInv'
      <4>1. CASE pc = "failed"
        BY <3>1, <4>1 DEF UtxoInv, ScriptMapInv, PendingInv, LinkInv, SpenderInv
      <4>2. CASE pc # "failed"
        <5>1. pc' \notin {"add", "link"} => linkData = << >>
          BY <3>1, <4>2 DEF UpdateInv, StateInv, PendingInv
        <5>2. \A n : Hash(n)' = Hash(n) /\ \A i : Link(n, i)' = Link(n, i)
          BY <3>1 DEF Hash, Link
        <5> QED
          BY <3>1, <3>3, <4>2, <5>1, <5>2, StateKept DEF UpdateInv, StateInv
      <4> QED
        BY <4>1, <4>2
    <3> QED
      BY <3>2, <3>3, <3>4 DEF StateInv
  <2> QED
    BY <2>1, <2>2
<1>3. Spec => []BlockInv
  BY BlockInvariance
<1> QED
  BY <1>1, <1>2, <1>3, PTL DEF Spec, UpdateInv

(* After every update utxoState holds exactly the outputs of the chain     *)
(* that nothing spends, however many blocks were rolled back on the way.   *)
THEOREM UtxoStateIsTheChains == ShallowForks /\ OnceEach => (Spec => []UtxoMatches)
<1> SUFFICES ASSUME ShallowForks, OnceEach PROVE Spec => []UtxoMatches
  OBVIOUS
<1>1. UpdateInv => UtxoMatches
  <2> SUFFICES ASSUME UpdateInv, pc = "idle" PROVE UtxoMatches
    BY DEF UtxoMatches
  <2>1. Live = Len(txFile) /\ DOMAIN txFile = 1..Len(txFile)
    BY LenFacts DEF UpdateInv, Live
  <2>2. /\ DOMAIN utxoState = Created(Len(txFile)) \ Consumed(Len(txFile))
        /\ \A p \in DOMAIN utxoState : Hash(utxoState[p].txNum + 1) = p[1]
    BY <2>1 DEF UpdateInv, StateInv, UtxoInv
  <2> DEFINE chainTxs == {txFile[n].hash : n \in DOMAIN txFile}
  <2>3. \A t : t \in chainTxs <=> \E n \in 1..Len(txFile) : t = Hash(n)
    BY <2>1 DEF Hash
  <2> DEFINE made == UNION {SpendableOuts(t) : t \in chainTxs}
             used == UNION {Spent(t) : t \in chainTxs}
  <2> HIDE DEF chainTxs
  <2>4. made = Created(Len(txFile)) /\ used = Consumed(Len(txFile))
    <3>1. \A p : p \in made <=> p \in Created(Len(txFile))
      BY <2>3, SetFacts
    <3>2. \A p : p \in used <=> p \in Consumed(Len(txFile))
      BY <2>3, SetFacts
    <3> HIDE DEF made, used
    <3> QED
      BY <3>1, <3>2
  <2> HIDE DEF made, used
  <2>5. DOMAIN utxoState = made \ used
    BY <2>2, <2>4
  <2>6. \A p \in DOMAIN utxoState : txFile[utxoState[p].txNum + 1].hash = p[1]
    BY <2>2 DEF Hash
  <2> QED
    BY <2>5, <2>6, Zenon DEF UtxoMatches, chainTxs, made, used
<1> QED
  BY UpdateInvariance, <1>1, PTL

(* While a transaction is undone the outputs that name it are as many as   *)
(* its inputs.                                                             *)
LEMMA UnspentCount ==
  ASSUME UpdateInv, pc = "undo", undo > FirstDeletedTx
  PROVE  Cardinality(Unspent) = Len(Undone.inputs)
<1> DEFINE t    == Hash(undo)
           m(k) == txFile[undo].inputs[k].linkedTxNum
           L    == Len(Ins[t])
           f    == [k \in 1..L |-> <<m(k), Ins[t][k][2]>>]
<1>1. undo \in 1..Len(txFile) /\ \A n \in 1..(undo - 1) : n \in 1..Len(txFile)
  BY UnspentFacts, LenFacts DEF UpdateInv
<1>2. /\ t \in DOMAIN Ins
      /\ Undone.inputs = [k \in DOMAIN Ins[t] |-> Undone.inputs[k]]
  BY <1>1 DEF UpdateInv, ShapeInv, RecordInv, Undone
<1>3. L \in Nat /\ DOMAIN Ins[t] = 1..L
  <2>1. Ins[t] \in Seq((DOMAIN Outs) \X (Nat \ {0}))
    BY <1>2, TxAssumption
  <2> QED
    BY <2>1, LenProperties
<1>4. Len(Undone.inputs) = L
  <2> DEFINE g(k) == Undone.inputs[k]
  <2>1. Undone.inputs = [k \in 1..L |-> g(k)]
    BY <1>2, <1>3
  <2> HIDE DEF g, L
  <2> QED
    BY <1>3, <2>1
<1>5. /\ \A q \in Unspent : \E n \in 1..(undo - 1) : \E i \in DOMAIN Outs[Hash(n)] :
           q = <<n - 1, i>> /\ <<Hash(n), i>> \in Spent(t)
      /\ \A k \in 1..L : /\ <<m(k), Ins[t][k][2]>> \in Unspent
                         /\ m(k) + 1 \in 1..(undo - 1)
                         /\ Ins[t][k] = <<Hash(m(k) + 1), Ins[t][k][2]>>
  BY <1>3, UnspentFacts
<1>6. \A k \in 1..L : m(k) \in Nat
  BY <1>1, <1>3 DEF UpdateInv, ShapeInv, InputInv
<1> HIDE DEF m, t, L
<1>7. /\ f \in [1..L -> Unspent]
      /\ \A k \in 1..L : f[k] = <<m(k), Ins[t][k][2]>>
  BY <1>5
<1> HIDE DEF f
<1>8. ASSUME NEW k \in 1..L, NEW l \in 1..L, f[k] = f[l] PROVE k = l
  <2>1. m(k) = m(l) /\ Ins[t][k][2] = Ins[t][l][2]
    BY <1>7, <1>8
  <2>2. Ins[t][k] = Ins[t][l]
    BY <1>5, <2>1
  <2> QED
    BY <1>1, <1>3, <2>2 DEF UpdateInv, ShapeInv, OnceSpentInv, t
<1>9. ASSUME NEW q \in Unspent PROVE \E k \in 1..L : f[k] = q
  <2>1. PICK n \in 1..(undo - 1) : \E i \in DOMAIN Outs[Hash(n)] :
          q = <<n - 1, i>> /\ <<Hash(n), i>> \in Spent(t)
    BY <1>5
  <2>2. PICK i : q = <<n - 1, i>> /\ <<Hash(n), i>> \in Spent(t)
    BY <2>1
  <2>3. PICK k \in 1..L : Ins[t][k] = <<Hash(n), i>>
    BY <1>3, <2>2 DEF Spent
  <2>4. Hash(m(k) + 1) = Hash(n) /\ Ins[t][k][2] = i /\ m(k) + 1 \in 1..Len(txFile)
    <3>1. /\ Ins[t][k] = <<Hash(m(k) + 1), Ins[t][k][2]>> /\ m(k) + 1 \in 1..(undo - 1)
      BY <1>5
    <3>2. Ins[t][k][1] = Hash(n) /\ Ins[t][k][2] = i
      BY <2>3
    <3>3. Ins[t][k][1] = Hash(m(k) + 1)
      BY <3>1
    <3> QED
      BY <1>1, <3>1, <3>2, <3>3
  <2>5. m(k) + 1 = n
    BY <1>1, <2>4 DEF UpdateInv, ShapeInv, UniqueInv
  <2>6. m(k) = n - 1
    BY <1>6, <2>5
  <2> QED
    BY <1>7, <2>2, <2>4, <2>6
<1>10. ExistsBijection(1..L, Unspent)
  BY <1>7, <1>8, <1>9 DEF ExistsBijection, Bijection, Injection, Surjection, IsInjective
<1>11. Cardinality(Unspent) = L
  BY <1>3, <1>10, FS_CountingElements
<1> QED
  BY <1>4, <1>11

(* After every update an output names the transaction that spends it and   *)
(* an input the transaction of its output, and a rollback finds every      *)
(* output the deleted transaction spent.                                   *)
THEOREM LinksAgree == ShallowForks /\ OnceEach => (Spec => []LinksMatch)
<1> SUFFICES ASSUME ShallowForks, OnceEach PROVE Spec => []LinksMatch
  OBVIOUS
<1>1. UpdateInv => LinksMatch
  <2> SUFFICES ASSUME UpdateInv PROVE LinksMatch
    OBVIOUS
  <2>1. ASSUME pc = "idle", NEW n \in DOMAIN txFile, NEW i \in DOMAIN txFile[n].outputs
        PROVE  LET p == <<txFile[n].hash, i>>
                   spenders == {m \in DOMAIN txFile : p \in Spent(txFile[m].hash)}
               IN  /\ spenders = {} => txFile[n].outputs[i].linkedTxNum = 0
                   /\ \A m \in spenders :
                        /\ txFile[n].outputs[i].linkedTxNum = m - 1
                        /\ \A k \in DOMAIN txFile[m].inputs :
                             Ins[txFile[m].hash][k] = p => txFile[m].inputs[k].linkedTxNum = n - 1
    <3> DEFINE spenders == {m \in DOMAIN txFile : <<txFile[n].hash, i>> \in Spent(txFile[m].hash)}
    <3>1. Live = Len(txFile) /\ DOMAIN txFile = 1..Len(txFile) /\ Len(txFile) \in Nat
      BY <2>1, LenFacts DEF UpdateInv, Live
    <3>2. i \in DOMAIN Outs[Hash(n)] /\ DOMAIN linkData = {}
      <4>1. DOMAIN txFile[n].outputs = DOMAIN Outs[Hash(n)]
        BY <3>1 DEF UpdateInv, ShapeInv, RecordInv
      <4>2. linkData = << >>
        BY <2>1 DEF UpdateInv, StateInv, PendingInv
      <4> QED
        BY <4>1, <4>2
    <3>3. \A m : m \in spenders <=> m \in 1..Len(txFile) /\ <<Hash(n), i>> \in Spent(Hash(m))
      BY <2>1, <3>1 DEF Hash
    <3> HIDE DEF spenders
    <3>4. /\ Link(n, i) # 0 => /\ Link(n, i) + 1 \in 1..Len(txFile)
                               /\ <<Hash(n), i>> \in Spent(Hash(Link(n, i) + 1))
          /\ \A m \in spenders : Link(n, i) = m - 1
      BY <2>1, <3>1, <3>2, <3>3 DEF UpdateInv, StateInv, LinkInv, SpenderInv
    <3>5. ASSUME NEW m \in spenders, NEW k \in DOMAIN txFile[m].inputs,
                 Ins[Hash(m)][k] = <<Hash(n), i>>
          PROVE  txFile[m].inputs[k].linkedTxNum = n - 1
      <4>1. m \in 1..Len(txFile)
        BY <3>3
      <4>2. k \in DOMAIN Ins[Hash(m)]
        <5>1. txFile[m].inputs = [j \in DOMAIN Ins[Hash(m)] |-> txFile[m].inputs[j]]
          BY <4>1 DEF UpdateInv, ShapeInv, RecordInv
        <5> QED
          BY <5>1, Zenon
      <4> DEFINE v == txFile[m].inputs[k].linkedTxNum
      <4>3. v \in Nat /\ v + 1 < m /\ Hash(v + 1) = Ins[Hash(m)][k][1]
        BY <4>1, <4>2 DEF UpdateInv, ShapeInv, InputInv
      <4>4. v + 1 \in 1..Len(txFile) /\ Hash(v + 1) = Hash(n)
        BY <3>1, <3>5, <4>1, <4>3
      <4>5. v + 1 = n
        BY <3>1, <4>4 DEF UpdateInv, ShapeInv, UniqueInv
      <4> QED
        BY <4>3, <4>5
    <3> QED
      BY <3>3, <3>4, <3>5 DEF Link, Hash, spenders
  <2>2. pc = "undo" /\ undo > FirstDeletedTx => Cardinality(Unspent) = Len(Undone.inputs)
    BY UnspentCount
  <2> QED
    BY <2>1, <2>2 DEF LinksMatch
<1> QED
  BY UpdateInvariance, <1>1, PTL

-----------------------------------------------------------------------------
(* What the last live transaction created nothing has spent: erasing it    *)
(* from the maps finds every key.                                          *)
LEMMA UndoFinds ==
  ASSUME UpdateInv, pc = "undo", undo > FirstDeletedTx
  PROVE  UndoHolds
<1>1. undo \in 1..Len(txFile) /\ Live = undo /\ Len(txFile) \in Nat
  BY UnspentFacts, LenFacts DEF UpdateInv
<1>2. /\ DOMAIN txFile[undo].outputs = DOMAIN Outs[Hash(undo)]
      /\ \A i \in DOMAIN Outs[Hash(undo)] :
           txFile[undo].outputs[i].type = TypeOf(Outs[Hash(undo)][i])
  BY <1>1 DEF UpdateInv, ShapeInv, RecordInv
<1>3. ASSUME NEW i \in UndoneOuts
      PROVE  /\ <<Hash(undo), i>> \in DOMAIN utxoState
             /\ <<undo - 1, i>> \in DOMAIN utxoScriptState
  <2> DEFINE p == <<Hash(undo), i>>
  <2>1. p \in SpendableOuts(Hash(undo))
    BY <1>2, OutFacts DEF UndoneOuts, Undone
  <2>2. p \in Created(undo)
    <3>1. undo \in 1..undo
      BY <1>1
    <3> QED
      BY <2>1, <3>1, SetFacts
  <2>3. ASSUME NEW m \in 1..undo, p \in Spent(Hash(m)) PROVE FALSE
    <3>1. PICK k \in DOMAIN Ins[Hash(m)] : Ins[Hash(m)][k] = p
      BY <2>3 DEF Spent
    <3> DEFINE v == txFile[m].inputs[k].linkedTxNum
    <3>2. m \in 1..Len(txFile)
      BY <1>1
    <3>3. v \in Nat /\ v + 1 < m /\ Hash(v + 1) = Hash(undo)
      BY <3>1, <3>2 DEF UpdateInv, ShapeInv, InputInv
    <3>4. v + 1 \in 1..Len(txFile)
      BY <1>1, <3>2, <3>3
    <3>5. v + 1 = undo
      BY <1>1, <3>3, <3>4 DEF UpdateInv, ShapeInv, UniqueInv
    <3> QED
      BY <1>1, <3>3, <3>5
  <2>4. p \in DOMAIN utxoState
    <3>1. p \notin Consumed(undo)
      BY <2>3, SetFacts
    <3> QED
      BY <1>1, <2>2, <3>1 DEF UpdateInv, StateInv, UtxoInv
  <2>5. /\ utxoState[p].txNum \in Nat /\ utxoState[p].txNum + 1 \in 1..undo
        /\ Hash(utxoState[p].txNum + 1) = p[1] /\ p[1] = Hash(undo) /\ p[2] = i
        /\ <<utxoState[p].txNum, p[2]>> \in DOMAIN utxoScriptState
    BY <1>1, <2>4 DEF UpdateInv, StateInv, UtxoInv, ScriptMapInv
  <2> HIDE DEF p
  <2>6. utxoState[p].txNum + 1 \in 1..Len(txFile)
    BY <1>1, <2>5
  <2>7. utxoState[p].txNum + 1 = undo
    BY <1>1, <2>5, <2>6 DEF UpdateInv, ShapeInv, UniqueInv
  <2>8. utxoState[p].txNum = undo - 1
    BY <2>5, <2>7
  <2> QED
    BY <2>4, <2>5, <2>8 DEF p
<1> QED
  BY <1>3 DEF UndoHolds, Holds, Undone, UndoneNum, Hash

(* A valid transaction finds what it spends in the maps.                   *)
LEMMA SpendFinds ==
  ASSUME ValidSpends, UpdateInv, pc = "add", Position <= Len(Txs[chainBlocks[next + 1]])
  PROVE  SpendHolds(NewTx)
<1>1. PICK b \in Block : \E h \in 1..Len(Ancestry[b]) : \E i \in DOMAIN Txs[Ancestry[b][h]] :
        /\ NewTx = Txs[Ancestry[b][h]][i]
        /\ \A n \in 1..Len(txFile) : Hash(n) \in Before(b, h, i)
        /\ \A u \in Before(b, h, i) : \E n \in 1..Len(txFile) : Hash(n) = u
  BY FileIsBefore
<1>2. PICK h, i :
        /\ h \in 1..Len(Ancestry[b]) /\ i \in DOMAIN Txs[Ancestry[b][h]]
        /\ NewTx = Txs[Ancestry[b][h]][i]
        /\ \A n \in 1..Len(txFile) : Hash(n) \in Before(b, h, i)
        /\ \A u \in Before(b, h, i) : \E n \in 1..Len(txFile) : Hash(n) = u
  BY <1>1
<1>3. /\ \A k, l \in DOMAIN Ins[NewTx] : Ins[NewTx][k] = Ins[NewTx][l] => k = l
      /\ \A p \in Spent(NewTx) : /\ \E u \in Before(b, h, i) : p \in SpendableOuts(u)
                                 /\ \A u \in Before(b, h, i) : p \notin Spent(u)
  BY <1>2 DEF ValidSpends
<1>4. Live = Len(txFile)
  BY DEF Live
<1>5. \A p \in Spent(NewTx) : /\ p \in DOMAIN utxoState
                              /\ <<utxoState[p].txNum, p[2]>> \in DOMAIN utxoScriptState
  <2> TAKE p \in Spent(NewTx)
  <2>1. p \in Created(Len(txFile))
    BY <1>2, <1>3, SetFacts
  <2>2. p \notin Consumed(Len(txFile))
    BY <1>2, <1>3, SetFacts
  <2> QED
    BY <1>4, <2>1, <2>2 DEF UpdateInv, StateInv, UtxoInv, ScriptMapInv
<1> QED
  BY <1>3, <1>5 DEF SpendHolds, Holds, SpentPointers

(* No update ended in an exception.                                        *)
NoThrow == pc # "failed"

(* On a valid chain no update and no rollback ends in an exception: the    *)
(* maps always hold the keys that are erased from them.                    *)
THEOREM UpdatesComplete ==
  ShallowForks /\ OnceEach /\ ValidSpends => (Spec => []NoThrow)
<1> SUFFICES ASSUME ShallowForks, OnceEach, ValidSpends PROVE Spec => []NoThrow
  OBVIOUS
<1>1. Init => NoThrow
  BY DEF Init, NoThrow
<1>2. UpdateInv /\ NoThrow /\ [Next]_vars => NoThrow'
  <2> SUFFICES ASSUME UpdateInv, pc # "failed", [Next]_vars PROVE pc' # "failed"
    BY DEF NoThrow
  <2>1. CASE AddTx
    BY <2>1, SpendFinds DEF AddTx, Process
  <2>2. CASE UndoTx
    BY <2>2, UndoFinds DEF UndoTx, Undo
  <2>3. CASE Discover \/ Start \/ UNCHANGED vars
    BY <2>3 DEF Discover, Start, AfterRollback, vars
  <2>4. CASE SaveUndone \/ Truncate \/ RollbackAddresses
    BY <2>4 DEF SaveUndone, Truncate, RollbackAddresses, AfterRollback
  <2>5. CASE EndBlock \/ BackUpdateTxes \/ Save
    BY <2>5 DEF EndBlock, BackUpdateTxes, Save
  <2> QED
    BY <2>1, <2>2, <2>3, <2>4, <2>5 DEF Next, Rollback, AddBlocks
<1> QED
  BY <1>1, <1>2, UpdateInvariance, PTL DEF Spec

(***************************************************************************)
(* The script numbers.  One thread gives a number to an address it has not *)
(* met, another appends a record for it, and a third looks the number up   *)
(* when the output is spent.  Until a block is rolled back they agree.     *)
(***************************************************************************)
Record(ty, num) == scriptFile[ty][num]

(* No phase of a rollback is entered.                                      *)
ForwardInv == pc \in {"idle", "add", "link", "save"}

(* The next number of a type is that of the next record.                   *)
IndexInv ==
  /\ \A ty \in Type : /\ scriptFile[ty] \in Seq(Range(scriptFile[ty]))
                      /\ scriptIndexes[ty] = Len(scriptFile[ty]) + 1
  /\ "scriptIndexes" \in DOMAIN saved
  /\ pc = "idle" => saved.scriptIndexes = scriptIndexes

(* A number leads to the record of address a, written for one of the first *)
(* n transactions.                                                         *)
LeadsTo(ty, num, a, n) ==
  /\ num \in DOMAIN scriptFile[ty]
  /\ Record(ty, num).address = a
  /\ Record(ty, num).txFirstSeen \in Nat /\ Record(ty, num).txFirstSeen < n

BookInv ==
  \A a \in DOMAIN addressDb : a \notin NullData /\ LeadsTo("PUBKEY", addressDb[a], a, Len(txFile))

OutputInv ==
  \A n \in 1..Len(txFile) : \A i \in DOMAIN Outs[Hash(n)] :
    LET a   == Outs[Hash(n)][i]
        num == txFile[n].outputs[i].scriptNum
    IN  /\ "scriptNum" \in DOMAIN txFile[n].outputs[i]
        /\ LeadsTo(TypeOf(a), num, a, n)
        /\ a \notin NullData => a \in DOMAIN addressDb /\ addressDb[a] = num

SpendInv ==
  \A n \in 1..Len(txFile) : \A k \in DOMAIN Ins[Hash(n)] :
    txFile[n].inputs[k].scriptNum =
      txFile[txFile[n].inputs[k].linkedTxNum + 1].outputs[Ins[Hash(n)][k][2]].scriptNum

(* utxoScriptState has the numbers of the unspent outputs, and nothing of  *)
(* transactions still to come, which add would not replace.                *)
MapNumberInv ==
  /\ \A p \in DOMAIN utxoState :
       utxoScriptState[<<utxoState[p].txNum, p[2]>>] =
         txFile[utxoState[p].txNum + 1].outputs[p[2]].scriptNum
  /\ \A q \in DOMAIN utxoScriptState : q[1] \in Nat /\ q[1] < Len(txFile)

ScriptInv ==
  pc # "failed" /\ ~rolledBack =>
    ForwardInv /\ IndexInv /\ BookInv /\ OutputInv /\ SpendInv /\ MapNumberInv

-----------------------------------------------------------------------------
(* Counting.  The elements of a finite set of numbers that are below one   *)
(* of them are fewer than all, and fewer below a smaller one.              *)
LEMMA RankFacts ==
  ASSUME NEW L \in Nat, NEW S, S \subseteq 1..L
  PROVE  /\ IsFiniteSet(S) /\ Cardinality(S) \in Nat
         /\ \A i \in S : LET r == Cardinality({j \in S : j < i})
                         IN  r \in Nat /\ r + 1 <= Cardinality(S)
         /\ \A i, k \in S :
              Cardinality({j \in S : j < i}) = Cardinality({j \in S : j < k}) => i = k
<1> DEFINE below(i) == {j \in S : j < i}
<1>1. IsFiniteSet(S) /\ Cardinality(S) \in Nat
  <2>1. IsFiniteSet(1..L)
    BY FS_Interval
  <2>2. IsFiniteSet(S)
    BY <2>1, FS_Subset
  <2> QED
    BY <2>2, FS_CardinalityType
<1>2. \A i : below(i) \in SUBSET S /\ IsFiniteSet(below(i)) /\ Cardinality(below(i)) \in Nat
  <2> TAKE i
  <2>1. below(i) \in SUBSET S
    OBVIOUS
  <2>2. IsFiniteSet(below(i))
    BY <1>1, <2>1, FS_Subset
  <2> QED
    BY <2>1, <2>2, FS_CardinalityType
<1>3. ASSUME NEW i \in S, NEW T, IsFiniteSet(T), Cardinality(T) \in Nat,
             below(i) \subseteq T, i \in T
      PROVE  Cardinality(below(i)) + 1 <= Cardinality(T)
  <2>1. i \notin below(i)
    <3>1. i \in Nat
      OBVIOUS
    <3> QED
      BY <3>1
  <2>2. below(i) \cup {i} \in SUBSET T
    BY <1>3
  <2> HIDE DEF below
  <2>3. Cardinality(below(i) \cup {i}) = Cardinality(below(i)) + 1
    BY <1>2, <2>1, FS_AddElement
  <2>4. Cardinality(below(i) \cup {i}) <= Cardinality(T)
    BY <1>3, <2>2, FS_Subset
  <2> QED
    BY <2>3, <2>4
<1>4. \A i \in S : Cardinality(below(i)) + 1 <= Cardinality(S)
  BY <1>1, <1>3
<1>5. ASSUME NEW i \in S, NEW k \in S, i < k
      PROVE  Cardinality(below(i)) # Cardinality(below(k))
  <2>1. i \in below(k) /\ below(i) \subseteq below(k)
    <3>1. i \in Nat /\ k \in Nat /\ \A j \in S : j \in Nat
      OBVIOUS
    <3>2. \A j \in S : j < i => j < k
      BY <1>5, <3>1
    <3> QED
      BY <1>5, <3>2
  <2>2. IsFiniteSet(below(k)) /\ Cardinality(below(k)) \in Nat /\ Cardinality(below(i)) \in Nat
    BY <1>2
  <2>3. Cardinality(below(i)) + 1 <= Cardinality(below(k))
    <3> HIDE DEF below
    <3> QED
      BY <1>3, <2>1, <2>2
  <2> HIDE DEF below
  <2> QED
    BY <2>2, <2>3
<1>6. ASSUME NEW i \in S, NEW k \in S, Cardinality(below(i)) = Cardinality(below(k))
      PROVE  i = k
  <2>1. i \in Nat /\ k \in Nat
    OBVIOUS
  <2>2. ~(i < k) /\ ~(k < i)
    <3> HIDE DEF below
    <3> QED
      BY <1>5, <1>6
  <2> QED
    BY <2>1, <2>2
<1> QED
  BY <1>1, <1>2, <1>4, <1>6

Less == {ss \in Nat \X Nat : ss[1] < ss[2]}

(* A set of natural numbers has a least one.                               *)
LEMMA LeastNumber ==
  ASSUME NEW T, T \subseteq Nat, T # {}
  PROVE  \E x \in T : \A y \in T : x <= y
<1>1. IsWellFoundedOn(Less, Nat)
  BY NatLessThanWellFounded, Zenon DEF OpToRel, Less
<1>2. PICK x \in T : \A y \in T : ~(<<y, x>> \in Less)
  BY <1>1, WFMin
<1>3. \A y \in T : x <= y
  <2> TAKE y \in T
  <2>1. x \in Nat /\ y \in Nat /\ ~(<<y, x>> \in Less)
    BY <1>2
  <2>2. ~(y < x)
    BY <2>1 DEF Less
  <2> QED
    BY <2>1, <2>2
<1> QED
  BY <1>3

(* The outputs of a transaction are numbered from 1.                       *)
LEMMA OutLen ==
  ASSUME NEW t \in DOMAIN Outs
  PROVE  Len(Outs[t]) \in Nat /\ DOMAIN Outs[t] = 1..Len(Outs[t])
<1>1. Outs[t] \in Seq({Outs[t][i] : i \in DOMAIN Outs[t]})
  BY TxAssumption
<1> QED
  BY <1>1, LenProperties

(* The new outputs of a type, and how many of them come before each.       *)
LEMMA NewOutFacts ==
  ASSUME NEW t \in DOMAIN Outs, NEW ty
  PROVE  LET new == NewOuts(Outs[t], ty)
         IN  /\ Cardinality(new) \in Nat
             /\ \A i \in new :
                  /\ i \in DOMAIN Outs[t] /\ TypeOf(Outs[t][i]) = ty /\ IsNew(Outs[t], i)
                  /\ NewBefore(Outs[t], i) \in Nat
                  /\ NewBefore(Outs[t], i) + 1 <= Cardinality(new)
                  /\ NewBefore(Outs[t], i) = Cardinality({j \in new : j < i})
             /\ \A i, k \in new : Cardinality({j \in new : j < i}) =
                                  Cardinality({j \in new : j < k}) => i = k
<1> DEFINE new == NewOuts(Outs[t], ty)
<1>1. Len(Outs[t]) \in Nat /\ DOMAIN Outs[t] = 1..Len(Outs[t])
  BY OutLen
<1>2. new \subseteq 1..Len(Outs[t])
  BY <1>1 DEF NewOuts
<1>3. \A i \in new : i \in DOMAIN Outs[t] /\ TypeOf(Outs[t][i]) = ty /\ IsNew(Outs[t], i)
  BY DEF NewOuts
<1>4. \A i \in new : NewBefore(Outs[t], i) = Cardinality({j \in new : j < i})
  BY <1>3 DEF NewBefore
<1> HIDE DEF new
<1>5. /\ Cardinality(new) \in Nat
      /\ \A i \in new : LET r == Cardinality({j \in new : j < i})
                        IN  r \in Nat /\ r + 1 <= Cardinality(new)
      /\ \A i, k \in new :
           Cardinality({j \in new : j < i}) = Cardinality({j \in new : j < k}) => i = k
  BY <1>1, <1>2, RankFacts
<1>6. \A i \in new : NewBefore(Outs[t], i) \in Nat /\ NewBefore(Outs[t], i) + 1 <= Cardinality(new)
  BY <1>4, <1>5
<1>7. Cardinality(new) \in Nat
  BY <1>5
<1>8. \A i, k \in new :
           Cardinality({j \in new : j < i}) = Cardinality({j \in new : j < k}) => i = k
  BY <1>5
<1> QED
  BY <1>3, <1>4, <1>6, <1>7, <1>8 DEF new

(* The writer's records for a type: the new address with r new ones before *)
(* it is the (r + 1)st.                                                    *)
LEMMA NewScriptFacts ==
  ASSUME NEW t \in DOMAIN Outs, NEW ty
  PROVE  /\ DOMAIN NewScripts(Outs[t], ty) = 1..Cardinality(NewOuts(Outs[t], ty))
         /\ \A i \in NewOuts(Outs[t], ty) :
              NewScripts(Outs[t], ty)[NewBefore(Outs[t], i) + 1] = Outs[t][i]
<1> DEFINE new == NewOuts(Outs[t], ty)
           rank(i) == Cardinality({j \in new : j < i})
           s(n) == Outs[t][CHOOSE i \in new : rank(i) = n - 1]
<1>1. NewScripts(Outs[t], ty) = [n \in 1..Cardinality(new) |-> s(n)]
  BY DEF NewScripts
<1>2. ASSUME NEW i \in new
      PROVE  NewScripts(Outs[t], ty)[NewBefore(Outs[t], i) + 1] = Outs[t][i]
  <2> DEFINE r == NewBefore(Outs[t], i)
  <2>1. r \in Nat /\ r + 1 <= Cardinality(new) /\ r = rank(i) /\ Cardinality(new) \in Nat
    BY <1>2, NewOutFacts
  <2>2. \A k \in new : rank(k) = rank(i) => k = i
    BY <1>2, NewOutFacts
  <2> HIDE DEF new, rank, r
  <2>3. r + 1 \in 1..Cardinality(new) /\ (r + 1) - 1 = r
    BY <2>1
  <2>4. \A k \in new : rank(k) = (r + 1) - 1 => k = i
    BY <2>1, <2>2, <2>3
  <2>5. rank(i) = (r + 1) - 1
    BY <2>1, <2>3
  <2>6. (CHOOSE k \in new : rank(k) = (r + 1) - 1) = i
    BY <1>2, <2>4, <2>5
  <2>7. s(r + 1) = Outs[t][i]
    BY <2>6
  <2> HIDE DEF s
  <2> QED
    BY <1>1, <2>3, <2>7 DEF r
<1> HIDE DEF s
<1>3. DOMAIN NewScripts(Outs[t], ty) = 1..Cardinality(new)
  BY <1>1
<1> QED
  BY <1>2, <1>3

(* The records of a type are the old ones and one for each new output, in  *)
(* the order of the outputs.                                               *)
LEMMA WrittenFacts ==
  ASSUME NEW t \in DOMAIN Outs, NEW ty \in Type,
         scriptFile[ty] \in Seq(Range(scriptFile[ty])), Len(txFile) \in Nat,
         SerializeAddresses(t)
  PROVE  LET L == Len(scriptFile[ty])
             C == Cardinality(NewOuts(Outs[t], ty))
         IN  /\ L \in Nat /\ C \in Nat
             /\ DOMAIN scriptFile[ty] = 1..L /\ DOMAIN scriptFile'[ty] = 1..(L + C)
             /\ scriptFile'[ty] \in Seq(Range(scriptFile'[ty])) /\ Len(scriptFile'[ty]) = L + C
             /\ \A m \in 1..L : m \in DOMAIN scriptFile'[ty] /\ scriptFile'[ty][m] = scriptFile[ty][m]
             /\ \A i \in NewOuts(Outs[t], ty) :
                  LET m == L + 1 + NewBefore(Outs[t], i)
                  IN  /\ m \in DOMAIN scriptFile'[ty]
                      /\ scriptFile'[ty][m].address = Outs[t][i]
                      /\ scriptFile'[ty][m].txFirstSeen = Len(txFile)
<1> DEFINE old == scriptFile[ty]
           new == NewScripts(Outs[t], ty)
           rec(i) == [address |-> new[i], txFirstSeen |-> Len(txFile)]
           add == [i \in DOMAIN new |-> rec(i)]
           L   == Len(old)
           C   == Cardinality(NewOuts(Outs[t], ty))
           S   == Range(old) \cup Range(add)
           all == scriptFile'[ty]
<1>1. all = old \o add
  BY DEF SerializeAddresses, TxCount
<1>2. /\ DOMAIN new = 1..C
      /\ \A i \in NewOuts(Outs[t], ty) : new[NewBefore(Outs[t], i) + 1] = Outs[t][i]
  BY NewScriptFacts
<1>3. /\ C \in Nat
      /\ \A i \in NewOuts(Outs[t], ty) :
           NewBefore(Outs[t], i) \in Nat /\ NewBefore(Outs[t], i) + 1 <= C
  BY NewOutFacts
<1>4. \A i : rec(i).address = new[i] /\ rec(i).txFirstSeen = Len(txFile)
  OBVIOUS
<1> HIDE DEF new, rec, C, all
<1>5. DOMAIN add = 1..C /\ \A i \in 1..C : add[i] = rec(i)
  BY <1>2
<1>6. add \in Seq(Range(add)) /\ Len(add) = C
  <2>1. add = [i \in DOMAIN add |-> add[i]]
    OBVIOUS
  <2>2. \A i \in 1..C : add[i] \in Range(add)
    BY <1>5 DEF Range
  <2> HIDE DEF add
  <2>3. add \in [1..C -> Range(add)]
    BY <1>5, <2>1, <2>2
  <2> QED
    BY <1>3, <2>3
<1> HIDE DEF add, old
<1>7. old \in Seq(S) /\ add \in Seq(S)
  BY <1>6, SeqMonotonic DEF old
<1> HIDE DEF S
<1>8. L \in Nat /\ DOMAIN old = 1..L
  BY <1>7, LenProperties
<1>9. /\ all \in Seq(S) /\ Len(all) = L + C
      /\ \A i \in 1..(L + C) : all[i] = IF i <= L THEN old[i] ELSE add[i - L]
  BY <1>1, <1>6, <1>7, ConcatProperties
<1>10. DOMAIN all = 1..(L + C) /\ all \in Seq(Range(all))
  BY <1>9, LenProperties, SeqOfRange
<1> HIDE DEF L
<1>11. \A m \in 1..L : m \in DOMAIN all /\ all[m] = old[m]
  <2> TAKE m \in 1..L
  <2>1. m \in 1..(L + C) /\ m <= L
    BY <1>3, <1>8
  <2> QED
    BY <1>9, <1>10, <2>1
<1>12. ASSUME NEW i \in NewOuts(Outs[t], ty), NEW m, m = L + 1 + NewBefore(Outs[t], i)
       PROVE  /\ m \in DOMAIN all /\ all[m].address = Outs[t][i]
              /\ all[m].txFirstSeen = Len(txFile)
  <2> DEFINE r == NewBefore(Outs[t], i)
  <2>1. r \in Nat /\ r + 1 <= C /\ new[r + 1] = Outs[t][i]
    BY <1>2, <1>3
  <2>2. m = L + 1 + r
    BY <1>12
  <2> HIDE DEF r
  <2>3. m \in 1..(L + C) /\ ~(m <= L) /\ m - L = r + 1 /\ r + 1 \in 1..C
    BY <1>3, <1>8, <2>1, <2>2
  <2>4. all[m] = rec(r + 1)
    BY <1>5, <1>9, <2>3
  <2> QED
    BY <1>4, <1>10, <2>1, <2>3, <2>4
<1>13. \A i \in NewOuts(Outs[t], ty) :
         LET m == L + 1 + NewBefore(Outs[t], i)
         IN  /\ m \in DOMAIN all /\ all[m].address = Outs[t][i]
             /\ all[m].txFirstSeen = Len(txFile)
  BY <1>12
<1> QED
  BY <1>3, <1>8, <1>9, <1>10, <1>11, <1>13 DEF all, C, L, old

(* An address that is not known and not an OP_RETURN is new where it first *)
(* occurs and nowhere else, and all its outputs get the number given there. *)
LEMMA FirstFacts ==
  ASSUME NEW t \in DOMAIN Outs, NEW i \in DOMAIN Outs[t],
         Outs[t][i] \notin NullData, Outs[t][i] \notin DOMAIN addressDb
  PROVE  \E f \in DOMAIN Outs[t] :
           /\ Outs[t][f] = Outs[t][i] /\ IsNew(Outs[t], f)
           /\ \A k \in DOMAIN Outs[t] : Outs[t][k] = Outs[t][i] /\ IsNew(Outs[t], k) => k = f
           /\ ScriptNum(Outs[t], i) = scriptIndexes[TypeOf(Outs[t][i])] + NewBefore(Outs[t], f)
<1> DEFINE T == {j \in DOMAIN Outs[t] : Outs[t][j] = Outs[t][i]}
           a == Outs[t][i]
<1>1. Len(Outs[t]) \in Nat /\ DOMAIN Outs[t] = 1..Len(Outs[t])
  BY OutLen
<1>2. T \subseteq Nat /\ i \in T
  BY <1>1
<1>3. PICK f \in T : \A j \in T : f <= j
  <2> HIDE DEF T
  <2> QED
    BY <1>2, LeastNumber
<1>4. f \in DOMAIN Outs[t] /\ Outs[t][f] = a /\ f <= i /\ f \in Nat /\ 1 <= f
      /\ \A j \in DOMAIN Outs[t] : Outs[t][j] = a => f <= j
  BY <1>1, <1>2, <1>3
<1>5. i \in Nat /\ i <= Len(Outs[t]) /\ f \in 1..i
  BY <1>1, <1>4
<1>6. IsNew(Outs[t], f)
  <2>1. ASSUME NEW j \in 1..(f - 1), Outs[t][j] = a PROVE FALSE
    <3>1. j \in DOMAIN Outs[t] /\ ~(f <= j)
      BY <1>1, <1>4
    <3> QED
      BY <1>4, <2>1, <3>1
  <2> QED
    BY <1>4, <2>1 DEF IsNew
<1>7. ASSUME NEW k \in DOMAIN Outs[t], Outs[t][k] = a, IsNew(Outs[t], k) PROVE k = f
  <2>1. \A j \in 1..(k - 1) : Outs[t][j] # a
    BY <1>7 DEF IsNew
  <2>2. f <= k /\ k \in Nat
    BY <1>1, <1>4, <1>7
  <2>3. f \notin 1..(k - 1)
    BY <1>4, <2>1
  <2> QED
    BY <1>4, <2>2, <2>3
<1>8. ScriptNum(Outs[t], i) = scriptIndexes[TypeOf(a)] + NewBefore(Outs[t], f)
  <2>1. CASE IsNew(Outs[t], i)
    <3>1. f = i
      BY <1>7, <2>1
    <3> QED
      BY <2>1, <3>1 DEF ScriptNum
  <2>2. CASE ~IsNew(Outs[t], i)
    <3> DEFINE first == CHOOSE j \in 1..i : Outs[t][j] = a /\ IsNew(Outs[t], j)
    <3>1. first \in 1..i /\ Outs[t][first] = a /\ IsNew(Outs[t], first)
      BY <1>4, <1>5, <1>6
    <3>2. first = f
      <4> HIDE DEF first
      <4>1. first \in DOMAIN Outs[t]
        BY <1>1, <1>5, <3>1
      <4> QED
        BY <1>7, <3>1, <4>1
    <3> QED
      BY <2>2, <3>2, Zenon DEF ScriptNum
  <2> QED
    BY <2>1, <2>2
<1> QED
  BY <1>4, <1>6, <1>7, <1>8

(* What processAddresses adds to the database.                             *)
LEMMA BookFacts ==
  ASSUME NEW t \in DOMAIN Outs, ProcessAddresses(t)
  PROVE  /\ \A a \in DOMAIN addressDb : a \in DOMAIN addressDb' /\ addressDb'[a] = addressDb[a]
         /\ \A i \in DOMAIN Outs[t] :
              Outs[t][i] \notin NullData =>
                /\ Outs[t][i] \in DOMAIN addressDb'
                /\ addressDb'[Outs[t][i]] = ScriptNum(Outs[t], i)
         /\ \A a \in DOMAIN addressDb' :
              \/ a \in DOMAIN addressDb
              \/ a \notin NullData /\ \E i \in DOMAIN Outs[t] : a = Outs[t][i]
<1> DEFINE new == {i \in DOMAIN Outs[t] : IsNew(Outs[t], i)}
           at(a) == CHOOSE i \in new : Outs[t][i] = a
           fresh == {Outs[t][i] : i \in new} \ NullData
           given == [a \in fresh |-> ScriptNum(Outs[t], at(a))]
<1>1. addressDb' = Add(addressDb, given)
  BY DEF ProcessAddresses
<1>2. DOMAIN given = fresh /\ \A a \in fresh : given[a] = ScriptNum(Outs[t], at(a))
  OBVIOUS
<1> HIDE DEF given
<1>3. /\ DOMAIN addressDb' = DOMAIN addressDb \cup fresh
      /\ \A a \in DOMAIN addressDb : addressDb'[a] = addressDb[a]
      /\ \A a \in fresh : a \notin DOMAIN addressDb => addressDb'[a] = ScriptNum(Outs[t], at(a))
  BY <1>1, <1>2 DEF Add
<1>4. ASSUME NEW i \in DOMAIN Outs[t], Outs[t][i] \notin NullData
      PROVE  Outs[t][i] \in DOMAIN addressDb' /\ addressDb'[Outs[t][i]] = ScriptNum(Outs[t], i)
  <2> DEFINE a == Outs[t][i]
  <2>1. CASE a \in DOMAIN addressDb
    <3>1. ~IsNew(Outs[t], i)
      BY <1>4, <2>1 DEF IsNew
    <3>2. ScriptNum(Outs[t], i) = addressDb[a]
      BY <2>1, <3>1 DEF ScriptNum
    <3> QED
      BY <1>3, <2>1, <3>2
  <2>2. CASE a \notin DOMAIN addressDb
    <3>1. PICK f \in DOMAIN Outs[t] :
           /\ Outs[t][f] = a /\ IsNew(Outs[t], f)
           /\ \A k \in DOMAIN Outs[t] : Outs[t][k] = a /\ IsNew(Outs[t], k) => k = f
           /\ ScriptNum(Outs[t], i) = scriptIndexes[TypeOf(a)] + NewBefore(Outs[t], f)
      BY <1>4, <2>2, FirstFacts
    <3>2. f \in new /\ a \in fresh
      BY <1>4, <3>1
    <3>3. at(a) = f
      <4>1. at(a) \in new /\ Outs[t][at(a)] = a
        BY <3>1, <3>2
      <4>2. \A k \in new : Outs[t][k] = a => k = f
        BY <3>1
      <4> HIDE DEF at, new
      <4> QED
        BY <4>1, <4>2
    <3>4. ScriptNum(Outs[t], f) = scriptIndexes[TypeOf(a)] + NewBefore(Outs[t], f)
      BY <3>1 DEF ScriptNum
    <3> HIDE DEF at, fresh
    <3> QED
      BY <1>3, <2>2, <3>1, <3>2, <3>3, <3>4
  <2> QED
    BY <2>1, <2>2
<1>5. \A a \in fresh : a \notin NullData /\ \E i \in DOMAIN Outs[t] : a = Outs[t][i]
  OBVIOUS
<1> HIDE DEF fresh, at
<1> QED
  BY <1>3, <1>4, <1>5

(* The number an output gets leads to a record of its address, written     *)
(* with this transaction or before.                                        *)
LEMMA NumberFacts ==
  ASSUME NEW t \in DOMAIN Outs, NEW i \in DOMAIN Outs[t], IndexInv, BookInv,
         Len(txFile) \in Nat, SerializeAddresses(t)
  PROVE  LET a   == Outs[t][i]
             f   == scriptFile'[TypeOf(a)]
             num == ScriptNum(Outs[t], i)
         IN  /\ num \in DOMAIN f /\ f[num].address = a
             /\ f[num].txFirstSeen \in Nat /\ f[num].txFirstSeen < Len(txFile) + 1
<1> DEFINE a   == Outs[t][i]
           ty  == TypeOf(a)
           f   == scriptFile'[ty]
           num == ScriptNum(Outs[t], i)
           L   == Len(scriptFile[ty])
<1>1. ty \in Type /\ (a \notin NullData => ty = "PUBKEY")
  BY DEF TypeOf, Type
<1>2. scriptFile[ty] \in Seq(Range(scriptFile[ty])) /\ scriptIndexes[ty] = L + 1
  BY <1>1 DEF IndexInv
<1>3. /\ L \in Nat /\ DOMAIN scriptFile[ty] = 1..L
      /\ \A m \in 1..L : m \in DOMAIN f /\ f[m] = scriptFile[ty][m]
      /\ \A k \in NewOuts(Outs[t], ty) :
           LET m == L + 1 + NewBefore(Outs[t], k)
           IN  /\ m \in DOMAIN f /\ f[m].address = Outs[t][k]
               /\ f[m].txFirstSeen = Len(txFile)
  <2> HIDE DEF ty
  <2> QED
    BY <1>1, <1>2, WrittenFacts
<1>4. ASSUME NEW k \in DOMAIN Outs[t], IsNew(Outs[t], k), Outs[t][k] = a,
             num = scriptIndexes[ty] + NewBefore(Outs[t], k)
      PROVE  /\ num \in DOMAIN f /\ f[num].address = a
             /\ f[num].txFirstSeen \in Nat /\ f[num].txFirstSeen < Len(txFile) + 1
  <2>1. k \in NewOuts(Outs[t], ty)
    BY <1>4 DEF NewOuts
  <2>2. num = L + 1 + NewBefore(Outs[t], k)
    BY <1>2, <1>4
  <2>3. num \in DOMAIN f /\ f[num].address = Outs[t][k] /\ f[num].txFirstSeen = Len(txFile)
    <3> HIDE DEF f, num, L, ty
    <3> QED
      BY <1>3, <2>1, <2>2
  <2> HIDE DEF f, num
  <2> QED
    BY <1>4, <2>3
<1>5. CASE IsNew(Outs[t], i)
  <2>1. num = scriptIndexes[ty] + NewBefore(Outs[t], i)
    BY <1>5 DEF ScriptNum
  <2> QED
    BY <1>4, <1>5, <2>1
<1>6. CASE ~IsNew(Outs[t], i) /\ a \in DOMAIN addressDb
  <2>1. num = addressDb[a]
    BY <1>6 DEF ScriptNum
  <2>2. a \notin NullData /\ LeadsTo("PUBKEY", num, a, Len(txFile))
    BY <1>6, <2>1 DEF BookInv
  <2>3. ty = "PUBKEY"
    BY <1>1, <2>2
  <2>4. /\ num \in DOMAIN scriptFile[ty] /\ scriptFile[ty][num].address = a
        /\ scriptFile[ty][num].txFirstSeen \in Nat
        /\ scriptFile[ty][num].txFirstSeen < Len(txFile)
    BY <2>2, <2>3 DEF LeadsTo, Record
  <2>5. num \in DOMAIN f /\ f[num] = scriptFile[ty][num]
    <3> HIDE DEF num, f, ty, L
    <3> QED
      BY <1>3, <2>4
  <2>6. /\ num \in DOMAIN f /\ f[num].address = a
        /\ f[num].txFirstSeen \in Nat /\ f[num].txFirstSeen < Len(txFile) + 1
    <3> HIDE DEF num, f, ty
    <3> QED
      BY <2>4, <2>5
  <2> QED
    BY <2>6
<1>7. CASE ~IsNew(Outs[t], i) /\ a \notin DOMAIN addressDb
  <2>1. a \notin NullData
    BY <1>7 DEF IsNew
  <2>2. PICK k \in DOMAIN Outs[t] :
          /\ Outs[t][k] = a /\ IsNew(Outs[t], k)
          /\ num = scriptIndexes[ty] + NewBefore(Outs[t], k)
    BY <1>7, <2>1, FirstFacts
  <2> QED
    BY <1>4, <2>2
<1> QED
  BY <1>5, <1>6, <1>7

(* The numbers of the record that is written.                              *)
LEMMA WrittenNumbers ==
  ASSUME BlockInv, NEW t, SerializeTransaction(t)
  PROVE  LET r == txFile'[Len(txFile) + 1]
         IN  /\ \A k \in DOMAIN Ins[t] :
                  r.inputs[k].scriptNum = utxoScriptState[<<utxoState[Ins[t][k]].txNum, Ins[t][k][2]>>]
             /\ \A i \in DOMAIN Outs[t] :
                  /\ "scriptNum" \in DOMAIN r.outputs[i]
                  /\ r.outputs[i].scriptNum = ScriptNum(Outs[t], i)
<1> DEFINE at(k) == <<utxoState[Ins[t][k]].txNum, Ins[t][k][2]>>
           ins   == [k \in DOMAIN Ins[t] |->
                       LET p == at(k)
                       IN  [linkedTxNum |-> p[1], scriptNum |-> utxoScriptState[p]]]
           outs  == [i \in DOMAIN Outs[t] |->
                       [linkedTxNum |-> 0, type |-> TypeOf(Outs[t][i]),
                        scriptNum |-> ScriptNum(Outs[t], i)]]
           r     == [hash |-> t, inputs |-> ins, outputs |-> outs]
<1>1. txFile' = Append(txFile, r)
  BY DEF SerializeTransaction
<1>2. \A k \in DOMAIN Ins[t] : ins[k].scriptNum = utxoScriptState[at(k)]
  OBVIOUS
<1>3. \A i \in DOMAIN Outs[t] :
           "scriptNum" \in DOMAIN outs[i] /\ outs[i].scriptNum = ScriptNum(Outs[t], i)
  OBVIOUS
<1> HIDE DEF ins, outs
<1>4. r.inputs = ins /\ r.outputs = outs
  OBVIOUS
<1> HIDE DEF r
<1>5. txFile'[Len(txFile) + 1] = r
  BY <1>1, GrownSeq DEF BlockInv, FileInv
<1> QED
  BY <1>2, <1>3, <1>4, <1>5

-----------------------------------------------------------------------------
(* Adding a transaction keeps the numbers right.                           *)
LEMMA ProcessNumbers ==
  ASSUME OnceEach, UpdateInv, ScriptInv, AddTx, SpendHolds(NewTx), rolledBack' = rolledBack
  PROVE  ScriptInv'
<1> SUFFICES ASSUME ~rolledBack
             PROVE  (ForwardInv /\ IndexInv /\ BookInv /\ OutputInv /\ SpendInv /\ MapNumberInv)'
  BY DEF ScriptInv
<1> DEFINE t == NewTx
           n == Len(txFile)
<1>1. /\ pc = "add" /\ Position <= Len(Txs[chainBlocks[next + 1]]) /\ Process(t)
      /\ UNCHANGED <<blockFile, saved>>
  BY DEF AddTx
<1>2. /\ pc' = pc /\ SerializeTransaction(t) /\ ConnectUTXOs(t) /\ RecordAddresses(t)
      /\ ProcessAddresses(t) /\ SerializeAddresses(t)
  BY <1>1 DEF Process
<1>3. ForwardInv /\ IndexInv /\ BookInv /\ OutputInv /\ SpendInv /\ MapNumberInv
  BY <1>1 DEF ScriptInv
<1>4. /\ t \in DOMAIN Ins /\ t \in DOMAIN Outs /\ \A m \in 1..n : Hash(m) # t
  BY <1>1, NewTxFacts
<1>5. \A p \in Spent(t) :
        /\ p \in DOMAIN utxoState
        /\ utxoState[p].txNum \in Nat /\ utxoState[p].txNum + 1 \in 1..n
        /\ Hash(utxoState[p].txNum + 1) = p[1]
        /\ p \in SpendableOuts(p[1]) /\ p = <<p[1], p[2]>> /\ p[2] \in DOMAIN Outs[p[1]]
  BY <1>1, SpentFacts
<1>6. TxCount = n /\ n \in Nat /\ Live = n
  BY <1>1, LenFacts DEF TxCount, UpdateInv, Live
<1> HIDE DEF t
<1>7. /\ Len(txFile') = n + 1
      /\ \A m \in 1..n : txFile'[m] = txFile[m]
      /\ txFile'[n + 1].hash = t
      /\ \A k \in DOMAIN Ins[t] :
           txFile'[n + 1].inputs[k].linkedTxNum = utxoState[Ins[t][k]].txNum
  BY <1>2, RecordFacts DEF UpdateInv
<1>8. /\ \A k \in DOMAIN Ins[t] :
           txFile'[n + 1].inputs[k].scriptNum =
             utxoScriptState[<<utxoState[Ins[t][k]].txNum, Ins[t][k][2]>>]
      /\ \A i \in DOMAIN Outs[t] :
           /\ "scriptNum" \in DOMAIN txFile'[n + 1].outputs[i]
           /\ txFile'[n + 1].outputs[i].scriptNum = ScriptNum(Outs[t], i)
  BY <1>2, WrittenNumbers DEF UpdateInv
<1>9. \A i \in DOMAIN Outs[t] :
        LET a   == Outs[t][i]
            f   == scriptFile'[TypeOf(a)]
            num == ScriptNum(Outs[t], i)
        IN  /\ num \in DOMAIN f /\ f[num].address = a
            /\ f[num].txFirstSeen \in Nat /\ f[num].txFirstSeen < n + 1
  BY <1>2, <1>3, <1>4, <1>6, NumberFacts
<1>10. /\ \A a \in DOMAIN addressDb : a \in DOMAIN addressDb' /\ addressDb'[a] = addressDb[a]
       /\ \A i \in DOMAIN Outs[t] :
            Outs[t][i] \notin NullData =>
              /\ Outs[t][i] \in DOMAIN addressDb'
              /\ addressDb'[Outs[t][i]] = ScriptNum(Outs[t], i)
       /\ \A a \in DOMAIN addressDb' :
            \/ a \in DOMAIN addressDb
            \/ a \notin NullData /\ \E i \in DOMAIN Outs[t] : a = Outs[t][i]
  BY <1>2, <1>4, BookFacts
<1>11. \A ty \in Type :
         /\ scriptFile'[ty] \in Seq(Range(scriptFile'[ty]))
         /\ Len(scriptFile[ty]) \in Nat /\ Cardinality(NewOuts(Outs[t], ty)) \in Nat
         /\ Len(scriptFile'[ty]) = Len(scriptFile[ty]) + Cardinality(NewOuts(Outs[t], ty))
         /\ \A m \in DOMAIN scriptFile[ty] :
              m \in DOMAIN scriptFile'[ty] /\ scriptFile'[ty][m] = scriptFile[ty][m]
  <2> TAKE ty \in Type
  <2>1. scriptFile[ty] \in Seq(Range(scriptFile[ty]))
    BY <1>3 DEF IndexInv
  <2>2. LET L == Len(scriptFile[ty])
            C == Cardinality(NewOuts(Outs[t], ty))
        IN  /\ L \in Nat /\ C \in Nat
            /\ DOMAIN scriptFile[ty] = 1..L
            /\ scriptFile'[ty] \in Seq(Range(scriptFile'[ty])) /\ Len(scriptFile'[ty]) = L + C
            /\ \A m \in 1..L : m \in DOMAIN scriptFile'[ty] /\ scriptFile'[ty][m] = scriptFile[ty][m]
    BY <1>2, <1>4, <1>6, <2>1, WrittenFacts
  <2> QED
    BY <2>2
<1> HIDE DEF n
<1>12. \A m \in 1..(n + 1) : m \in 1..n \/ m = n + 1
  BY <1>6
<1>13. /\ \A m \in 1..n : txFile'[m].hash = Hash(m) /\ m \in Nat /\ m <= n
       /\ txFile'[n + 1].hash = t
  BY <1>6, <1>7 DEF Hash
<1>15. ForwardInv'
  BY <1>1, <1>2 DEF ForwardInv
<1>16. IndexInv'
  <2>1. ASSUME NEW ty \in Type PROVE scriptIndexes'[ty] = Len(scriptFile'[ty]) + 1
    <3>1. scriptIndexes'[ty] = scriptIndexes[ty] + Len(NewScripts(Outs[t], ty))
      BY <1>2 DEF ProcessAddresses
    <3>2. Len(NewScripts(Outs[t], ty)) = Cardinality(NewOuts(Outs[t], ty))
      <4>1. DOMAIN NewScripts(Outs[t], ty) = 1..Cardinality(NewOuts(Outs[t], ty))
        BY <1>4, NewScriptFacts
      <4> QED
        BY <1>11, <4>1
    <3>3. scriptIndexes[ty] = Len(scriptFile[ty]) + 1
      BY <1>3 DEF IndexInv
    <3>4. /\ Len(scriptFile[ty]) \in Nat /\ Cardinality(NewOuts(Outs[t], ty)) \in Nat
          /\ Len(scriptFile'[ty]) = Len(scriptFile[ty]) + Cardinality(NewOuts(Outs[t], ty))
      BY <1>11
    <3> QED
      BY <3>1, <3>2, <3>3, <3>4
  <2>2. "scriptIndexes" \in DOMAIN saved' /\ pc' # "idle"
    BY <1>1, <1>2, <1>3 DEF IndexInv
  <2> QED
    BY <1>11, <2>1, <2>2 DEF IndexInv
<1>17. BookInv'
  <2> SUFFICES ASSUME NEW a \in DOMAIN addressDb'
               PROVE  /\ a \notin NullData
                      /\ addressDb'[a] \in DOMAIN scriptFile'["PUBKEY"]
                      /\ scriptFile'["PUBKEY"][addressDb'[a]].address = a
                      /\ scriptFile'["PUBKEY"][addressDb'[a]].txFirstSeen \in Nat
                      /\ scriptFile'["PUBKEY"][addressDb'[a]].txFirstSeen < n + 1
    BY <1>7 DEF BookInv, LeadsTo, Record
  <2>1. CASE a \in DOMAIN addressDb
    <3>1. a \notin NullData /\ LeadsTo("PUBKEY", addressDb[a], a, n)
      BY <1>3, <2>1 DEF BookInv, n
    <3>2. addressDb'[a] = addressDb[a] /\ "PUBKEY" \in Type
      BY <1>10, <2>1 DEF Type
    <3>3. /\ addressDb[a] \in DOMAIN scriptFile'["PUBKEY"]
          /\ scriptFile'["PUBKEY"][addressDb[a]] = scriptFile["PUBKEY"][addressDb[a]]
      BY <1>11, <3>1, <3>2 DEF LeadsTo
    <3>4. /\ scriptFile["PUBKEY"][addressDb[a]].address = a
          /\ scriptFile["PUBKEY"][addressDb[a]].txFirstSeen \in Nat
          /\ scriptFile["PUBKEY"][addressDb[a]].txFirstSeen < n
      BY <3>1 DEF LeadsTo, Record
    <3> QED
      BY <1>6, <3>1, <3>2, <3>3, <3>4
  <2>2. CASE a \notin DOMAIN addressDb
    <3>1. PICK i \in DOMAIN Outs[t] : a = Outs[t][i]
      BY <1>10, <2>2
    <3>2. a \notin NullData /\ addressDb'[a] = ScriptNum(Outs[t], i) /\ TypeOf(a) = "PUBKEY"
      BY <1>10, <2>2, <3>1 DEF TypeOf
    <3>3. /\ addressDb'[a] \in DOMAIN scriptFile'["PUBKEY"]
          /\ scriptFile'["PUBKEY"][addressDb'[a]].address = a
          /\ scriptFile'["PUBKEY"][addressDb'[a]].txFirstSeen \in Nat
          /\ scriptFile'["PUBKEY"][addressDb'[a]].txFirstSeen < n + 1
      BY <1>9, <3>1, <3>2
    <3> QED
      BY <3>2, <3>3
  <2> QED
    BY <2>1, <2>2
<1>18. OutputInv'
  <2> SUFFICES ASSUME NEW m \in 1..Len(txFile'), NEW i \in DOMAIN Outs[txFile'[m].hash]
               PROVE  LET a   == Outs[txFile'[m].hash][i]
                          num == txFile'[m].outputs[i].scriptNum
                          f   == scriptFile'[TypeOf(a)]
                      IN  /\ "scriptNum" \in DOMAIN txFile'[m].outputs[i]
                          /\ num \in DOMAIN f /\ f[num].address = a
                          /\ f[num].txFirstSeen \in Nat /\ f[num].txFirstSeen < m
                          /\ a \notin NullData => a \in DOMAIN addressDb' /\ addressDb'[a] = num
    BY Zenon DEF OutputInv, LeadsTo, Record, Hash
  <2> DEFINE u   == txFile'[m].hash
             a   == Outs[u][i]
             num == txFile'[m].outputs[i].scriptNum
  <2> SUFFICES /\ "scriptNum" \in DOMAIN txFile'[m].outputs[i]
               /\ num \in DOMAIN scriptFile'[TypeOf(a)]
               /\ scriptFile'[TypeOf(a)][num].address = a
               /\ scriptFile'[TypeOf(a)][num].txFirstSeen \in Nat
               /\ scriptFile'[TypeOf(a)][num].txFirstSeen < m
               /\ a \notin NullData => a \in DOMAIN addressDb' /\ addressDb'[a] = num
    BY Zenon
  <2> /\ m \in 1..(n + 1) /\ i \in DOMAIN Outs[u] /\ u = txFile'[m].hash
      /\ a = Outs[u][i] /\ num = txFile'[m].outputs[i].scriptNum
    BY <1>7
  <2> HIDE DEF u, a, num
  <2>1. CASE m \in 1..n
    <3>1. u = Hash(m) /\ num = txFile[m].outputs[i].scriptNum
      BY <1>7, <1>13, <2>1
    <3>2. /\ "scriptNum" \in DOMAIN txFile[m].outputs[i]
          /\ LeadsTo(TypeOf(a), num, a, m)
          /\ a \notin NullData => a \in DOMAIN addressDb /\ addressDb[a] = num
      BY <1>3, <2>1, <3>1 DEF OutputInv, n
    <3>3. TypeOf(a) \in Type
      BY DEF TypeOf, Type
    <3>4. num \in DOMAIN scriptFile'[TypeOf(a)] /\
          scriptFile'[TypeOf(a)][num] = scriptFile[TypeOf(a)][num]
      BY <1>11, <3>2, <3>3 DEF LeadsTo
    <3>5. "scriptNum" \in DOMAIN txFile'[m].outputs[i]
      BY <1>7, <2>1, <3>2
    <3> QED
      BY <1>10, <3>2, <3>4, <3>5 DEF LeadsTo, Record
  <2>2. CASE m = n + 1
    <3>1. u = t /\ num = ScriptNum(Outs[t], i) /\ "scriptNum" \in DOMAIN txFile'[m].outputs[i]
      BY <1>8, <1>13, <2>2
    <3>2. /\ num \in DOMAIN scriptFile'[TypeOf(a)]
          /\ scriptFile'[TypeOf(a)][num].address = a
          /\ scriptFile'[TypeOf(a)][num].txFirstSeen \in Nat
          /\ scriptFile'[TypeOf(a)][num].txFirstSeen < n + 1
      BY <1>9, <3>1
    <3> QED
      BY <1>10, <2>2, <3>1, <3>2
  <2> QED
    BY <1>12, <2>1, <2>2
<1>19. \A p \in DOMAIN utxoState :
         /\ utxoState[p].txNum \in Nat /\ utxoState[p].txNum + 1 \in 1..n
         /\ utxoScriptState[<<utxoState[p].txNum, p[2]>>] =
              txFile[utxoState[p].txNum + 1].outputs[p[2]].scriptNum
  <2>1. pc # "failed"
    BY <1>1
  <2> QED
    BY <1>3, <1>6, <2>1 DEF MapNumberInv, UpdateInv, StateInv, UtxoInv
<1>20. SpendInv'
  <2> SUFFICES ASSUME NEW m \in 1..Len(txFile'), NEW k \in DOMAIN Ins[txFile'[m].hash]
               PROVE  txFile'[m].inputs[k].scriptNum =
                        txFile'[txFile'[m].inputs[k].linkedTxNum + 1]
                          .outputs[Ins[txFile'[m].hash][k][2]].scriptNum
    BY Zenon DEF SpendInv, Hash
  <2> DEFINE u == txFile'[m].hash
             v == txFile'[m].inputs[k].linkedTxNum
  <2> SUFFICES txFile'[m].inputs[k].scriptNum = txFile'[v + 1].outputs[Ins[u][k][2]].scriptNum
    BY Zenon
  <2> /\ m \in 1..(n + 1) /\ k \in DOMAIN Ins[u]
      /\ u = txFile'[m].hash /\ v = txFile'[m].inputs[k].linkedTxNum
    BY <1>7
  <2> HIDE DEF u, v
  <2>1. CASE m \in 1..n
    <3>1. u = Hash(m) /\ txFile'[m] = txFile[m]
      BY <1>7, <1>13, <2>1
    <3>2. txFile[m].inputs[k].scriptNum = txFile[v + 1].outputs[Ins[u][k][2]].scriptNum
      BY <1>3, <2>1, <3>1 DEF SpendInv, n
    <3>3. v \in Nat /\ v + 1 < m
      BY <2>1, <3>1 DEF UpdateInv, ShapeInv, InputInv, n
    <3>4. v + 1 \in 1..n
      BY <1>6, <2>1, <3>3
    <3> QED
      BY <1>7, <3>1, <3>2, <3>4
  <2>2. CASE m = n + 1
    <3> DEFINE p == Ins[t][k]
    <3>1. u = t /\ p \in Spent(t)
      BY <1>13, <2>2 DEF Spent
    <3>2. v = utxoState[p].txNum
      BY <1>7, <2>2, <3>1
    <3>3. p \in DOMAIN utxoState /\ v \in Nat /\ v + 1 \in 1..n
      BY <1>5, <3>1, <3>2
    <3>4. txFile'[m].inputs[k].scriptNum = utxoScriptState[<<v, p[2]>>]
      BY <1>8, <2>2, <3>1, <3>2
    <3>5. utxoScriptState[<<v, p[2]>>] = txFile[v + 1].outputs[p[2]].scriptNum
      BY <1>19, <3>2, <3>3
    <3> QED
      BY <1>7, <3>1, <3>3, <3>4, <3>5
  <2> QED
    BY <1>12, <2>1, <2>2
<1>21. MapNumberInv'
  <2> DEFINE new == [p \in {<<n, i>> : i \in DOMAIN Outs[t]} |-> ScriptNum(Outs[t], p[2])]
             newOut == [p \in SpendableOuts(t) |->
                          [txNum |-> n, type |-> TypeOf(Outs[t][p[2]])]]
  <2>1. /\ utxoScriptState' = Add(Erase(utxoScriptState, SpentPointers(t)), new)
        /\ utxoState' = Add(Erase(utxoState, Spent(t)), newOut)
    BY <1>2, <1>6 DEF RecordAddresses, ConnectUTXOs
  <2>2. /\ DOMAIN new = {<<n, i>> : i \in DOMAIN Outs[t]}
        /\ \A i \in DOMAIN Outs[t] : new[<<n, i>>] = ScriptNum(Outs[t], i)
        /\ DOMAIN newOut = SpendableOuts(t) /\ \A p \in SpendableOuts(t) : newOut[p].txNum = n
    OBVIOUS
  <2> HIDE DEF new, newOut
  <2>3. /\ DOMAIN utxoScriptState' = (DOMAIN utxoScriptState \ SpentPointers(t)) \cup DOMAIN new
        /\ \A q \in DOMAIN utxoScriptState \ SpentPointers(t) :
             utxoScriptState'[q] = utxoScriptState[q]
        /\ \A q \in DOMAIN new : q \notin DOMAIN utxoScriptState =>
             utxoScriptState'[q] = new[q]
    BY <2>1 DEF Add, Erase
  <2>4. /\ DOMAIN utxoState' = (DOMAIN utxoState \ Spent(t)) \cup DOMAIN newOut
        /\ \A p \in DOMAIN utxoState \ Spent(t) : utxoState'[p] = utxoState[p]
        /\ \A p \in DOMAIN newOut : p \notin DOMAIN utxoState => utxoState'[p] = newOut[p]
    BY <2>1 DEF Add, Erase
  <2>5. \A q \in DOMAIN utxoScriptState : q[1] \in Nat /\ q[1] < n
    BY <1>3 DEF MapNumberInv, n
  <2>6. ASSUME NEW i \in DOMAIN Outs[t]
        PROVE  utxoScriptState'[<<n, i>>] = ScriptNum(Outs[t], i)
    <3>1. <<n, i>> \in DOMAIN new /\ <<n, i>>[1] = n
      BY <2>2
    <3>2. <<n, i>> \notin DOMAIN utxoScriptState
      BY <1>6, <2>5, <3>1
    <3> QED
      BY <2>2, <2>3, <3>1, <3>2
  <2>7. ASSUME NEW p \in DOMAIN utxoState, p \notin Spent(t)
        PROVE  /\ p \in DOMAIN utxoState' /\ utxoState'[p] = utxoState[p]
               /\ utxoScriptState'[<<utxoState[p].txNum, p[2]>>] =
                    utxoScriptState[<<utxoState[p].txNum, p[2]>>]
    <3>1. <<utxoState[p].txNum, p[2]>> \in DOMAIN utxoScriptState
      BY <1>1 DEF UpdateInv, StateInv, ScriptMapInv
    <3>2. p = <<p[1], p[2]>> /\ Hash(utxoState[p].txNum + 1) = p[1]
      <4>1. p \in Created(n) /\ Hash(utxoState[p].txNum + 1) = p[1]
        BY <1>1, <1>6 DEF UpdateInv, StateInv, UtxoInv
      <4>2. PICK m \in 1..n : p \in SpendableOuts(Hash(m))
        BY <4>1, SetFacts
      <4> QED
        BY <4>1, <4>2, OutFacts
    <3>3. ASSUME NEW q \in Spent(t), <<utxoState[p].txNum, p[2]>> = <<utxoState[q].txNum, q[2]>>
          PROVE  FALSE
      <4>1. utxoState[p].txNum = utxoState[q].txNum /\ p[2] = q[2]
        BY <3>3
      <4>2. q = <<q[1], q[2]>> /\ Hash(utxoState[q].txNum + 1) = q[1]
        BY <1>5
      <4>3. p = q
        BY <3>2, <4>1, <4>2
      <4> QED
        BY <2>7, <4>3
    <3>4. <<utxoState[p].txNum, p[2]>> \notin SpentPointers(t)
      BY <3>3 DEF SpentPointers
    <3> QED
      BY <2>3, <2>4, <2>7, <3>1, <3>4
  <2>8. ASSUME NEW p \in DOMAIN utxoState', NEW v, v = utxoState'[p].txNum
        PROVE  utxoScriptState'[<<v, p[2]>>] = txFile'[v + 1].outputs[p[2]].scriptNum
    <3>1. CASE p \in DOMAIN utxoState /\ p \notin Spent(t)
      <4>1. v = utxoState[p].txNum /\ utxoScriptState'[<<v, p[2]>>] = utxoScriptState[<<v, p[2]>>]
        BY <2>7, <2>8, <3>1
      <4>2. v + 1 \in 1..n /\ utxoScriptState[<<v, p[2]>>] = txFile[v + 1].outputs[p[2]].scriptNum
        BY <1>19, <3>1, <4>1
      <4> QED
        BY <1>7, <4>1, <4>2
    <3>2. CASE ~(p \in DOMAIN utxoState /\ p \notin Spent(t))
      <4>1. p \in SpendableOuts(t)
        BY <2>2, <2>4, <3>2
      <4>2. p[1] = t /\ p[2] \in DOMAIN Outs[t]
        BY <4>1, OutFacts
      <4>3. p \notin DOMAIN utxoState
        <5>1. SUFFICES ASSUME p \in DOMAIN utxoState PROVE FALSE
          OBVIOUS
        <5>2. utxoState[p].txNum + 1 \in 1..n /\ Hash(utxoState[p].txNum + 1) = p[1]
          BY <1>1, <1>6, <5>1 DEF UpdateInv, StateInv, UtxoInv
        <5> QED
          BY <1>4, <4>2, <5>2 DEF n
      <4>4. v = n
        BY <2>2, <2>4, <2>8, <4>1, <4>3
      <4> QED
        BY <1>8, <2>6, <4>2, <4>4
    <3> QED
      BY <3>1, <3>2
  <2>9. ASSUME NEW q \in DOMAIN utxoScriptState' PROVE q[1] \in Nat /\ q[1] < n + 1
    <3>1. CASE q \in DOMAIN utxoScriptState
      BY <1>6, <2>5, <3>1
    <3>2. CASE q \in DOMAIN new
      <4>1. q[1] = n
        BY <2>2, <3>2
      <4> QED
        BY <1>6, <4>1
    <3> QED
      BY <2>3, <3>1, <3>2
  <2> QED
    BY <1>7, <2>8, <2>9 DEF MapNumberInv
<1> QED
  BY <1>15, <1>16, <1>17, <1>18, <1>20, <1>21

-----------------------------------------------------------------------------
(* A step that leaves the addresses, the maps and the numbers in the       *)
(* records keeps what they say of each other.                              *)
LEMMA NumbersKept ==
  ASSUME UpdateInv, ScriptInv, pc # "failed", ~rolledBack, ForwardInv',
         UNCHANGED <<utxoState, utxoScriptState, addressDb, scriptIndexes, scriptFile>>,
         Len(txFile') = Len(txFile),
         \A n \in 1..Len(txFile) :
           /\ txFile'[n].hash = txFile[n].hash /\ txFile'[n].inputs = txFile[n].inputs
           /\ \A i \in DOMAIN Outs[Hash(n)] :
                /\ "scriptNum" \in DOMAIN txFile'[n].outputs[i]
                /\ txFile'[n].outputs[i].scriptNum = txFile[n].outputs[i].scriptNum,
         "scriptIndexes" \in DOMAIN saved',
         pc' = "idle" => saved'.scriptIndexes = scriptIndexes
  PROVE  ScriptInv'
<1>1. ForwardInv /\ IndexInv /\ BookInv /\ OutputInv /\ SpendInv /\ MapNumberInv
  BY DEF ScriptInv
<1>2. IndexInv'
  BY <1>1 DEF IndexInv
<1>3. BookInv'
  BY <1>1 DEF BookInv, LeadsTo, Record
<1>4. OutputInv'
  <2> SUFFICES ASSUME NEW n \in 1..Len(txFile'), NEW i \in DOMAIN Outs[txFile'[n].hash]
               PROVE  LET a   == Outs[txFile'[n].hash][i]
                          num == txFile'[n].outputs[i].scriptNum
                          f   == scriptFile'[TypeOf(a)]
                      IN  /\ "scriptNum" \in DOMAIN txFile'[n].outputs[i]
                          /\ num \in DOMAIN f /\ f[num].address = a
                          /\ f[num].txFirstSeen \in Nat /\ f[num].txFirstSeen < n
                          /\ a \notin NullData => a \in DOMAIN addressDb' /\ addressDb'[a] = num
    BY Zenon DEF OutputInv, LeadsTo, Record, Hash
  <2> DEFINE u   == txFile'[n].hash
             a   == Outs[u][i]
             num == txFile'[n].outputs[i].scriptNum
  <2> SUFFICES /\ "scriptNum" \in DOMAIN txFile'[n].outputs[i]
               /\ num \in DOMAIN scriptFile'[TypeOf(a)]
               /\ scriptFile'[TypeOf(a)][num].address = a
               /\ scriptFile'[TypeOf(a)][num].txFirstSeen \in Nat
               /\ scriptFile'[TypeOf(a)][num].txFirstSeen < n
               /\ a \notin NullData => a \in DOMAIN addressDb' /\ addressDb'[a] = num
    BY Zenon
  <2> /\ i \in DOMAIN Outs[u] /\ u = txFile'[n].hash
      /\ a = Outs[u][i] /\ num = txFile'[n].outputs[i].scriptNum
    OBVIOUS
  <2> HIDE DEF u, a, num
  <2>1. u = Hash(n) /\ n \in 1..Len(txFile)
    BY DEF Hash
  <2>2. /\ "scriptNum" \in DOMAIN txFile'[n].outputs[i]
        /\ num = txFile[n].outputs[i].scriptNum
    BY <2>1
  <2>3. /\ LeadsTo(TypeOf(a), num, a, n)
        /\ a \notin NullData => a \in DOMAIN addressDb /\ addressDb[a] = num
    BY <1>1, <2>1, <2>2 DEF OutputInv
  <2> QED
    BY <2>2, <2>3 DEF LeadsTo, Record
<1>5. Len(txFile) \in Nat
  BY LenFacts DEF UpdateInv
<1>6. SpendInv'
  <2>1. ASSUME NEW n \in 1..Len(txFile'), NEW k \in DOMAIN Ins[txFile'[n].hash]
        PROVE  txFile'[n].inputs[k].scriptNum =
                 txFile'[txFile'[n].inputs[k].linkedTxNum + 1].outputs[Ins[txFile'[n].hash][k][2]].scriptNum
    <3> DEFINE u == txFile'[n].hash
               v == txFile'[n].inputs[k].linkedTxNum
    <3>1. /\ u = Hash(n) /\ n \in 1..Len(txFile) /\ txFile'[n].inputs = txFile[n].inputs
          /\ v = txFile[n].inputs[k].linkedTxNum
      BY <2>1 DEF Hash
    <3> HIDE DEF v
    <3> DEFINE p == Ins[Hash(n)][k]
    <3>2. v \in Nat /\ v + 1 < n /\ Hash(v + 1) = p[1] /\ p \in SpendableOuts(p[1])
      BY <3>1 DEF UpdateInv, ShapeInv, InputInv
    <3>3. v + 1 \in 1..Len(txFile) /\ p[2] \in DOMAIN Outs[Hash(v + 1)]
      <4>1. p[2] \in DOMAIN Outs[p[1]]
        BY <3>2, OutFacts
      <4> QED
        BY <1>5, <3>1, <3>2, <4>1
    <3>4. txFile[n].inputs[k].scriptNum = txFile[v + 1].outputs[p[2]].scriptNum
      BY <1>1, <3>1 DEF SpendInv
    <3> QED
      BY <3>1, <3>3, <3>4 DEF v
  <2>2. \A n \in 1..Len(txFile') : \A k \in DOMAIN Ins[txFile'[n].hash] :
          txFile'[n].inputs[k].scriptNum =
            txFile'[txFile'[n].inputs[k].linkedTxNum + 1].outputs[Ins[txFile'[n].hash][k][2]].scriptNum
    BY <2>1, Zenon
  <2> QED
    BY <2>2, Zenon DEF SpendInv, Hash
<1>7. MapNumberInv'
  <2> SUFFICES ASSUME NEW p \in DOMAIN utxoState, NEW v, v = utxoState[p].txNum
               PROVE  utxoScriptState[<<v, p[2]>>] = txFile'[v + 1].outputs[p[2]].scriptNum
    BY <1>1 DEF MapNumberInv
  <2>1. utxoScriptState[<<v, p[2]>>] = txFile[v + 1].outputs[p[2]].scriptNum
    BY <1>1 DEF MapNumberInv
  <2>2. Live = Len(txFile)
    BY <1>1 DEF Live, ForwardInv
  <2>3. v + 1 \in 1..Len(txFile) /\ Hash(v + 1) = p[1] /\ p \in Created(Len(txFile))
    BY <2>2 DEF UpdateInv, StateInv, UtxoInv
  <2>4. PICK m \in 1..Len(txFile) : p \in SpendableOuts(Hash(m))
    BY <2>3, SetFacts
  <2>5. p[1] = Hash(m) /\ p[2] \in DOMAIN Outs[Hash(m)]
    BY <2>4, OutFacts
  <2> QED
    BY <2>1, <2>3, <2>5
<1> QED
  BY <1>2, <1>3, <1>4, <1>6, <1>7 DEF ScriptInv

(* ... in particular one that leaves the transactions.                     *)
LEMMA NumbersSame ==
  ASSUME UpdateInv, ScriptInv, pc # "failed", ~rolledBack, ForwardInv',
         UNCHANGED <<utxoState, utxoScriptState, addressDb, scriptIndexes, scriptFile, txFile>>,
         "scriptIndexes" \in DOMAIN saved',
         pc' = "idle" => saved'.scriptIndexes = scriptIndexes
  PROVE  ScriptInv'
<1>1. ForwardInv /\ IndexInv /\ BookInv /\ OutputInv /\ SpendInv /\ MapNumberInv
  BY DEF ScriptInv
<1>2. \A n \in 1..Len(txFile) : \A i \in DOMAIN Outs[Hash(n)] :
        "scriptNum" \in DOMAIN txFile[n].outputs[i]
  BY <1>1 DEF OutputInv
<1>3. Len(txFile') = Len(txFile)
  OBVIOUS
<1>4. \A n \in 1..Len(txFile) :
           /\ txFile'[n].hash = txFile[n].hash /\ txFile'[n].inputs = txFile[n].inputs
           /\ \A i \in DOMAIN Outs[Hash(n)] :
                /\ "scriptNum" \in DOMAIN txFile'[n].outputs[i]
                /\ txFile'[n].outputs[i].scriptNum = txFile[n].outputs[i].scriptNum
  BY <1>2
<1> QED
  BY <1>3, <1>4, NumbersKept

(* Linking changes no number.                                              *)
LEMMA BackUpdateNumbers ==
  ASSUME UpdateInv, ScriptInv, BackUpdateTxes, ~rolledBack
  PROVE  ScriptInv'
<1>1. /\ pc = "link" /\ pc' \in {"add", "save"}
      /\ UNCHANGED <<utxoState, utxoScriptState, addressDb, scriptIndexes, scriptFile, saved>>
  BY DEF BackUpdateTxes, maps, addresses
<1>2. ForwardInv /\ IndexInv /\ BookInv /\ OutputInv /\ SpendInv /\ MapNumberInv
  BY <1>1 DEF ScriptInv
<1>3. txFile' = [m \in DOMAIN txFile |->
                  [txFile[m] EXCEPT !.outputs =
                     [j \in DOMAIN @ |-> [@[j] EXCEPT !.linkedTxNum = Linked(<<m - 1, j>>)]]]]
  BY DEF BackUpdateTxes
<1>4. Len(txFile) \in Nat /\ DOMAIN txFile = 1..Len(txFile)
  BY LenFacts DEF UpdateInv
<1>5. Len(txFile') = Len(txFile)
  <2>1. txFile' = [i \in DOMAIN txFile' |-> txFile'[i]] /\ DOMAIN txFile' = DOMAIN txFile
    BY <1>3
  <2> QED
    BY <2>1, KeptSeq DEF UpdateInv, BlockInv, FileInv
<1>6. ASSUME NEW n \in 1..Len(txFile)
      PROVE  /\ txFile'[n].hash = txFile[n].hash /\ txFile'[n].inputs = txFile[n].inputs
             /\ \A i \in DOMAIN Outs[Hash(n)] :
                  /\ "scriptNum" \in DOMAIN txFile'[n].outputs[i]
                  /\ txFile'[n].outputs[i].scriptNum = txFile[n].outputs[i].scriptNum
  <2> DEFINE o == txFile[n].outputs
             upd(m) == [txFile[m] EXCEPT !.outputs =
                   [j \in DOMAIN @ |-> [@[j] EXCEPT !.linkedTxNum = Linked(<<m - 1, j>>)]]]
  <2>1. txFile'[n] = upd(n)
    <3>1. n \in DOMAIN txFile
      BY <1>4
    <3>2. txFile' = [m \in DOMAIN txFile |-> upd(m)]
      BY <1>3, Zenon
    <3> HIDE DEF upd
    <3> QED
      BY <3>1, <3>2
  <2>2. /\ "hash" \in DOMAIN txFile[n] /\ "inputs" \in DOMAIN txFile[n]
        /\ "outputs" \in DOMAIN txFile[n] /\ DOMAIN o = DOMAIN Outs[Hash(n)]
    BY <1>4 DEF UpdateInv, BlockInv, FileInv, ShapeInv, RecordInv
  <2>3. \A i \in DOMAIN o : "scriptNum" \in DOMAIN o[i]
    BY <1>2, <2>2 DEF OutputInv
  <2>4. /\ txFile'[n].hash = txFile[n].hash /\ txFile'[n].inputs = txFile[n].inputs
        /\ txFile'[n].outputs = [j \in DOMAIN o |-> [o[j] EXCEPT !.linkedTxNum = Linked(<<n - 1, j>>)]]
    BY <2>1, <2>2
  <2>5. \A i \in DOMAIN o : txFile'[n].outputs[i] = [o[i] EXCEPT !.linkedTxNum = Linked(<<n - 1, i>>)]
    BY <2>4
  <2>6. \A i \in DOMAIN o : /\ "scriptNum" \in DOMAIN txFile'[n].outputs[i]
                            /\ txFile'[n].outputs[i].scriptNum = o[i].scriptNum
    BY <2>3, <2>5
  <2> QED
    BY <2>2, <2>4, <2>6
<1>7. ForwardInv'
  BY <1>1 DEF ForwardInv
<1>8. "scriptIndexes" \in DOMAIN saved' /\ pc' # "idle" /\ pc # "failed"
  BY <1>1, <1>2 DEF IndexInv
<1> QED
  BY <1>1, <1>5, <1>6, <1>7, <1>8, NumbersKept

(* The inductive invariant of the script numbers.                          *)
THEOREM ScriptInvariance == ShallowForks /\ OnceEach => (Spec => []ScriptInv)
<1> SUFFICES ASSUME ShallowForks, OnceEach PROVE Spec => []ScriptInv
  OBVIOUS
<1>1. Init => ScriptInv
  <2> SUFFICES ASSUME Init PROVE ScriptInv
    OBVIOUS
  <2>1. /\ pc = "idle" /\ txFile = << >> /\ utxoState = << >> /\ utxoScriptState = << >>
        /\ addressDb = << >> /\ scriptIndexes = [ty \in Type |-> 1]
        /\ scriptFile = [ty \in Type |-> << >>]
    BY DEF Init
  <2>2. Len(txFile) = 0 /\ 1..0 = {} /\ DOMAIN << >> = {}
    BY <2>1
  <2>3. "scriptIndexes" \in DOMAIN saved /\ saved.scriptIndexes = scriptIndexes
    <3>1. \A x : LET s == [utxoState |-> << >>, utxoScriptState |-> << >>, scriptIndexes |-> x]
                 IN  "scriptIndexes" \in DOMAIN s /\ s.scriptIndexes = x
      OBVIOUS
    <3>2. saved = [utxoState |-> << >>, utxoScriptState |-> << >>, scriptIndexes |-> scriptIndexes]
      BY DEF Init
    <3> QED
      BY <3>1, <3>2
  <2>4. \A ty \in Type : scriptFile[ty] = << >> /\ scriptIndexes[ty] = 1
    BY <2>1
  <2>5. (\A S : << >> \in Seq(S)) /\ Len(<< >>) = 0
    BY EmptySeq
  <2>6. IndexInv
    <3>1. ASSUME NEW ty \in Type
          PROVE  /\ scriptFile[ty] \in Seq(Range(scriptFile[ty]))
                 /\ scriptIndexes[ty] = Len(scriptFile[ty]) + 1
      <4>1. scriptFile[ty] = << >> /\ scriptIndexes[ty] = 1
        BY <2>4, <3>1
      <4>2. << >> \in Seq(Range(<< >>))
        BY <2>5, Zenon
      <4>3. Len(scriptFile[ty]) = 0
        BY <2>5, <4>1, Zenon
      <4>4. scriptFile[ty] \in Seq(Range(scriptFile[ty]))
        BY <4>1, <4>2, Zenon
      <4> QED
        BY <4>1, <4>3, <4>4
    <3> QED
      BY <2>3, <3>1 DEF IndexInv
  <2>7. ForwardInv /\ BookInv /\ OutputInv /\ SpendInv /\ MapNumberInv
    BY <2>1, <2>2 DEF ForwardInv, BookInv, OutputInv, SpendInv, MapNumberInv
  <2> QED
    BY <2>6, <2>7 DEF ScriptInv
<1>2. UpdateInv /\ ScriptInv /\ [Next]_vars => ScriptInv'
  <2> SUFFICES ASSUME UpdateInv, ScriptInv, [Next]_vars, ~rolledBack', pc' # "failed"
               PROVE  ScriptInv'
    BY DEF ScriptInv
  <2>1. CASE Start
    <3>1. /\ pc = "idle" /\ UNCHANGED <<txFile, addressDb, scriptFile, saved>>
          /\ utxoState' = saved.utxoState /\ utxoScriptState' = saved.utxoScriptState
          /\ scriptIndexes' = saved.scriptIndexes
      BY <2>1 DEF Start, chainFiles
    <3>2. /\ rolledBack' = (rolledBack \/ Len(blockFile) > next')
          /\ pc' = IF Len(blockFile) > next' THEN "undo" ELSE AfterRollback'
      BY <2>1 DEF Start
    <3>3. ~rolledBack /\ ~(Len(blockFile) > next')
      BY <3>2, Zenon
    <3>4. pc' \in {"idle", "add"}
      BY <3>2, <3>3 DEF AfterRollback
    <3>5. ForwardInv' /\ pc # "failed"
      BY <3>1, <3>4 DEF ForwardInv
    <3>6. IndexInv
      BY <3>1, <3>3 DEF ScriptInv
    <3>7. UNCHANGED <<utxoState, utxoScriptState, scriptIndexes>>
      BY <3>1, <3>6 DEF IndexInv, UpdateInv, StateInv, SavedInv
    <3>8. "scriptIndexes" \in DOMAIN saved' /\ saved'.scriptIndexes = scriptIndexes
      BY <3>1, <3>6 DEF IndexInv
    <3> QED
      BY <3>1, <3>3, <3>5, <3>7, <3>8, NumbersSame
  <2>2. CASE Discover \/ UNCHANGED vars
    <3>1. UNCHANGED <<pc, utxoState, utxoScriptState, addressDb, scriptIndexes, scriptFile,
                      txFile, saved, rolledBack>>
      BY <2>2 DEF Discover, vars, maps, addresses, chainFiles
    <3>2. ~rolledBack /\ pc # "failed"
      BY <3>1
    <3>3. ForwardInv /\ IndexInv
      BY <3>2 DEF ScriptInv
    <3>4. ForwardInv'
      BY <3>1, <3>3 DEF ForwardInv
    <3> QED
      BY <3>1, <3>2, <3>3, <3>4, NumbersSame DEF IndexInv
  <2>3. CASE (Rollback \/ AddBlocks) /\ UNCHANGED rolledBack
    <3>1. ~rolledBack
      BY <2>3
    <3>2. pc # "failed"
      BY <2>3 DEF Rollback, AddBlocks, UndoTx, SaveUndone, Truncate, RollbackAddresses, AddTx,
                  EndBlock, BackUpdateTxes, Save
    <3>3. ForwardInv /\ IndexInv
      BY <3>1, <3>2 DEF ScriptInv
    <3>4. CASE Rollback
      BY <3>3, <3>4 DEF ForwardInv, Rollback, UndoTx, SaveUndone, Truncate, RollbackAddresses
    <3>5. CASE AddTx
      <4>1. SpendHolds(NewTx)
        BY <3>5 DEF AddTx, Throw
      <4> QED
        BY <2>3, <3>5, <4>1, ProcessNumbers
    <3>6. CASE EndBlock
      <4>1. /\ pc' \in {"add", "link"}
            /\ UNCHANGED <<utxoState, utxoScriptState, addressDb, scriptIndexes, scriptFile,
                           txFile, saved>>
        BY <3>6 DEF EndBlock, maps, addresses
      <4>2. ForwardInv' /\ pc' # "idle"
        BY <4>1 DEF ForwardInv
      <4> QED
        BY <3>1, <3>2, <3>3, <4>1, <4>2, NumbersSame DEF IndexInv
    <3>7. CASE BackUpdateTxes
      BY <3>1, <3>7, BackUpdateNumbers
    <3>8. CASE Save
      <4>1. /\ pc' = "idle" /\ SaveMaps(scriptIndexes)
            /\ UNCHANGED <<utxoState, utxoScriptState, addressDb, scriptIndexes, scriptFile, txFile>>
        BY <3>8 DEF Save, maps, addresses, chainFiles
      <4>2. ForwardInv'
        BY <4>1 DEF ForwardInv
      <4>3. "scriptIndexes" \in DOMAIN saved' /\ saved'.scriptIndexes = scriptIndexes
        BY <4>1 DEF SaveMaps
      <4> QED
        BY <3>1, <3>2, <4>1, <4>2, <4>3, NumbersSame
    <3> QED
      BY <2>3, <3>4, <3>5, <3>6, <3>7, <3>8 DEF AddBlocks
  <2> QED
    BY <2>1, <2>2, <2>3 DEF Next
<1>3. Spec => []UpdateInv
  BY UpdateInvariance
<1> QED
  BY <1>1, <1>2, <1>3, PTL DEF Spec

(* Until a block is rolled back, a script number leads to the record of    *)
(* its address, an address has one number, and an input has the number of  *)
(* the output it spends.                                                   *)
THEOREM ScriptNumbersAgree == ShallowForks /\ OnceEach => (Spec => []ScriptsMatch)
<1> SUFFICES ASSUME ShallowForks, OnceEach PROVE Spec => []ScriptsMatch
  OBVIOUS
<1>1. UpdateInv /\ ScriptInv => ScriptsMatch
  <2> SUFFICES ASSUME UpdateInv, ScriptInv, pc = "idle", ~rolledBack,
                      NEW n \in DOMAIN txFile
               PROVE  /\ \A i \in DOMAIN txFile[n].outputs :
                           LET o == txFile[n].outputs[i]
                               a == Outs[txFile[n].hash][i]
                           IN  /\ o.scriptNum \in DOMAIN scriptFile[o.type]
                               /\ scriptFile[o.type][o.scriptNum].address = a
                               /\ scriptFile[o.type][o.scriptNum].txFirstSeen <= n - 1
                               /\ a \notin NullData => /\ a \in DOMAIN addressDb
                                                       /\ addressDb[a] = o.scriptNum
                      /\ \A k \in DOMAIN txFile[n].inputs :
                           LET m == txFile[n].inputs[k].linkedTxNum + 1
                               p == Ins[txFile[n].hash][k]
                           IN  txFile[n].inputs[k].scriptNum = txFile[m].outputs[p[2]].scriptNum
    BY DEF ScriptsMatch
  <2>1. OutputInv /\ SpendInv
    BY DEF ScriptInv
  <2>2. n \in 1..Len(txFile) /\ n \in Nat
    BY LenFacts DEF UpdateInv
  <2>3. /\ DOMAIN txFile[n].outputs = DOMAIN Outs[Hash(n)]
        /\ DOMAIN txFile[n].inputs = DOMAIN Ins[Hash(n)]
        /\ \A i \in DOMAIN Outs[Hash(n)] : txFile[n].outputs[i].type = TypeOf(Outs[Hash(n)][i])
    <3>1. txFile[n].inputs = [k \in DOMAIN Ins[Hash(n)] |-> txFile[n].inputs[k]]
      BY <2>2 DEF UpdateInv, ShapeInv, RecordInv
    <3> QED
      BY <2>2, <3>1 DEF UpdateInv, ShapeInv, RecordInv
  <2>4. ASSUME NEW i \in DOMAIN Outs[Hash(n)],
               NEW a, a = Outs[Hash(n)][i], NEW num, num = txFile[n].outputs[i].scriptNum
        PROVE  /\ num \in DOMAIN scriptFile[TypeOf(a)]
               /\ scriptFile[TypeOf(a)][num].address = a
               /\ scriptFile[TypeOf(a)][num].txFirstSeen <= n - 1
               /\ a \notin NullData => a \in DOMAIN addressDb /\ addressDb[a] = num
    <3>1. /\ LeadsTo(TypeOf(a), num, a, n)
          /\ a \notin NullData => a \in DOMAIN addressDb /\ addressDb[a] = num
      BY <2>1, <2>2, <2>4 DEF OutputInv
    <3> QED
      BY <2>2, <3>1 DEF LeadsTo, Record
  <2>5. \A k \in DOMAIN Ins[Hash(n)] :
          txFile[n].inputs[k].scriptNum =
            txFile[txFile[n].inputs[k].linkedTxNum + 1].outputs[Ins[Hash(n)][k][2]].scriptNum
    BY <2>1, <2>2 DEF SpendInv
  <2> DEFINE Good(o, a) ==
        /\ o.scriptNum \in DOMAIN scriptFile[o.type]
        /\ scriptFile[o.type][o.scriptNum].address = a
        /\ scriptFile[o.type][o.scriptNum].txFirstSeen <= n - 1
        /\ a \notin NullData => a \in DOMAIN addressDb /\ addressDb[a] = o.scriptNum
  <2>6. ASSUME NEW i \in DOMAIN txFile[n].outputs,
               NEW o, o = txFile[n].outputs[i], NEW a, a = Outs[txFile[n].hash][i]
        PROVE  Good(o, a)
    <3>1. i \in DOMAIN Outs[Hash(n)] /\ a = Outs[Hash(n)][i] /\ o.type = TypeOf(a)
      BY <2>3, <2>6 DEF Hash
    <3> QED
      BY <2>4, <2>6, <3>1
  <2>7. \A k \in DOMAIN txFile[n].inputs :
          LET m == txFile[n].inputs[k].linkedTxNum + 1
              p == Ins[txFile[n].hash][k]
          IN  txFile[n].inputs[k].scriptNum = txFile[m].outputs[p[2]].scriptNum
    BY <2>3, <2>5 DEF Hash
  <2> HIDE DEF Good
  <2>8. \A i \in DOMAIN txFile[n].outputs :
          Good(txFile[n].outputs[i], Outs[txFile[n].hash][i])
    BY <2>6
  <2> QED
    BY <2>7, <2>8, Zenon DEF Good
<1> QED
  BY UpdateInvariance, ScriptInvariance, <1>1, PTL
=============================================================================
