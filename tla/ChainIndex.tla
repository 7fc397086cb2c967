----------------------------- MODULE ChainIndex -----------------------------
(***************************************************************************)
(* ChainIndex<FileTag> (src/parser/chain_index.hpp and .cpp): the parser's *)
(* index of the blocks in the node's blk?????.dat files.  update() scans   *)
(* every file from that of newestBlock on, one thread per file, while the  *)
(* node goes on writing; it then computes heights, and generateChain       *)
(* extracts the longest chain.  updateChain loads the index before and     *)
(* saves it after (src/parser/main.cpp).                                   *)
(*                                                                         *)
(* Files are numbered from 1 and a position in a file is a number of       *)
(* blocks.  A block is its hash; its header holds the hash of its parent.  *)
(***************************************************************************)
EXTENDS Integers, Sequences, FiniteSets

CONSTANTS
  Block,       \* the hashes of all blocks
  NullHash,    \* the parent of the genesis block; also "no block"
  Prev,        \* Prev[b]: header.hashPrevBlock of block b
  Genesis,     \* the block every node starts with
  MaxFile,     \* bound: the number of files the node writes
  ThreadLimit, \* no thread is started while more are active (20)
  MaxBlockNum, \* the --max-block option
  QuietFirst   \* the node is stopped during the first, long, parse

FileNums == 1..MaxFile

ASSUME BlockAssumption ==
  /\ NullHash \notin Block
  /\ Genesis \in Block
  /\ Prev \in [Block -> Block \cup {NullHash}]
  /\ \A b \in Block : Prev[b] = NullHash <=> b = Genesis
ASSUME FileAssumption == MaxFile \in Nat \ {0} /\ ThreadLimit \in Nat
ASSUME OptionAssumption == MaxBlockNum \in Int /\ QuietFirst \in BOOLEAN

VARIABLES
  disk,          \* disk[f]: the complete blocks in file f
  writing,       \* the block being appended to the last file, or NullHash
  blockList,     \* the blocks known
  height,        \* their heights (-1 until computed)
  newestBlock,   \* <<file, position after it>>, or << >> if never assigned
  saved,         \* the three as last written, complete, to blockListPath
  torn,          \* has that file been emptied since?
  pc,            \* updateChain: "idle", "spawn", "join", "heights", "generate", "save"
  firstFile, filePos,  \* where this update resumes
  maxFileNum,    \* the last file when it started
  fileNum,       \* the file to start a thread for next
  thread,        \* the state of each file's thread
  blocks,        \* the blocks each has found
  activeThreads,
  stack,         \* the "queue" of the height computation
  chain,         \* what generateChain returned last
  onDisk         \* history: the blocks on disk when this update started

nodeVars   == <<disk, writing>>
indexVars  == <<blockList, height, newestBlock>>
rangeVars  == <<firstFile, filePos, maxFileNum, onDisk>>
threadVars == <<thread, blocks, activeThreads>>
fileVars   == <<saved, torn>>
vars == <<nodeVars, indexVars, fileVars, pc, rangeVars, fileNum, threadVars, stack, chain>>

SetOf(s) == {s[i] : i \in DOMAIN s}
OnDisk == UNION {SetOf(disk[f]) : f \in DOMAIN disk}

Init ==
  /\ disk = << <<Genesis>> >>
  /\ writing = NullHash
  /\ blockList = {}
  /\ height = [b \in Block |-> -1]
  /\ newestBlock = << >>
  /\ saved = [blockList |-> {}, height |-> [b \in Block |-> -1], newestBlock |-> << >>]
  /\ torn = FALSE
  /\ pc = "idle"
  /\ firstFile = 1 /\ filePos = 0 /\ maxFileNum = 1
  /\ fileNum = 1
  /\ thread = [f \in FileNums |-> "none"]
  /\ blocks = [f \in FileNums |-> << >>]
  /\ activeThreads = 0
  /\ stack = << >>
  /\ chain = << >>
  /\ onDisk = {}

-----------------------------------------------------------------------------
(* The node (not part of the repository) appends blocks, in the order in   *)
(* which they arrive, to its last file or to a new one.                    *)
NodeBegins ==
  /\ QuietFirst => saved.blockList # {}
  /\ writing = NullHash
  /\ \E b \in Block \ OnDisk : writing' = b
  /\ disk' \in {disk} \cup (IF Len(disk) < MaxFile THEN {Append(disk, << >>)} ELSE {})
  /\ UNCHANGED <<indexVars, fileVars, pc, rangeVars, fileNum, threadVars, stack, chain>>

NodeEnds ==
  /\ writing # NullHash
  /\ disk' = [disk EXCEPT ![Len(disk)] = Append(@, writing)]
  /\ writing' = NullHash
  /\ UNCHANGED <<indexVars, fileVars, pc, rangeVars, fileNum, threadVars, stack, chain>>

-----------------------------------------------------------------------------
(* ChainIndex::update.  A default-constructed newestBlock holds garbage.   *)
ResumePoints_NextFile ==         \* mutant: resumes at the following file
  IF blockList = {} THEN {<<1, 0>>}
  ELSE IF newestBlock # << >> THEN {<<newestBlock[1] + 1, 0>>}
  ELSE FileNums \X (0..Cardinality(Block))

ResumePoints ==
  IF blockList = {} THEN {<<1, 0>>}
  ELSE IF newestBlock # << >> THEN {newestBlock}
  ELSE FileNums \X (0..Cardinality(Block))

MaxBlockFileNum(startFile) ==
  IF startFile <= Len(disk) THEN Len(disk) ELSE startFile - 1

(* updateChain reads the saved index, and update looks for the last file.  *)
Start ==
  /\ pc = "idle" /\ ~torn
  /\ blockList' = saved.blockList
  /\ height' = saved.height
  /\ newestBlock' = saved.newestBlock
  /\ \E p \in ResumePoints' :
       firstFile' = p[1] /\ filePos' = p[2] /\ fileNum' = p[1]
  /\ maxFileNum' = MaxBlockFileNum(firstFile')
  /\ onDisk' = OnDisk
  /\ pc' = "spawn"
  /\ UNCHANGED <<nodeVars, fileVars, threadVars, stack, chain>>

(* A file that is not a whole archive makes the archive's constructor, or  *)
(* the reading of the index, throw: this and every later run ends here.    *)
StartThrows ==
  /\ pc = "idle" /\ torn
  /\ UNCHANGED vars

Spawn ==
  /\ pc = "spawn"
  /\ fileNum <= maxFileNum
  /\ activeThreads <= ThreadLimit
  /\ thread' = [thread EXCEPT ![fileNum] = "started"]
  /\ fileNum' = fileNum + 1
  /\ UNCHANGED <<nodeVars, indexVars, fileVars, pc, rangeVars, blocks, activeThreads, stack, chain>>

SpawnedAll ==
  /\ pc = "spawn"
  /\ fileNum > maxFileNum
  /\ pc' = "join"
  /\ UNCHANGED <<nodeVars, indexVars, fileVars, rangeVars, fileNum, threadVars, stack, chain>>

(* One thread per file, f.                                                 *)
Enter(f) ==
  /\ thread[f] = "started"
  /\ activeThreads' = activeThreads + 1
  /\ thread' = [thread EXCEPT ![f] = "scan"]
  /\ UNCHANGED <<nodeVars, indexVars, fileVars, pc, rangeVars, fileNum, blocks, stack, chain>>

(* The block being written ends the loop if its magic number is missing.   *)
Offset(f) == IF f = firstFile THEN filePos ELSE 0

Scan(f) ==
  /\ thread[f] = "scan"
  /\ Offset(f) <= Len(disk[f])
  /\ blocks' = [blocks EXCEPT ![f] = SubSeq(disk[f], Offset(f) + 1, Len(disk[f]))]
  /\ thread' = [thread EXCEPT ![f] = "found"]
  /\ UNCHANGED <<nodeVars, indexVars, fileVars, pc, rangeVars, fileNum, activeThreads, stack, chain>>

(* A block that is not all there makes the reader throw, as does a         *)
(* position beyond the end of the file.  The exception ends up in a future *)
(* nobody gets, and activeThreads is not decremented.                      *)
ScanFails(f) ==
  /\ thread[f] = "scan"
  /\ (f = Len(disk) /\ writing # NullHash) \/ Offset(f) > Len(disk[f])
  /\ thread' = [thread EXCEPT ![f] = "failed"]
  /\ UNCHANGED <<nodeVars, indexVars, fileVars, pc, rangeVars, fileNum, blocks, activeThreads, stack, chain>>

(* newestBlock is assigned without the lock, by the thread of the last     *)
(* file only.                                                              *)
SetsNewest(f) == f = maxFileNum /\ blocks[f] # << >>

Leave(f) ==
  /\ thread[f] = "found"
  /\ newestBlock' = IF SetsNewest(f) THEN <<f, Offset(f) + Len(blocks[f])>> ELSE newestBlock
  /\ activeThreads' = activeThreads - 1
  /\ thread' = [thread EXCEPT ![f] = "merge"]
  /\ UNCHANGED <<nodeVars, blockList, height, fileVars, pc, rangeVars, fileNum, blocks, stack, chain>>

(* Under the lock.  A block read again loses its height for a while.       *)
Merge(f) ==
  /\ thread[f] = "merge"
  /\ blockList' = blockList \cup SetOf(blocks[f])
  /\ height' = [b \in Block |-> IF b \in SetOf(blocks[f]) THEN -1 ELSE height[b]]
  /\ thread' = [thread EXCEPT ![f] = "done"]
  /\ UNCHANGED <<nodeVars, newestBlock, fileVars, pc, rangeVars, fileNum, blocks, activeThreads, stack, chain>>

(* The destructors of the futures wait for the threads.                    *)
Join_NoWait ==                    \* mutant: nobody waits
  /\ pc = "join"
  /\ pc' = "heights"
  /\ stack' = << <<NullHash, 0>> >>
  /\ UNCHANGED <<nodeVars, indexVars, fileVars, rangeVars, fileNum, threadVars, chain>>

Join ==
  /\ pc = "join"
  /\ \A f \in FileNums : thread[f] \in {"none", "done", "failed"}
  /\ pc' = "heights"
  /\ stack' = << <<NullHash, 0>> >>
  /\ UNCHANGED <<nodeVars, indexVars, fileVars, rangeVars, fileNum, threadVars, chain>>

(* forwardHashes.equal_range(h)                                            *)
ForwardHashes_Orphans(h) ==       \* mutant: a block with no parent is a root
  {b \in blockList : Prev[b] = h \/ (h = NullHash /\ Prev[b] \notin blockList)}

ForwardHashes(h) == {b \in blockList : Prev[b] = h}

Orders(S) == {s \in [1..Cardinality(S) -> S] : SetOf(s) = S}

Visit ==
  /\ pc = "heights"
  /\ stack # << >>
  /\ LET top  == stack[Len(stack)]
         rest == SubSeq(stack, 1, Len(stack) - 1)
         next == ForwardHashes(top[1])
     IN  /\ height' = [b \in Block |-> IF b \in next THEN top[2] + 1 ELSE height[b]]
         /\ \E s \in Orders(next) :
              stack' = rest \o [i \in DOMAIN s |-> <<s[i], top[2] + 1>>]
  /\ UNCHANGED <<nodeVars, blockList, newestBlock, fileVars, pc, rangeVars, fileNum, threadVars, chain>>

HeightsDone ==
  /\ pc = "heights"
  /\ stack = << >>
  /\ pc' = "generate"
  /\ UNCHANGED <<nodeVars, indexVars, fileVars, rangeVars, fileNum, threadVars, stack, chain>>

-----------------------------------------------------------------------------
(* ChainIndex::generateChain.                                              *)

(* The first block of greatest height in the order of an unordered_map.    *)
MaxHeightBlocks == {b \in blockList : \A c \in blockList : height[c] <= height[b]}

(* From the block back to nullHash, reversed.                              *)
Ancestry[b \in Block] ==
  IF Prev[b] = NullHash THEN <<b>> ELSE Append(Ancestry[Prev[b]], b)

(* A header holds the hash of an older one, so the way back ends.          *)
ASSUME AncestryAssumption ==
  \A b \in Block :
    /\ Ancestry[b] \in Seq(Block)
    /\ Ancestry[b] = IF Prev[b] = NullHash THEN <<b>> ELSE Append(Ancestry[Prev[b]], b)

(* A positive limit counts blocks, a negative one those left out.          *)
Truncate(s) ==
  IF MaxBlockNum < 0 THEN SubSeq(s, 1, Len(s) + MaxBlockNum)
  ELSE IF MaxBlockNum = 0 \/ MaxBlockNum > Len(s) THEN s
  ELSE SubSeq(s, 1, MaxBlockNum)

(* The locals of update() are gone.                                        *)
ForgetLocals ==
  /\ fileNum' = 1
  /\ thread' = [f \in FileNums |-> "none"]
  /\ blocks' = [f \in FileNums |-> << >>]
  /\ activeThreads' = 0
  /\ stack' = << >>

(* ... after which updateChain opens the file of the index to write, which *)
(* empties it,                                                             *)
GenerateChain_Newest ==           \* mutant: up to the newest block, not the highest
  /\ pc = "generate"
  /\ newestBlock # << >>
  /\ chain' = Truncate(Ancestry[disk[newestBlock[1]][newestBlock[2]]])
  /\ torn' = TRUE
  /\ pc' = "save"
  /\ UNCHANGED <<nodeVars, indexVars, saved, rangeVars, fileNum, threadVars, stack>>

GenerateChain ==
  /\ pc = "generate"
  /\ chain' \in IF blockList = {} THEN {<< >>}
                ELSE {Truncate(Ancestry[b]) : b \in MaxHeightBlocks}
  /\ torn' = TRUE
  /\ pc' = "save"
  /\ UNCHANGED <<nodeVars, indexVars, saved, rangeVars, fileNum, threadVars, stack>>

(* ... and writes the index to it.                                         *)
Save ==
  /\ pc = "save"
  /\ saved' = [blockList |-> blockList, height |-> height, newestBlock |-> newestBlock]
  /\ torn' = FALSE
  /\ pc' = "idle"
  /\ ForgetLocals
  /\ UNCHANGED <<nodeVars, indexVars, rangeVars, chain>>

(* The parser is killed: what it has not saved is gone, and so is the      *)
(* index that it was about to replace.                                     *)
Crash ==
  /\ pc # "idle"
  /\ pc' = "idle"
  /\ blockList' = saved.blockList
  /\ height' = saved.height
  /\ newestBlock' = saved.newestBlock
  /\ ForgetLocals
  /\ UNCHANGED <<nodeVars, fileVars, rangeVars, chain>>

-----------------------------------------------------------------------------
Node == NodeBegins \/ NodeEnds
Thread(f) == Enter(f) \/ Scan(f) \/ ScanFails(f) \/ Leave(f) \/ Merge(f)
Update == \/ Start \/ Spawn \/ SpawnedAll \/ Join \/ Visit \/ HeightsDone
          \/ GenerateChain \/ Save \/ StartThrows

Run  == Node \/ Update \/ \E f \in FileNums : Thread(f)
Next == Run \/ Crash

(* The node finishes what it writes; the parser is run again and again,    *)
(* and its threads are std::async threads.                                 *)
Fairness ==
  /\ WF_vars(Node) /\ WF_vars(Update)
  /\ \A f \in FileNums : WF_vars(Thread(f))

Spec == Init /\ [][Next]_vars
FairSpec == Spec /\ Fairness

-----------------------------------------------------------------------------
(* An update all of whose threads succeed knows every block that was on    *)
(* disk when it began, although it reads only what follows newestBlock,    *)
(* earlier updates may have failed or been killed half-way, and the node   *)
(* wrote blocks and opened files during all of them.                       *)
IndexComplete ==
  (pc \in {"heights", "generate", "save"} /\ \A f \in FileNums : thread[f] # "failed")
    => onDisk \subseteq blockList

(* An update resumes from the last processed block: the one before the     *)
(* position at which it starts to read is in the index it has loaded.      *)
ResumesFromProcessedBlock ==
  pc # "idle" =>
    \/ saved.blockList = {} /\ firstFile = 1 /\ filePos = 0
    \/ /\ firstFile \in DOMAIN disk /\ filePos \in DOMAIN disk[firstFile]
       /\ disk[firstFile][filePos] \in saved.blockList

(* Blocks arrive out of order and on branches; still every block that      *)
(* generateChain may choose has all its ancestors in the index (else it    *)
(* would walk off blockList.end()), and no block with all its ancestors in *)
(* the index has more of them.                                             *)
InIndex(b) == SetOf(Ancestry[b]) \subseteq blockList
ChainIsLongest ==
  pc = "generate" =>
    \A b \in MaxHeightBlocks :
      /\ InIndex(b)
      /\ \A c \in blockList : InIndex(c) => Len(Ancestry[c]) <= Len(Ancestry[b])

(* No update, however its threads fail, returns a shorter chain than an    *)
(* earlier one: updateChain would delete parsed blocks.                    *)
ChainNeverShrinks == [][Len(chain') >= Len(chain)]_vars

(* If the parser is killed only finitely often, a block the node has       *)
(* written is in the saved index in the end, although the thread that      *)
(* meets it half written drops all that it has read; unless a kill hits    *)
(* the save, which leaves a file that no later run gets past.              *)
EventuallyIndexed ==
  <>[][Run]_vars =>
    \A b \in Block : b \in OnDisk ~> b \in saved.blockList \/ (torn /\ pc = "idle")
=============================================================================
