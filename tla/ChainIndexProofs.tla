-------------------------- MODULE ChainIndexProofs --------------------------
(***************************************************************************)
(* Proofs about ChainIndex, for every number of files, blocks and threads: *)
(* an update resumes from a block that has been processed, and one all of  *)
(* whose threads succeed misses no block that was on disk when it began,   *)
(* if the node is stopped during the first parse; the chain that is        *)
(* returned is a longest one of the index, and never shorter than before,  *)
(* without that condition.                                                 *)
(***************************************************************************)
EXTENDS ChainIndex, TLAPS, SequenceTheorems, FiniteSetTheorems, WellFoundedInduction

(* The variables the argument is about.                                    *)
TypeInv ==
  /\ disk \in Seq(Seq(Block)) /\ Len(disk) \in FileNums
  /\ writing \in Block \cup {NullHash}
  /\ pc \in {"idle", "spawn", "join", "heights", "generate", "save"}
  /\ thread \in [FileNums -> {"none", "started", "scan", "found", "merge", "done", "failed"}]
  /\ blocks \in [FileNums -> Seq(Block)]
  /\ fileNum \in Nat

(* S has every block up to position p of file f.                           *)
Covers(S, f, p) ==
  \A g \in 1..Len(disk) : \A q \in 1..Len(disk[g]) :
    (g < f \/ (g = f /\ q <= p)) => disk[g][q] \in S

(* The node waits for the first update to be over.                         *)
QuietInv == saved.blockList = {} => disk = << <<Genesis>> >> /\ writing = NullHash

(* A saved index has every block up to its newestBlock, and that one.      *)
SavedInv ==
  saved.blockList # {} =>
    \E f \in 1..Len(disk) : \E p \in 1..Len(disk[f]) :
      saved.newestBlock = <<f, p>> /\ Covers(saved.blockList, f, p)

(* Where the update under way began.                                       *)
RangeInv ==
  /\ firstFile \in 1..Len(disk) /\ filePos \in 0..Len(disk[firstFile])
  /\ maxFileNum \in firstFile..Len(disk)
  /\ IF saved.blockList = {} THEN firstFile = 1 /\ filePos = 0
     ELSE saved.newestBlock = <<firstFile, filePos>>
          /\ filePos # 0 /\ Covers(saved.blockList, firstFile, filePos)

(* What each thread has read: a part of its file, and all of it if the     *)
(* node has left that file.                                                *)
Upto(f) == Offset(f) + Len(blocks[f])
HasRead(f) == thread[f] \in {"found", "merge", "done"}
ReadInv ==
  \A f \in FileNums : HasRead(f) =>
    /\ Upto(f) <= Len(disk[f])
    /\ f < maxFileNum \/ saved.blockList = {} => Upto(f) = Len(disk[f])
    /\ \A q \in 1..Len(blocks[f]) : blocks[f][q] = disk[f][Offset(f) + q]

(* How far the threads are.  Only that of the last file may fail, and none *)
(* of the first update.                                                    *)
ThreadInv ==
  /\ firstFile <= fileNum /\ fileNum <= maxFileNum + 1
  /\ \A f \in FileNums : thread[f] = "none" <=> ~(firstFile <= f /\ f < fileNum)
  /\ \A f \in FileNums : thread[f] = "failed" => f = maxFileNum /\ saved.blockList # {}
  /\ pc # "spawn" => fileNum = maxFileNum + 1
  /\ pc \in {"heights", "generate", "save"} =>
       \A f \in FileNums : thread[f] \in {"none", "done", "failed"}

(* What the index has got so far.                                          *)
ListInv ==
  /\ saved.blockList \subseteq blockList
  /\ \A f \in FileNums : thread[f] = "done" => SetOf(blocks[f]) \subseteq blockList

(* newestBlock is the loaded one until the thread of the last file has     *)
(* read something.                                                         *)
NewestInv ==
  newestBlock = IF thread[maxFileNum] \in {"merge", "done"} /\ blocks[maxFileNum] # << >>
                THEN <<maxFileNum, Upto(maxFileNum)>> ELSE saved.newestBlock

(* The blocks on disk at the beginning are in the files this update knows, *)
(* and a thread that has read its file has not missed them.                *)
StartInv ==
  \A b \in onDisk : \E g \in 1..maxFileNum : \E q \in 1..Len(disk[g]) :
    disk[g][q] = b /\ (HasRead(g) => q <= Upto(g))

UpdateInv == RangeInv /\ ReadInv /\ ThreadInv /\ ListInv /\ NewestInv /\ StartInv

IndexInv ==
  /\ TypeInv /\ QuietInv /\ SavedInv
  /\ IF pc = "idle" THEN \A f \in FileNums : thread[f] = "none" ELSE UpdateInv

-----------------------------------------------------------------------------
(* The node.                                                               *)

(* Files only grow, and only the last one does.                            *)
LEMMA DiskGrows ==
  ASSUME TypeInv, Node
  PROVE  /\ TypeInv'
         /\ Len(disk') \in Nat /\ Len(disk) <= Len(disk')
         /\ \A g \in 1..Len(disk) :
              /\ Len(disk[g]) \in Nat /\ Len(disk'[g]) \in Nat
              /\ Len(disk[g]) <= Len(disk'[g])
              /\ \A q \in 1..Len(disk[g]) : disk'[g][q] = disk[g][q]
              /\ g < Len(disk) => disk'[g] = disk[g]
<1>0. disk \in Seq(Seq(Block)) /\ Len(disk) \in FileNums /\ Len(disk) \in Nat
      /\ \A g \in 1..Len(disk) : disk[g] \in Seq(Block) /\ Len(disk[g]) \in Nat
  BY ElementOfSeq, LenProperties DEF TypeInv
<1>1. CASE NodeBegins
  <2>1. writing' \in Block /\ UNCHANGED <<pc, thread, blocks, fileNum>>
    BY <1>1 DEF NodeBegins, threadVars
  <2>2. CASE disk' = disk
    BY <1>0, <2>1, <2>2 DEF TypeInv
  <2>3. CASE disk' = Append(disk, << >>) /\ Len(disk) < MaxFile
    <3>1. << >> \in Seq(Block)
      OBVIOUS
    <3>2. /\ disk' \in Seq(Seq(Block)) /\ Len(disk') = Len(disk) + 1
          /\ \A g \in 1..Len(disk) : disk'[g] = disk[g]
      BY <1>0, <2>3, <3>1, AppendProperties
    <3>3. Len(disk') \in FileNums
      BY <1>0, <2>3, <3>2, FileAssumption DEF FileNums
    <3> QED
      BY <1>0, <2>1, <3>2, <3>3 DEF TypeInv
  <2>4. disk' = disk \/ (disk' = Append(disk, << >>) /\ Len(disk) < MaxFile)
    BY <1>1 DEF NodeBegins
  <2> QED
    BY <2>2, <2>3, <2>4
<1>2. CASE NodeEnds
  <2>1. /\ writing \in Block /\ writing' = NullHash /\ UNCHANGED <<pc, thread, blocks, fileNum>>
        /\ disk' = [disk EXCEPT ![Len(disk)] = Append(@, writing)]
    BY <1>2 DEF NodeEnds, threadVars, TypeInv
  <2>2. Len(disk) \in 1..Len(disk)
    BY <1>0 DEF FileNums
  <2> DEFINE s == Append(disk[Len(disk)], writing)
  <2>3. /\ s \in Seq(Block) /\ Len(s) = Len(disk[Len(disk)]) + 1
        /\ \A q \in 1..Len(disk[Len(disk)]) : s[q] = disk[Len(disk)][q]
    BY <1>0, <2>1, <2>2, AppendProperties
  <2>4. disk' = [disk EXCEPT ![Len(disk)] = s]
    BY <2>1
  <2> HIDE DEF s
  <2>5. disk' \in Seq(Seq(Block)) /\ Len(disk') = Len(disk)
    BY <1>0, <2>2, <2>3, <2>4, ExceptSeq
  <2>6. \A g \in 1..Len(disk) : disk'[g] = IF g = Len(disk) THEN s ELSE disk[g]
    BY <1>0, <2>4
  <2>7. TypeInv'
    BY <1>0, <2>1, <2>5 DEF TypeInv
  <2>8. ASSUME NEW g \in 1..Len(disk)
        PROVE  /\ Len(disk'[g]) \in Nat /\ Len(disk[g]) <= Len(disk'[g])
               /\ \A q \in 1..Len(disk[g]) : disk'[g][q] = disk[g][q]
               /\ g < Len(disk) => disk'[g] = disk[g]
    <3>1. CASE g = Len(disk)
      BY <1>0, <2>2, <2>3, <2>6, <3>1
    <3>2. CASE g # Len(disk)
      BY <1>0, <2>6, <3>2
    <3> QED
      BY <3>1, <3>2
  <2> QED
    BY <1>0, <2>5, <2>7, <2>8
<1> QED
  BY <1>1, <1>2 DEF Node

(* What an index covers does not depend on what the node adds later.       *)
LEMMA CoversStays ==
  ASSUME TypeInv, Node, NEW S, NEW f \in 1..Len(disk), NEW p \in 0..Len(disk[f]),
         Covers(S, f, p)
  PROVE  Covers(S, f, p)'
<1>1. /\ Len(disk) \in Nat /\ Len(disk') \in Nat
      /\ \A g \in 1..Len(disk) :
           /\ Len(disk[g]) \in Nat /\ Len(disk'[g]) \in Nat
           /\ \A q \in 1..Len(disk[g]) : disk'[g][q] = disk[g][q]
           /\ g < Len(disk) => disk'[g] = disk[g]
  BY DiskGrows, LenProperties DEF TypeInv
<1> SUFFICES ASSUME NEW g \in 1..Len(disk'), NEW q \in 1..Len(disk'[g]),
                    g < f \/ (g = f /\ q <= p)
             PROVE  disk'[g][q] \in S
  BY DEF Covers
<1>2. g \in 1..Len(disk) /\ Len(disk'[g]) \in Nat /\ Len(disk[g]) \in Nat
  BY <1>1
<1>3. q \in 1..Len(disk[g])
  BY <1>1, <1>2
<1> QED
  BY <1>1, <1>2, <1>3 DEF Covers

(* The node only adds to the files: what was read stays read.              *)
LEMMA NodeStep ==
  ASSUME QuietFirst, IndexInv, Node
  PROVE  IndexInv'
<1>0. /\ UNCHANGED <<saved, pc, thread, blocks, fileNum, blockList, newestBlock,
                     firstFile, filePos, maxFileNum, onDisk>>
      /\ TypeInv /\ TypeInv'
  BY DiskGrows DEF IndexInv, Node, NodeBegins, NodeEnds, indexVars, rangeVars, threadVars, fileVars
<1>1. /\ Len(disk) \in Nat /\ Len(disk') \in Nat /\ Len(disk) <= Len(disk')
      /\ \A g \in 1..Len(disk) :
           /\ Len(disk[g]) \in Nat /\ Len(disk'[g]) \in Nat
           /\ Len(disk[g]) <= Len(disk'[g])
           /\ \A q \in 1..Len(disk[g]) : disk'[g][q] = disk[g][q]
           /\ g < Len(disk) => disk'[g] = disk[g]
  BY <1>0, DiskGrows, LenProperties DEF TypeInv
<1>2. saved.blockList # {}
  BY DEF Node, NodeBegins, NodeEnds, IndexInv, QuietInv
<1>3. QuietInv'
  BY <1>0, <1>2 DEF QuietInv
<1>4. SavedInv'
  <2>0. PICK f \in 1..Len(disk) : \E p \in 1..Len(disk[f]) :
               saved.newestBlock = <<f, p>> /\ Covers(saved.blockList, f, p)
    BY <1>2 DEF IndexInv, SavedInv
  <2>1. PICK p \in 1..Len(disk[f]) :
               saved.newestBlock = <<f, p>> /\ Covers(saved.blockList, f, p)
    BY <2>0
  <2>2. Covers(saved.blockList, f, p)'
    <3>1. p \in 0..Len(disk[f])
      BY <1>1
    <3>2. ASSUME NEW S, S = saved.blockList PROVE Covers(S, f, p)'
      BY <1>0, <2>1, <3>1, <3>2, CoversStays
    <3> QED
      BY <1>0, <3>2 DEF Covers
  <2>3. f \in 1..Len(disk') /\ p \in 1..Len(disk'[f])
    BY <1>1
  <2> QED
    BY <1>0, <2>1, <2>2, <2>3 DEF SavedInv
<1>5. ASSUME pc # "idle"
      PROVE  UpdateInv'
  <2>1. RangeInv /\ ReadInv /\ ThreadInv /\ ListInv /\ NewestInv /\ StartInv
    BY <1>5 DEF IndexInv, UpdateInv
  <2>2. /\ firstFile \in 1..Len(disk) /\ filePos \in 0..Len(disk[firstFile])
        /\ maxFileNum \in firstFile..Len(disk)
    BY <2>1 DEF RangeInv
  <2>3. RangeInv'
    <3>1. /\ saved.newestBlock = <<firstFile, filePos>>
          /\ filePos # 0 /\ Covers(saved.blockList, firstFile, filePos)
      BY <1>2, <2>1 DEF RangeInv
    <3>2. Covers(saved.blockList, firstFile, filePos)'
      <4>1. ASSUME NEW S, S = saved.blockList, NEW f, f = firstFile, NEW p, p = filePos
            PROVE  Covers(S, f, p)'
        BY <1>0, <2>2, <3>1, <4>1, CoversStays
      <4> QED
        BY <1>0, <4>1 DEF Covers
    <3>3. /\ firstFile \in 1..Len(disk') /\ filePos \in 0..Len(disk'[firstFile])
          /\ maxFileNum \in firstFile..Len(disk')
      BY <1>1, <2>2
    <3> QED
      BY <1>0, <1>2, <3>1, <3>2, <3>3 DEF RangeInv
  <2>4. ReadInv'
    <3> SUFFICES ASSUME NEW f \in FileNums, HasRead(f)
                 PROVE  /\ Upto(f) <= Len(disk'[f])
                        /\ f < maxFileNum => Upto(f) = Len(disk'[f])
                        /\ \A q \in 1..Len(blocks[f]) : blocks[f][q] = disk'[f][Offset(f) + q]
      BY <1>0, <1>2 DEF ReadInv, HasRead, Upto, Offset
    <3>1. /\ Upto(f) <= Len(disk[f])
          /\ f < maxFileNum => Upto(f) = Len(disk[f])
          /\ \A q \in 1..Len(blocks[f]) : blocks[f][q] = disk[f][Offset(f) + q]
      BY <2>1 DEF ReadInv
    <3>2. firstFile <= f /\ f < fileNum /\ fileNum <= maxFileNum + 1 /\ fileNum \in Nat
      BY <1>0, <2>1 DEF ThreadInv, HasRead, TypeInv
    <3>3. f \in 1..Len(disk) /\ (f < maxFileNum => f < Len(disk))
      BY <1>1, <2>2, <3>2 DEF FileNums
    <3>4. Offset(f) \in Nat /\ Len(blocks[f]) \in Nat /\ Upto(f) = Offset(f) + Len(blocks[f])
      BY <1>0, <1>1, <2>2, LenProperties DEF Offset, TypeInv, Upto
    <3>5. \A q \in 1..Len(blocks[f]) : Offset(f) + q \in 1..Len(disk[f])
      BY <1>1, <3>1, <3>3, <3>4
    <3>6. Upto(f) <= Len(disk'[f])
      BY <1>1, <3>1, <3>3, <3>4
    <3>7. f < maxFileNum => Upto(f) = Len(disk'[f])
      BY <1>1, <3>1, <3>3
    <3>8. \A q \in 1..Len(blocks[f]) : blocks[f][q] = disk'[f][Offset(f) + q]
      BY <1>1, <3>1, <3>3, <3>5
    <3> QED
      BY <3>6, <3>7, <3>8
  <2>5. ThreadInv' /\ ListInv' /\ NewestInv'
    BY <1>0, <2>1 DEF ThreadInv, ListInv, NewestInv, Upto, Offset, SetOf
  <2>6. StartInv'
    <3> SUFFICES ASSUME NEW b \in onDisk
                 PROVE  \E g \in 1..maxFileNum : \E q \in 1..Len(disk'[g]) :
                          disk'[g][q] = b /\ (HasRead(g) => q <= Upto(g))
      BY <1>0 DEF StartInv, HasRead, Upto, Offset
    <3>0. PICK g \in 1..maxFileNum : \E q \in 1..Len(disk[g]) :
                 disk[g][q] = b /\ (HasRead(g) => q <= Upto(g))
      BY <2>1 DEF StartInv
    <3>1. PICK q \in 1..Len(disk[g]) : disk[g][q] = b /\ (HasRead(g) => q <= Upto(g))
      BY <3>0
    <3>2. g \in 1..Len(disk)
      BY <1>1, <2>2
    <3>3. q \in 1..Len(disk'[g]) /\ disk'[g][q] = disk[g][q]
      BY <1>1, <3>2
    <3> QED
      BY <3>1, <3>3
  <2> QED
    BY <2>3, <2>4, <2>5, <2>6 DEF UpdateInv
<1> QED
  BY <1>0, <1>3, <1>4, <1>5 DEF IndexInv

-----------------------------------------------------------------------------
(* The update.                                                             *)

(* The facts about types that the steps below need.                        *)
LEMMA Basics ==
  ASSUME TypeInv
  PROVE  /\ Len(disk) \in Nat /\ Len(disk) \in 1..MaxFile /\ MaxFile \in Nat
         /\ DOMAIN disk = 1..Len(disk)
         /\ \A g \in 1..Len(disk) : /\ g \in FileNums /\ disk[g] \in Seq(Block)
                                    /\ Len(disk[g]) \in Nat /\ DOMAIN disk[g] = 1..Len(disk[g])
         /\ \A f \in FileNums : /\ f \in Nat /\ blocks[f] \in Seq(Block)
                                /\ Len(blocks[f]) \in Nat
                                /\ DOMAIN blocks[f] = 1..Len(blocks[f])
<1>1. MaxFile \in Nat /\ Len(disk) \in 1..MaxFile /\ disk \in Seq(Seq(Block))
      /\ blocks \in [FileNums -> Seq(Block)]
  BY FileAssumption DEF TypeInv, FileNums
<1>2. \A g \in 1..Len(disk) : g \in FileNums /\ disk[g] \in Seq(Block)
  BY <1>1, ElementOfSeq DEF FileNums
<1>3. \A f \in FileNums : f \in Nat /\ blocks[f] \in Seq(Block)
  BY <1>1 DEF FileNums
<1> QED
  BY <1>1, <1>2, <1>3, LenProperties

(* Steps that touch neither the files nor the saved index.                 *)
LEMMA SavedFrame ==
  ASSUME QuietInv, SavedInv, disk' = disk, writing' = writing, saved' = saved
  PROVE  QuietInv' /\ SavedInv'
<1>1. QuietInv'
  BY DEF QuietInv
<1>2. \A S, f, p : Covers(S, f, p) => Covers(S, f, p)'
  BY DEF Covers
<1>3. SavedInv'
  BY <1>2 DEF SavedInv, Covers
<1> QED
  BY <1>1, <1>3

(* An update that begins reads on from the newest block it knows.          *)
LEMMA StartStep ==
  ASSUME QuietFirst, IndexInv, Start
  PROVE  IndexInv'
<1>0. /\ UNCHANGED <<disk, writing, saved, thread, blocks>> /\ pc' = "spawn"
      /\ blockList' = saved.blockList /\ newestBlock' = saved.newestBlock
      /\ \A f \in FileNums : thread[f] = "none"
      /\ TypeInv /\ QuietInv /\ SavedInv
  BY DEF Start, IndexInv, nodeVars, fileVars, threadVars
<1> USE Basics
<1>1. /\ firstFile' \in 1..Len(disk) /\ filePos' \in 0..Len(disk[firstFile'])
      /\ IF saved.blockList = {} THEN firstFile' = 1 /\ filePos' = 0
         ELSE saved.newestBlock = <<firstFile', filePos'>>
              /\ filePos' # 0 /\ Covers(saved.blockList, firstFile', filePos')
      /\ fileNum' = firstFile'
  <2>1. PICK r \in ResumePoints' : firstFile' = r[1] /\ filePos' = r[2] /\ fileNum' = r[1]
    BY DEF Start
  <2>2. CASE saved.blockList = {}
    <3>1. r = <<1, 0>>
      BY <1>0, <2>1, <2>2 DEF ResumePoints
    <3> QED
      BY <1>0, <2>1, <2>2, <3>1
  <2>3. CASE saved.blockList # {}
    <3>1. PICK f \in 1..Len(disk) : \E p \in 1..Len(disk[f]) :
                 saved.newestBlock = <<f, p>> /\ Covers(saved.blockList, f, p)
      BY <1>0, <2>3 DEF SavedInv
    <3>2. PICK p \in 1..Len(disk[f]) :
                 saved.newestBlock = <<f, p>> /\ Covers(saved.blockList, f, p)
      BY <3>1
    <3>3. <<f, p>> # << >>
      OBVIOUS
    <3>4. r = <<f, p>>
      BY <1>0, <2>1, <2>3, <3>2, <3>3 DEF ResumePoints
    <3>5. firstFile' = f /\ filePos' = p /\ fileNum' = f
      BY <2>1, <3>4
    <3> QED
      BY <1>0, <2>3, <3>2, <3>5
  <2> QED
    BY <2>2, <2>3
<1>2. maxFileNum' = Len(disk)
  BY <1>0, <1>1 DEF Start, MaxBlockFileNum
<1>3. TypeInv' /\ QuietInv' /\ SavedInv'
  <2>1. fileNum' \in Nat
    BY <1>0, <1>1
  <2> QED
    BY <1>0, <2>1, SavedFrame DEF TypeInv
<1>4. RangeInv'
  BY <1>0, <1>1, <1>2 DEF RangeInv, Covers
<1>5. \A f \in FileNums : thread'[f] = "none"
  BY <1>0
<1>6. maxFileNum' \in FileNums
  BY <1>0, <1>2 DEF TypeInv
<1>7. ReadInv' /\ ThreadInv' /\ ListInv' /\ NewestInv'
  BY <1>0, <1>1, <1>2, <1>5, <1>6 DEF ReadInv, HasRead, ThreadInv, ListInv, NewestInv
<1>8. StartInv'
  <2> SUFFICES ASSUME NEW b \in onDisk'
               PROVE  \E g \in 1..maxFileNum' : \E q \in 1..Len(disk'[g]) :
                        disk'[g][q] = b /\ (HasRead(g)' => q <= Upto(g)')
    BY DEF StartInv
  <2>1. b \in UNION {SetOf(disk[f]) : f \in DOMAIN disk}
    BY DEF Start, OnDisk
  <2>2. PICK g \in DOMAIN disk : b \in SetOf(disk[g])
    BY <2>1
  <2>3. PICK q \in DOMAIN disk[g] : b = disk[g][q]
    BY <2>2 DEF SetOf
  <2>4. ~HasRead(g)' /\ g \in 1..maxFileNum' /\ q \in 1..Len(disk'[g])
    BY <1>0, <1>2, <1>5 DEF HasRead
  <2> QED
    BY <1>0, <2>3, <2>4
<1> QED
  BY <1>0, <1>3, <1>4, <1>7, <1>8 DEF IndexInv, UpdateInv

(* Steps that change only what the invariant leaves free, and where the    *)
(* caller is.                                                              *)
LEMMA QuietStep ==
  ASSUME IndexInv, SpawnedAll \/ Join \/ Visit \/ HeightsDone \/ GenerateChain \/ UNCHANGED vars
  PROVE  IndexInv'
<1>1. UNCHANGED <<disk, writing, saved, thread, blocks, fileNum, blockList, newestBlock,
                  firstFile, filePos, maxFileNum, onDisk>>
  BY DEF SpawnedAll, Join, Visit, HeightsDone, GenerateChain, vars, nodeVars, fileVars, indexVars, rangeVars, threadVars
<1>2. TypeInv' /\ QuietInv' /\ SavedInv'
  <2>1. pc' \in {"join", "heights", "generate", "save", pc}
    BY DEF SpawnedAll, Join, Visit, HeightsDone, GenerateChain, vars
  <2>2. TypeInv'
    BY <1>1, <2>1 DEF IndexInv, TypeInv
  <2> QED
    BY <1>1, <2>2, SavedFrame DEF IndexInv
<1>3. CASE pc = "idle"
  BY <1>1, <1>2, <1>3 DEF IndexInv, SpawnedAll, Join, Visit, HeightsDone, GenerateChain, vars
<1>4. CASE pc # "idle"
  <2>1. RangeInv /\ ReadInv /\ ThreadInv /\ ListInv /\ NewestInv /\ StartInv
    BY <1>4 DEF IndexInv, UpdateInv
  <2>2. RangeInv' /\ ListInv'
    BY <1>1, <2>1 DEF RangeInv, Covers, ListInv, SetOf
  <2>3. ReadInv' /\ NewestInv'
    BY <1>1, <2>1 DEF ReadInv, NewestInv, HasRead, Upto, Offset
  <2>4. StartInv'
    BY <1>1, <2>1 DEF StartInv, HasRead, Upto, Offset
  <2>5. ThreadInv' /\ pc' # "idle"
    <3>1. CASE SpawnedAll
      <4>1. fileNum = maxFileNum + 1 /\ pc' = "join"
        BY <2>1, <3>1, Basics DEF SpawnedAll, ThreadInv, RangeInv, IndexInv, TypeInv
      <4> QED
        BY <1>1, <2>1, <4>1 DEF ThreadInv
    <3>2. CASE Join
      BY <1>1, <2>1, <3>2 DEF Join, ThreadInv
    <3>3. CASE Visit
      BY <1>1, <2>1, <3>3 DEF Visit, ThreadInv
    <3>4. CASE HeightsDone
      BY <1>1, <2>1, <3>4 DEF HeightsDone, ThreadInv
    <3>6. CASE GenerateChain
      BY <1>1, <2>1, <3>6 DEF GenerateChain, ThreadInv
    <3>5. CASE UNCHANGED vars
      BY <1>1, <1>4, <2>1, <3>5 DEF vars, ThreadInv
    <3> QED
      BY <3>1, <3>2, <3>3, <3>4, <3>5, <3>6
  <2> QED
    BY <1>2, <2>2, <2>3, <2>4, <2>5 DEF IndexInv, UpdateInv
<1> QED
  BY <1>3, <1>4

-----------------------------------------------------------------------------
(* The threads that read the files.                                        *)

(* A thread is at work only in an update, on a file of its range.          *)
LEMMA AtWork ==
  ASSUME IndexInv, NEW f \in FileNums, thread[f] # "none"
  PROVE  /\ pc # "idle" /\ UpdateInv
         /\ f \in 1..Len(disk) /\ firstFile <= f /\ f <= maxFileNum /\ maxFileNum <= Len(disk)
         /\ firstFile \in Nat /\ maxFileNum \in Nat /\ maxFileNum \in FileNums
         /\ f < fileNum
         /\ Offset(f) \in Nat /\ Offset(f) <= Len(disk[f]) /\ Upto(f) \in Nat
         /\ Upto(f) = Offset(f) + Len(blocks[f])
<1>1. pc # "idle" /\ UpdateInv /\ TypeInv /\ RangeInv /\ ThreadInv
  BY DEF IndexInv, UpdateInv
<1>2. /\ firstFile \in 1..Len(disk) /\ filePos \in 0..Len(disk[firstFile])
      /\ maxFileNum \in firstFile..Len(disk)
  BY <1>1 DEF RangeInv
<1>3. firstFile <= f /\ f < fileNum /\ fileNum <= maxFileNum + 1 /\ fileNum \in Nat /\ f \in Nat
  BY <1>1, Basics DEF ThreadInv, TypeInv
<1>4. f \in 1..Len(disk) /\ f <= maxFileNum /\ maxFileNum <= Len(disk) /\ maxFileNum \in Nat
      /\ firstFile \in Nat /\ maxFileNum \in 1..Len(disk)
  BY <1>1, <1>2, <1>3, Basics
<1>5. Offset(f) \in Nat /\ Offset(f) <= Len(disk[f])
  BY <1>1, <1>2, <1>4, Basics DEF Offset
<1> QED
  BY <1>1, <1>3, <1>4, <1>5, Basics DEF Upto

(* What the steps of the threads leave alone.                              *)
LEMMA ThreadFrame ==
  ASSUME IndexInv, pc # "idle", UNCHANGED <<nodeVars, saved, rangeVars>>
  PROVE  /\ QuietInv' /\ SavedInv' /\ RangeInv'
         /\ \A f \in FileNums : Offset(f)' = Offset(f)
<1>1. UNCHANGED <<disk, writing, saved, firstFile, filePos, maxFileNum, onDisk>>
  BY DEF nodeVars, fileVars, rangeVars
<1>2. QuietInv' /\ SavedInv'
  BY <1>1, SavedFrame DEF IndexInv
<1>3. RangeInv'
  BY <1>1 DEF IndexInv, UpdateInv, RangeInv, Covers
<1>4. \A f \in FileNums : Offset(f)' = Offset(f)
  BY <1>1 DEF Offset
<1> QED
  BY <1>2, <1>3, <1>4

(* Starting a thread for the next file.                                    *)
LEMMA SpawnStep ==
  ASSUME IndexInv, Spawn
  PROVE  IndexInv'
<1>0. /\ UNCHANGED <<disk, writing, saved, blocks, blockList, newestBlock, pc,
                     firstFile, filePos, maxFileNum, onDisk>>
      /\ UNCHANGED <<nodeVars, saved, rangeVars>>
      /\ pc = "spawn" /\ fileNum <= maxFileNum /\ fileNum' = fileNum + 1
      /\ thread' = [thread EXCEPT ![fileNum] = "started"]
      /\ TypeInv /\ RangeInv /\ ReadInv /\ ThreadInv /\ ListInv /\ NewestInv /\ StartInv
  BY DEF Spawn, nodeVars, fileVars, indexVars, rangeVars, IndexInv, UpdateInv
<1>1. QuietInv' /\ SavedInv' /\ RangeInv' /\ \A f \in FileNums : Offset(f)' = Offset(f)
  BY <1>0, ThreadFrame
<1>2. fileNum \in FileNums /\ firstFile <= fileNum /\ fileNum \in Nat /\ firstFile \in Nat
      /\ maxFileNum \in Nat /\ maxFileNum \in FileNums
  BY <1>0, Basics DEF RangeInv, ThreadInv, FileNums, TypeInv
<1>3. \A f \in FileNums : thread'[f] = IF f = fileNum THEN "started" ELSE thread[f]
  BY <1>0 DEF TypeInv
<1>4. TypeInv'
  BY <1>0, <1>2 DEF TypeInv
<1>5. thread[fileNum] = "none"
  BY <1>0, <1>2 DEF ThreadInv
<1>6. ReadInv'
  BY <1>0, <1>1, <1>3 DEF ReadInv, HasRead, Upto
<1>7. ThreadInv'
  <2>1. \A f \in FileNums : f \in Nat
    BY <1>0, Basics
  <2> QED
    BY <1>0, <1>2, <1>3, <2>1 DEF ThreadInv
<1>8. ListInv'
  BY <1>0, <1>3 DEF ListInv, SetOf
<1>9. NewestInv'
  BY <1>0, <1>1, <1>2, <1>3, <1>5 DEF NewestInv, Upto
<1>10. StartInv'
  <2>1. \A g \in 1..maxFileNum : g \in FileNums
    BY <1>2, FileAssumption DEF FileNums
  <2>2. \A g \in 1..maxFileNum : (HasRead(g)' => HasRead(g)) /\ Upto(g)' = Upto(g)
    BY <1>0, <1>1, <1>3, <2>1 DEF HasRead, Upto
  <2> QED
    BY <1>0, <2>2 DEF StartInv
<1> QED
  BY <1>0, <1>1, <1>4, <1>6, <1>7, <1>8, <1>9, <1>10 DEF IndexInv, UpdateInv

(* A thread begins, or fails: then it is that of the last file, and not in *)
(* the first update.                                                       *)
LEMMA EnterOrFail ==
  ASSUME IndexInv, NEW f \in FileNums, Enter(f) \/ ScanFails(f)
  PROVE  IndexInv'
<1>0. /\ UNCHANGED <<disk, writing, saved, blocks, blockList, newestBlock, pc, fileNum,
                     firstFile, filePos, maxFileNum, onDisk>>
      /\ UNCHANGED <<nodeVars, saved, rangeVars>>
      /\ thread[f] \in {"started", "scan"} /\ thread[f] # "none"
      /\ \E s \in {"scan", "failed"} : thread' = [thread EXCEPT ![f] = s]
  BY DEF Enter, ScanFails, nodeVars, fileVars, indexVars, rangeVars
<1>1. /\ pc # "idle" /\ UpdateInv /\ f \in 1..Len(disk)
      /\ f <= maxFileNum /\ maxFileNum <= Len(disk) /\ maxFileNum \in Nat /\ maxFileNum \in FileNums
      /\ Offset(f) \in Nat /\ Offset(f) <= Len(disk[f])
  BY <1>0, AtWork
<1>2. TypeInv /\ RangeInv /\ ReadInv /\ ThreadInv /\ ListInv /\ NewestInv /\ StartInv
  BY <1>1 DEF IndexInv, UpdateInv
<1>3. QuietInv' /\ SavedInv' /\ RangeInv' /\ \A g \in FileNums : Offset(g)' = Offset(g)
  BY <1>0, <1>1, ThreadFrame
<1>4. /\ \A g \in FileNums : g # f => thread'[g] = thread[g]
      /\ thread'[f] \in {"scan", "failed"}
  BY <1>0, <1>2 DEF TypeInv
<1>5. TypeInv'
  BY <1>0, <1>2 DEF TypeInv
<1>6. ReadInv'
  BY <1>0, <1>2, <1>3, <1>4 DEF ReadInv, HasRead, Upto
<1>7. thread'[f] = "failed" => f = maxFileNum /\ saved.blockList # {}
  <2>1. CASE Enter(f)
    BY <1>2, <2>1 DEF Enter, TypeInv
  <2>2. CASE ScanFails(f)
    <3>1. Len(disk[f]) \in Nat /\ Len(disk) \in Nat
      BY <1>1, <1>2, Basics
    <3>2. ~(Offset(f) > Len(disk[f]))
      BY <1>1, <3>1
    <3>3. f = Len(disk) /\ writing # NullHash
      BY <2>2, <3>2 DEF ScanFails
    <3> QED
      BY <1>1, <3>1, <3>3 DEF IndexInv, QuietInv
  <2> QED
    BY <2>1, <2>2
<1>8. ThreadInv'
  <2>1. \A g \in FileNums : thread'[g] = "none" <=> thread[g] = "none"
    BY <1>0, <1>4
  <2>2. ~(pc \in {"heights", "generate", "save"})
    BY <1>0, <1>2 DEF ThreadInv
  <2> QED
    BY <1>0, <1>2, <1>4, <1>7, <2>1, <2>2 DEF ThreadInv
<1>9. ListInv'
  BY <1>0, <1>2, <1>4 DEF ListInv, SetOf
<1>10. NewestInv'
  BY <1>0, <1>1, <1>2, <1>3, <1>4 DEF NewestInv, Upto
<1>11. StartInv'
  <2>1. \A g \in 1..maxFileNum : g \in FileNums
    BY <1>1, FileAssumption DEF FileNums
  <2>2. \A g \in 1..maxFileNum : (HasRead(g)' => HasRead(g)) /\ Upto(g)' = Upto(g)
    BY <1>0, <1>3, <1>4, <2>1 DEF HasRead, Upto
  <2> QED
    BY <1>0, <1>2, <2>2 DEF StartInv
<1> QED
  BY <1>0, <1>1, <1>3, <1>5, <1>6, <1>8, <1>9, <1>10, <1>11 DEF IndexInv, UpdateInv

(* A thread reads its file to the end of what is there.                    *)
LEMMA ScanStep ==
  ASSUME IndexInv, NEW f \in FileNums, Scan(f)
  PROVE  IndexInv'
<1>0. /\ UNCHANGED <<disk, writing, saved, blockList, newestBlock, pc, fileNum,
                     firstFile, filePos, maxFileNum, onDisk>>
      /\ UNCHANGED <<nodeVars, saved, rangeVars>>
      /\ thread[f] = "scan" /\ thread[f] # "none"
      /\ thread' = [thread EXCEPT ![f] = "found"]
      /\ blocks' = [blocks EXCEPT ![f] = SubSeq(disk[f], Offset(f) + 1, Len(disk[f]))]
  BY DEF Scan, nodeVars, fileVars, indexVars, rangeVars
<1>1. /\ pc # "idle" /\ UpdateInv /\ f \in 1..Len(disk)
      /\ f <= maxFileNum /\ maxFileNum <= Len(disk) /\ maxFileNum \in Nat /\ maxFileNum \in FileNums
      /\ Offset(f) \in Nat /\ Offset(f) <= Len(disk[f])
  BY <1>0, AtWork
<1>2. TypeInv /\ RangeInv /\ ReadInv /\ ThreadInv /\ ListInv /\ NewestInv /\ StartInv
  BY <1>1 DEF IndexInv, UpdateInv
<1>3. QuietInv' /\ SavedInv' /\ RangeInv' /\ \A g \in FileNums : Offset(g)' = Offset(g)
  BY <1>0, <1>1, ThreadFrame
<1>4. \A g \in FileNums : /\ thread'[g] = IF g = f THEN "found" ELSE thread[g]
                          /\ g # f => blocks'[g] = blocks[g]
  BY <1>0, <1>2 DEF TypeInv
<1> DEFINE s == SubSeq(disk[f], Offset(f) + 1, Len(disk[f]))
<1>5. /\ s \in Seq(Block) /\ Len(s) = Len(disk[f]) - Offset(f)
      /\ \A q \in 1..Len(s) : s[q] = disk[f][Offset(f) + q]
  <2>1. disk[f] \in Seq(Block) /\ Len(disk[f]) \in Nat
    BY <1>1, <1>2, Basics
  <2>2. \A i \in (Offset(f) + 1)..Len(disk[f]) : disk[f][i] \in Block
    BY <1>1, <2>1, ElementOfSeq
  <2>3. /\ s \in Seq(Block)
        /\ Len(s) = IF Offset(f) + 1 <= Len(disk[f]) THEN Len(disk[f]) - (Offset(f) + 1) + 1 ELSE 0
        /\ \A i \in 1..(Len(disk[f]) - (Offset(f) + 1) + 1) : s[i] = disk[f][(Offset(f) + 1) + i - 1]
    BY <1>1, <2>1, <2>2, SubSeqProperties
  <2>4. Len(s) = Len(disk[f]) - Offset(f) /\ Len(s) = Len(disk[f]) - (Offset(f) + 1) + 1
    BY <1>1, <2>1, <2>3
  <2> HIDE DEF s
  <2>5. \A q \in 1..Len(s) : (Offset(f) + 1) + q - 1 = Offset(f) + q
    BY <1>1, <2>1, <2>4
  <2> QED
    BY <2>3, <2>4, <2>5
<1>6. blocks'[f] = s
  BY <1>0, <1>2 DEF TypeInv
<1>7. TypeInv'
  BY <1>0, <1>2, <1>5 DEF TypeInv
<1> HIDE DEF s
<1>8. Len(disk[f]) \in Nat /\ \A g \in FileNums : g # f => Upto(g)' = Upto(g)
  BY <1>1, <1>2, <1>3, <1>4, Basics DEF Upto
<1>9. Upto(f)' = Len(disk[f])
  BY <1>1, <1>3, <1>5, <1>6, <1>8 DEF Upto
<1>10. ReadInv'
  <2> SUFFICES ASSUME NEW g \in FileNums, HasRead(g)'
               PROVE  /\ Upto(g)' <= Len(disk'[g])
                      /\ g < maxFileNum' \/ saved'.blockList = {} => Upto(g)' = Len(disk'[g])
                      /\ \A q \in 1..Len(blocks'[g]) : blocks'[g][q] = disk'[g][Offset(g)' + q]
    BY DEF ReadInv
  <2>1. CASE g = f
    <3>1. Upto(g)' = Len(disk'[g]) /\ Len(disk'[g]) \in Nat
      BY <1>0, <1>8, <1>9, <2>1
    <3>2. Offset(g)' = Offset(f) /\ blocks'[g] = s /\ disk'[g] = disk[f]
      BY <1>0, <1>3, <1>6, <2>1
    <3> QED
      BY <1>5, <3>1, <3>2
  <2>2. CASE g # f
    BY <1>0, <1>2, <1>3, <1>4, <1>8, <2>2 DEF ReadInv, HasRead
  <2> QED
    BY <2>1, <2>2
<1>11. ThreadInv'
  <2>1. \A g \in FileNums : thread'[g] = "none" <=> thread[g] = "none"
    BY <1>0, <1>4
  <2>2. ~(pc \in {"heights", "generate", "save"})
    BY <1>0, <1>2 DEF ThreadInv
  <2> QED
    BY <1>0, <1>2, <1>4, <2>1, <2>2 DEF ThreadInv
<1>12. ListInv'
  BY <1>0, <1>2, <1>4 DEF ListInv, SetOf
<1>13. NewestInv'
  BY <1>0, <1>1, <1>2, <1>4, <1>8 DEF NewestInv
<1>14. StartInv'
  <2> SUFFICES ASSUME NEW b \in onDisk
               PROVE  \E g \in 1..maxFileNum : \E q \in 1..Len(disk[g]) :
                        disk[g][q] = b /\ (HasRead(g)' => q <= Upto(g)')
    BY <1>0 DEF StartInv
  <2>1. PICK g \in 1..maxFileNum : \E q \in 1..Len(disk[g]) :
               disk[g][q] = b /\ (HasRead(g) => q <= Upto(g))
    BY <1>2 DEF StartInv
  <2>2. PICK q \in 1..Len(disk[g]) : disk[g][q] = b /\ (HasRead(g) => q <= Upto(g))
    BY <2>1
  <2>3. g \in FileNums
    BY <1>1, FileAssumption DEF FileNums
  <2>4. HasRead(g)' => q <= Upto(g)'
    BY <1>4, <1>8, <1>9, <2>2, <2>3 DEF HasRead
  <2> QED
    BY <2>2, <2>4
<1> QED
  BY <1>0, <1>1, <1>3, <1>7, <1>10, <1>11, <1>12, <1>13, <1>14 DEF IndexInv, UpdateInv

(* A thread moves on with what it has read: it records its newest block,   *)
(* and then adds its blocks to the index.                                  *)
LEMMA LeaveOrMerge ==
  ASSUME IndexInv, NEW f \in FileNums, Leave(f) \/ Merge(f)
  PROVE  IndexInv'
<1>0. /\ UNCHANGED <<disk, writing, saved, blocks, pc, fileNum,
                     firstFile, filePos, maxFileNum, onDisk>>
      /\ UNCHANGED <<nodeVars, saved, rangeVars>>
      /\ HasRead(f) /\ thread[f] # "none" /\ thread[f] # "done"
      /\ \E s \in {"merge", "done"} : thread' = [thread EXCEPT ![f] = s]
  BY DEF Leave, Merge, nodeVars, fileVars, indexVars, rangeVars, HasRead
<1>1. /\ pc # "idle" /\ UpdateInv /\ f \in 1..Len(disk)
      /\ maxFileNum \in Nat /\ maxFileNum \in FileNums
      /\ Upto(f) = Offset(f) + Len(blocks[f])
  BY <1>0, AtWork
<1>2. TypeInv /\ RangeInv /\ ReadInv /\ ThreadInv /\ ListInv /\ NewestInv /\ StartInv
  BY <1>1 DEF IndexInv, UpdateInv
<1>3. QuietInv' /\ SavedInv' /\ RangeInv' /\ \A g \in FileNums : Offset(g)' = Offset(g)
  BY <1>0, <1>1, ThreadFrame
<1>4. /\ \A g \in FileNums : g # f => thread'[g] = thread[g]
      /\ thread'[f] \in {"merge", "done"}
  BY <1>0, <1>2 DEF TypeInv
<1>5. \A g \in FileNums : (HasRead(g)' <=> HasRead(g)) /\ Upto(g)' = Upto(g)
  BY <1>0, <1>3, <1>4 DEF HasRead, Upto
<1>6. TypeInv'
  BY <1>0, <1>2 DEF TypeInv
<1>7. ReadInv'
  BY <1>0, <1>2, <1>3, <1>5 DEF ReadInv
<1>8. ThreadInv'
  <2>1. \A g \in FileNums : thread'[g] = "none" <=> thread[g] = "none"
    BY <1>0, <1>4
  <2>2. ~(pc \in {"heights", "generate", "save"})
    BY <1>0, <1>2 DEF ThreadInv, HasRead
  <2> QED
    BY <1>0, <1>2, <1>4, <2>1, <2>2 DEF ThreadInv
<1>9. ListInv' /\ NewestInv'
  <2>1. CASE Leave(f)
    <3>1. /\ blockList' = blockList /\ thread[f] = "found" /\ thread'[f] = "merge"
          /\ newestBlock' = IF SetsNewest(f) THEN <<f, Offset(f) + Len(blocks[f])>> ELSE newestBlock
      BY <1>2, <2>1 DEF Leave, TypeInv
    <3>2. ListInv'
      BY <1>0, <1>2, <1>4, <3>1 DEF ListInv, SetOf
    <3>3. CASE f = maxFileNum
      <4>1. newestBlock = saved.newestBlock
        BY <1>2, <3>1, <3>3 DEF NewestInv
      <4> QED
        BY <1>0, <1>1, <1>5, <3>1, <3>2, <3>3, <4>1 DEF NewestInv, SetsNewest
    <3>4. CASE f # maxFileNum
      BY <1>0, <1>1, <1>2, <1>4, <1>5, <3>1, <3>2, <3>4 DEF NewestInv, SetsNewest
    <3> QED
      BY <3>3, <3>4
  <2>2. CASE Merge(f)
    <3>1. /\ blockList' = blockList \cup SetOf(blocks[f]) /\ newestBlock' = newestBlock
          /\ thread[f] = "merge" /\ thread'[f] = "done"
      BY <1>2, <2>2 DEF Merge, TypeInv
    <3>2. ListInv'
      BY <1>0, <1>2, <1>4, <3>1 DEF ListInv, SetOf
    <3>3. NewestInv'
      BY <1>0, <1>1, <1>2, <1>4, <1>5, <3>1 DEF NewestInv
    <3> QED
      BY <3>2, <3>3
  <2> QED
    BY <2>1, <2>2
<1>10. StartInv'
  <2>1. \A g \in 1..maxFileNum : g \in FileNums
    BY <1>1, FileAssumption DEF FileNums
  <2> QED
    BY <1>0, <1>2, <1>5, <2>1 DEF StartInv
<1> QED
  BY <1>0, <1>1, <1>3, <1>6, <1>7, <1>8, <1>9, <1>10 DEF IndexInv, UpdateInv

-----------------------------------------------------------------------------
(* The end of an update.                                                   *)

(* When the threads have ended, the index has what each of them read and   *)
(* what the saved index had.                                               *)
LEMMA Indexed ==
  ASSUME IndexInv, pc \in {"heights", "generate", "save"},
         NEW g \in 1..maxFileNum, NEW q \in 1..Len(disk[g]),
         g < maxFileNum \/ thread[g] # "failed", HasRead(g) => q <= Upto(g)
  PROVE  disk[g][q] \in blockList
<1>1. TypeInv /\ RangeInv /\ ReadInv /\ ThreadInv /\ ListInv
  BY DEF IndexInv, UpdateInv
<1>2. /\ firstFile \in 1..Len(disk) /\ filePos \in 0..Len(disk[firstFile])
      /\ maxFileNum \in firstFile..Len(disk) /\ Len(disk) \in Nat
  BY <1>1, Basics DEF RangeInv
<1>3. g \in 1..Len(disk) /\ g \in FileNums /\ Len(disk[g]) \in Nat /\ Len(blocks[g]) \in Nat
      /\ Len(disk[firstFile]) \in Nat
  <2>1. g \in 1..Len(disk)
    BY <1>2
  <2>2. g \in FileNums
    BY <1>1, <2>1, Basics
  <2> QED
    BY <1>1, <1>2, <2>1, <2>2, Basics
<1>4. CASE g < firstFile \/ (g = firstFile /\ q <= filePos)
  <2>1. Covers(saved.blockList, firstFile, filePos)
    BY <1>1, <1>2, <1>3, <1>4 DEF RangeInv
  <2> QED
    BY <1>1, <1>3, <1>4, <2>1 DEF Covers, ListInv
<1>5. CASE ~(g < firstFile \/ (g = firstFile /\ q <= filePos))
  <2>1. firstFile <= g /\ g < fileNum
    BY <1>1, <1>2, <1>3, <1>5 DEF ThreadInv
  <2>2. thread[g] = "done"
    BY <1>1, <1>2, <1>3, <2>1 DEF ThreadInv
  <2>3. q <= Upto(g) /\ Upto(g) = Offset(g) + Len(blocks[g])
    BY <2>2 DEF HasRead, Upto
  <2>4. Offset(g) \in Nat /\ Offset(g) < q
    BY <1>2, <1>3, <1>5, <2>1 DEF Offset
  <2>5. q - Offset(g) \in 1..Len(blocks[g]) /\ Offset(g) + (q - Offset(g)) = q
    BY <1>3, <2>3, <2>4
  <2>6. blocks[g][q - Offset(g)] = disk[g][q]
    BY <1>1, <1>3, <2>2, <2>5 DEF ReadInv, HasRead
  <2>7. disk[g][q] \in SetOf(blocks[g])
    BY <1>1, <1>3, <2>5, <2>6, Basics DEF SetOf
  <2> QED
    BY <1>1, <1>3, <2>2, <2>7 DEF ListInv
<1> QED
  BY <1>4, <1>5

(* The index that is saved covers its newest block.                        *)
LEMMA SaveStep ==
  ASSUME IndexInv, Save
  PROVE  IndexInv'
<1>0. /\ pc = "save" /\ pc' = "idle" /\ UNCHANGED <<disk, writing>>
      /\ saved'.blockList = blockList /\ saved'.newestBlock = newestBlock
      /\ fileNum' = 1 /\ thread' = [f \in FileNums |-> "none"]
      /\ blocks' = [f \in FileNums |-> << >>]
  BY DEF Save, ForgetLocals, nodeVars, fileVars
<1>1. TypeInv /\ QuietInv /\ SavedInv /\ RangeInv /\ ReadInv /\ ThreadInv /\ ListInv /\ NewestInv
  BY <1>0 DEF IndexInv, UpdateInv
<1>2. TypeInv'
  BY <1>0, <1>1, EmptySeq DEF TypeInv
<1>3. QuietInv'
  BY <1>0, <1>1 DEF QuietInv, ListInv
<1>4. /\ firstFile \in 1..Len(disk) /\ filePos \in 0..Len(disk[firstFile])
      /\ maxFileNum \in firstFile..Len(disk) /\ Len(disk) \in Nat
      /\ maxFileNum \in 1..Len(disk) /\ maxFileNum \in FileNums /\ Len(disk[maxFileNum]) \in Nat
      /\ Len(blocks[maxFileNum]) \in Nat /\ blocks[maxFileNum] \in Seq(Block)
      /\ Len(disk[firstFile]) \in Nat
  <2>1. /\ firstFile \in 1..Len(disk) /\ filePos \in 0..Len(disk[firstFile])
        /\ maxFileNum \in firstFile..Len(disk) /\ Len(disk) \in Nat
    BY <1>1, Basics DEF RangeInv
  <2>2. maxFileNum \in 1..Len(disk)
    BY <2>1
  <2>3. maxFileNum \in FileNums
    BY <1>1, <2>2, Basics
  <2> QED
    BY <1>1, <2>1, <2>2, <2>3, Basics
<1>5. thread[maxFileNum] \in {"done", "failed"}
  <2>1. firstFile <= maxFileNum /\ maxFileNum < fileNum
    BY <1>0, <1>1, <1>4 DEF ThreadInv
  <2> QED
    BY <1>0, <1>1, <1>4, <2>1 DEF ThreadInv
<1>6. CASE thread[maxFileNum] = "done" /\ blocks[maxFileNum] # << >>
  <2> DEFINE p == Upto(maxFileNum)
  <2>1. newestBlock = <<maxFileNum, p>>
    BY <1>1, <1>6 DEF NewestInv
  <2>2. p \in 1..Len(disk[maxFileNum])
    <3>1. Len(blocks[maxFileNum]) # 0
      BY <1>4, <1>6, EmptySeq
    <3>2. Offset(maxFileNum) \in Nat
      BY <1>4 DEF Offset
    <3>3. p <= Len(disk[maxFileNum])
      BY <1>1, <1>4, <1>6 DEF ReadInv, HasRead
    <3> QED
      BY <1>4, <3>1, <3>2, <3>3 DEF Upto
  <2>3. Covers(blockList, maxFileNum, p)
    <3> SUFFICES ASSUME NEW g \in 1..Len(disk), NEW q \in 1..Len(disk[g]),
                        g < maxFileNum \/ (g = maxFileNum /\ q <= p)
                 PROVE  disk[g][q] \in blockList
      BY DEF Covers
    <3>1. g \in 1..maxFileNum /\ g \in FileNums /\ g \in Nat
      <4>1. g \in FileNums
        BY <1>1, Basics
      <4> QED
        BY <1>4, <4>1
    <3>2. g < maxFileNum \/ thread[g] # "failed"
      BY <1>6
    <3>3. HasRead(g) => q <= Upto(g)
      BY <1>1, <3>1 DEF ReadInv
    <3> QED
      BY <1>0, <3>1, <3>2, <3>3, Indexed
  <2> HIDE DEF p
  <2>4. \E x \in 1..Len(disk[maxFileNum]) :
          newestBlock = <<maxFileNum, x>> /\ Covers(blockList, maxFileNum, x)
    BY <2>1, <2>2, <2>3
  <2>5. SavedInv'
    BY <1>0, <1>4, <2>4 DEF SavedInv, Covers
  <2> QED
    BY <1>0, <1>2, <1>3, <2>5 DEF IndexInv
<1>7. CASE ~(thread[maxFileNum] = "done" /\ blocks[maxFileNum] # << >>)
  <2>1. newestBlock = saved.newestBlock
    BY <1>1, <1>5, <1>7 DEF NewestInv
  <2>2. saved.blockList # {}
    <3> SUFFICES ASSUME saved.blockList = {} PROVE FALSE
      OBVIOUS
    <3>1. disk = << <<Genesis>> >> /\ firstFile = 1 /\ filePos = 0 /\ maxFileNum = 1
      <4>1. disk = << <<Genesis>> >> /\ firstFile = 1 /\ filePos = 0
        BY <1>1 DEF QuietInv, RangeInv
      <4>2. Len(disk) = 1
        BY <4>1
      <4> QED
        BY <1>4, <4>1, <4>2
    <3>2. thread[1] = "done"
      BY <1>1, <1>4, <1>5, <3>1 DEF ThreadInv
    <3>3. Upto(1) = Len(disk[1])
      BY <1>1, <1>4, <3>1, <3>2 DEF ReadInv, HasRead
    <3>4. Len(disk[1]) = 1 /\ Offset(1) = 0
      <4>1. disk[1] = <<Genesis>>
        BY <3>1
      <4> QED
        BY <3>1, <4>1 DEF Offset
    <3>5. Len(blocks[1]) = 1
      BY <1>4, <3>1, <3>3, <3>4 DEF Upto
    <3>6. blocks[1] # << >>
      BY <1>4, <3>1, <3>5, EmptySeq
    <3> QED
      BY <1>7, <3>1, <3>2, <3>6
  <2>3. PICK f \in 1..Len(disk) : \E p \in 1..Len(disk[f]) :
               saved.newestBlock = <<f, p>> /\ Covers(saved.blockList, f, p)
    BY <1>1, <2>2 DEF SavedInv
  <2>4. \E p \in 1..Len(disk[f]) : newestBlock = <<f, p>> /\ Covers(blockList, f, p)
    BY <1>1, <2>1, <2>3 DEF Covers, ListInv
  <2>5. SavedInv'
    BY <1>0, <2>4 DEF SavedInv, Covers
  <2> QED
    BY <1>0, <1>2, <1>3, <2>5 DEF IndexInv
<1> QED
  BY <1>6, <1>7

(* A killed parser goes back to the saved index.                           *)
LEMMA CrashStep ==
  ASSUME IndexInv, Crash
  PROVE  IndexInv'
<1>0. /\ pc' = "idle" /\ UNCHANGED <<disk, writing, saved>>
      /\ fileNum' = 1 /\ thread' = [f \in FileNums |-> "none"]
      /\ blocks' = [f \in FileNums |-> << >>]
  BY DEF Crash, ForgetLocals, nodeVars, fileVars
<1>1. TypeInv'
  BY <1>0, EmptySeq DEF TypeInv, IndexInv
<1>2. QuietInv' /\ SavedInv'
  BY <1>0, SavedFrame DEF IndexInv
<1> QED
  BY <1>0, <1>1, <1>2 DEF IndexInv

(* An empty index is up to date with no files.                             *)
LEMMA IndexInit == Init => IndexInv
<1> SUFFICES ASSUME Init PROVE IndexInv
  OBVIOUS
<1>1. Genesis \in Block /\ NullHash \notin Block /\ 1 \in 1..MaxFile
  BY BlockAssumption, FileAssumption
<1>2. TypeInv
  BY <1>1, EmptySeq DEF Init, TypeInv, FileNums
<1>3. QuietInv /\ SavedInv
  BY DEF Init, QuietInv, SavedInv
<1> QED
  BY <1>2, <1>3 DEF Init, IndexInv

(* If the node is stopped during the first parse, then however the updates *)
(* after it are timed, fail or are killed, every saved index has all that  *)
(* was written before its newest block.                                    *)
THEOREM IndexInvariance == QuietFirst => (Spec => []IndexInv)
<1> SUFFICES ASSUME QuietFirst PROVE Spec => []IndexInv
  OBVIOUS
<1>1. IndexInv /\ [Next]_vars => IndexInv'
  <2> SUFFICES ASSUME IndexInv, [Next]_vars PROVE IndexInv'
    OBVIOUS
  <2>1. CASE Node
    BY <2>1, NodeStep
  <2>2. CASE Start
    BY <2>2, StartStep
  <2>3. CASE Spawn
    BY <2>3, SpawnStep
  <2>4. CASE SpawnedAll \/ Join \/ Visit \/ HeightsDone \/ GenerateChain \/ UNCHANGED vars
    BY <2>4, QuietStep
  <2>5. CASE Save
    BY <2>5, SaveStep
  <2>6. CASE Crash
    BY <2>6, CrashStep
  <2>7. ASSUME NEW f \in FileNums, Thread(f) PROVE IndexInv'
    BY <2>7, EnterOrFail, ScanStep, LeaveOrMerge DEF Thread
  <2> QED
    BY <2>1, <2>2, <2>3, <2>4, <2>5, <2>6, <2>7 DEF Next, Run, Update, StartThrows
<1> QED
  BY IndexInit, <1>1, PTL DEF Spec

(* An update reads on from a block the saved index has, never from a       *)
(* position that was left uninitialised.                                   *)
THEOREM ResumeIsSound == QuietFirst => (Spec => []ResumesFromProcessedBlock)
<1>1. IndexInv => ResumesFromProcessedBlock
  <2> SUFFICES ASSUME IndexInv, pc # "idle", saved.blockList # {}
               PROVE  /\ firstFile \in DOMAIN disk /\ filePos \in DOMAIN disk[firstFile]
                      /\ disk[firstFile][filePos] \in saved.blockList
    BY DEF ResumesFromProcessedBlock, IndexInv, UpdateInv, RangeInv
  <2>1. TypeInv /\ RangeInv
    BY DEF IndexInv, UpdateInv
  <2>2. /\ firstFile \in 1..Len(disk) /\ filePos \in 0..Len(disk[firstFile]) /\ filePos # 0
        /\ Covers(saved.blockList, firstFile, filePos)
    BY <2>1 DEF RangeInv
  <2>3. Len(disk[firstFile]) \in Nat
    BY <2>1, <2>2, Basics
  <2>4. filePos \in 1..Len(disk[firstFile])
    BY <2>2, <2>3
  <2>5. disk[firstFile][filePos] \in saved.blockList
    BY <2>2, <2>3, <2>4 DEF Covers
  <2> QED
    BY <2>1, <2>2, <2>4, <2>5, Basics
<1> QED
  BY IndexInvariance, <1>1, PTL

(* If no thread of an update failed, the index has every block that was on *)
(* disk when the update began.                                             *)
THEOREM IndexIsComplete == QuietFirst => (Spec => []IndexComplete)
<1>1. IndexInv => IndexComplete
  <2> SUFFICES ASSUME IndexInv, pc \in {"heights", "generate", "save"},
                      \A f \in FileNums : thread[f] # "failed", NEW b \in onDisk
               PROVE  b \in blockList
    BY DEF IndexComplete
  <2>1. TypeInv /\ RangeInv /\ StartInv
    BY DEF IndexInv, UpdateInv
  <2>2. PICK g \in 1..maxFileNum : \E q \in 1..Len(disk[g]) :
               disk[g][q] = b /\ (HasRead(g) => q <= Upto(g))
    BY <2>1 DEF StartInv
  <2>3. PICK q \in 1..Len(disk[g]) : disk[g][q] = b /\ (HasRead(g) => q <= Upto(g))
    BY <2>2
  <2>4. g \in 1..Len(disk)
    BY <2>1, Basics DEF RangeInv
  <2>5. g \in FileNums
    BY <2>1, <2>4, Basics
  <2> QED
    BY <2>3, <2>5, Indexed
<1> QED
  BY IndexInvariance, <1>1, PTL

-----------------------------------------------------------------------------
(* The heights, and the chain.  None of this depends on QuietFirst: an     *)
(* index that misses blocks still leads to the longest chain it has.       *)

Positions == {<< >>} \cup (Nat \X Nat)
Within(b, S) == SetOf(Ancestry[b]) \subseteq S
Depth(b) == Len(Ancestry[b])

LocalInv ==
  /\ TypeInv
  /\ newestBlock \in Positions /\ saved.newestBlock \in Positions
  /\ firstFile \in Nat /\ filePos \in Nat /\ maxFileNum \in Nat
  /\ \A f \in FileNums : thread[f] # "none" => f <= Len(disk)
  /\ pc = "idle" => \A f \in FileNums : thread[f] = "none"
  /\ pc = "spawn" /\ fileNum <= maxFileNum => maxFileNum <= Len(disk)
  /\ pc \in {"heights", "generate", "save"} =>
       \A f \in FileNums : thread[f] \in {"none", "done", "failed"}

(* The blocks of an index are finitely many.                               *)
FiniteInv ==
  /\ blockList \subseteq Block /\ IsFiniteSet(blockList)
  /\ saved.blockList \subseteq Block /\ IsFiniteSet(saved.blockList)
  /\ pc # "idle" => saved.blockList \subseteq blockList

(* The genesis block comes first in the first file.  Only a thread that is *)
(* alone can fail to read it, and then the index stays empty.              *)
FirstReadInv ==
  /\ firstFile = 1 /\ filePos = 0 /\ 1 <= maxFileNum /\ maxFileNum <= Len(disk)
  /\ 1 <= fileNum
  /\ \A f \in FileNums : thread[f] # "none" <=> f < fileNum
  /\ \A f \in FileNums : thread[f] # "none" => f <= maxFileNum
  /\ pc # "spawn" => fileNum > maxFileNum
  /\ thread[1] = "failed" => maxFileNum = 1
  /\ thread[1] \in {"found", "merge"} => Genesis \in SetOf(blocks[1])
  /\ thread[1] = "done" => Genesis \in blockList
  /\ blockList # {} => \E f \in FileNums : thread[f] = "done"

GenesisInv ==
  /\ disk[1] # << >> /\ disk[1][1] = Genesis
  /\ saved.blockList # {} => Genesis \in saved.blockList
  /\ pc # "idle" /\ saved.blockList = {} => FirstReadInv

(* A height is that of the block, all of whose ancestors are in the index. *)
Heights(S, H) ==
  /\ H \in [Block -> Int]
  /\ \A b \in Block : H[b] # -1 => H[b] = Depth(b) /\ Within(b, S)

HeightInv == Heights(blockList, height) /\ Heights(saved.blockList, saved.height)

(* The stack of the traversal: blocks whose children have no height yet.   *)
Frame(e) ==
  \/ e = <<NullHash, 0>>
  \/ \E b \in Block : e = <<b, Depth(b)>> /\ Within(b, blockList)

Waits(b) ==
  \E i \in DOMAIN stack :
    \/ stack[i][1] = NullHash
    \/ \E j \in 1..(Depth(b) - 1) : stack[i][1] = Ancestry[b][j]

StackInv ==
  /\ stack \in Seq((Block \cup {NullHash}) \X Nat)
  /\ pc # "heights" => stack = << >>
  /\ \A i \in DOMAIN stack : Frame(stack[i])
  /\ pc \in {"heights", "generate", "save"} =>
       \A b \in Block : Within(b, blockList) => height[b] = Depth(b) \/ Waits(b)

(* The chain that was returned last is in the saved index, or in the one   *)
(* that is being saved.  After a torn save there is no next chain.         *)
Returned(S) ==
  chain = << >> \/ \E b \in Block : Within(b, S) /\ chain = Truncate(Ancestry[b])

ChainInv ==
  /\ Returned(Block)
  /\ torn => pc \in {"idle", "save"}
  /\ pc = "save" => Returned(blockList)
  /\ ~torn => Returned(saved.blockList)

LongestInv == LocalInv /\ FiniteInv /\ GenesisInv /\ HeightInv /\ StackInv /\ ChainInv

-----------------------------------------------------------------------------
(* The tree of blocks.                                                     *)
Less == {ss \in Nat \X Nat : ss[1] < ss[2]}

(* A set of natural numbers has a least one.                               *)
LEMMA LeastNumber ==
  ASSUME NEW T, T \subseteq Nat, T # {}
  PROVE  \E x \in T : \A y \in T : x <= y
<1>1. IsWellFoundedOn(Less, Nat)
  BY NatLessThanWellFounded, Zenon DEF OpToRel, Less
<1>2. PICK x \in T : \A y \in T : ~(<<y, x>> \in Less)
  BY <1>1, WFMin
<1>3. \A y \in T : x <= y
  <2> TAKE y \in T
  <2>1. x \in Nat /\ y \in Nat /\ ~(<<y, x>> \in Less)
    BY <1>2
  <2>2. ~(y < x)
    BY <2>1 DEF Less
  <2> QED
    BY <2>1, <2>2
<1> QED
  BY <1>3

(* The ancestry of a block is that of its parent, and the block.           *)
LEMMA Unfolded ==
  ASSUME NEW b \in Block
  PROVE  /\ Ancestry[b] \in Seq(Block) /\ DOMAIN Ancestry[b] = 1..Depth(b)
         /\ Depth(b) \in Nat \ {0} /\ Ancestry[b][Depth(b)] = b
         /\ Prev[b] = NullHash => Depth(b) = 1 /\ SetOf(Ancestry[b]) = {b}
         /\ Prev[b] # NullHash =>
              /\ Prev[b] \in Block /\ Depth(Prev[b]) \in Nat \ {0}
              /\ Depth(b) = Depth(Prev[b]) + 1
              /\ \A i \in 1..Depth(Prev[b]) : Ancestry[b][i] = Ancestry[Prev[b]][i]
              /\ SetOf(Ancestry[b]) = SetOf(Ancestry[Prev[b]]) \cup {b}
<1>1. /\ Ancestry[b] \in Seq(Block)
      /\ Ancestry[b] = IF Prev[b] = NullHash THEN <<b>> ELSE Append(Ancestry[Prev[b]], b)
  BY AncestryAssumption
<1>2. DOMAIN Ancestry[b] = 1..Depth(b) /\ Depth(b) \in Nat
  BY <1>1, LenProperties DEF Depth
<1>3. CASE Prev[b] = NullHash
  <2>1. Ancestry[b] = <<b>>
    BY <1>1, <1>3
  <2>2. Depth(b) = 1 /\ Ancestry[b][1] = b
    BY <2>1 DEF Depth
  <2>3. SetOf(Ancestry[b]) = {b}
    BY <1>2, <2>2 DEF SetOf
  <2> QED
    BY <1>1, <1>2, <1>3, <2>2, <2>3
<1>4. CASE Prev[b] # NullHash
  <2>1. Prev[b] \in Block
    BY <1>4, BlockAssumption
  <2> DEFINE s == Ancestry[Prev[b]]
  <2>2. s \in Seq(Block) /\ Len(s) \in Nat /\ DOMAIN s = 1..Len(s)
    BY <2>1, AncestryAssumption, LenProperties
  <2>3. Ancestry[b] = Append(s, b)
    BY <1>1, <1>4
  <2>4. s # << >>
    <3>1. CASE Prev[Prev[b]] = NullHash
      <4>1. s = <<Prev[b]>>
        BY <2>1, <3>1, AncestryAssumption
      <4> QED
        BY <4>1
    <3>2. CASE Prev[Prev[b]] # NullHash
      <4>1. s = Append(Ancestry[Prev[Prev[b]]], Prev[b])
        BY <2>1, <3>2, AncestryAssumption
      <4>2. Ancestry[Prev[Prev[b]]] \in Seq(Block)
        BY <2>1, <3>2, AncestryAssumption, BlockAssumption
      <4> QED
        BY <2>1, <4>1, <4>2, AppendProperties
    <3> QED
      BY <3>1, <3>2
  <2>5. Len(s) # 0
    BY <2>2, <2>4, EmptySeq
  <2>6. /\ Len(Ancestry[b]) = Len(s) + 1 /\ Ancestry[b][Len(s) + 1] = b
        /\ \A i \in 1..Len(s) : Ancestry[b][i] = s[i]
    BY <2>2, <2>3, AppendProperties
  <2>7. Depth(Prev[b]) = Len(s)
    BY DEF Depth
  <2>8. Depth(b) = Len(s) + 1
    BY <2>6 DEF Depth
  <2>9. SetOf(Ancestry[b]) = SetOf(s) \cup {b}
    <3>1. ASSUME NEW x \in SetOf(Ancestry[b]) PROVE x \in SetOf(s) \cup {b}
      <4>1. PICK i \in 1..(Len(s) + 1) : x = Ancestry[b][i]
        BY <1>2, <2>8, <3>1 DEF SetOf
      <4>2. CASE i = Len(s) + 1
        BY <2>6, <4>1, <4>2
      <4>3. CASE i \in 1..Len(s)
        BY <2>2, <2>6, <4>1, <4>3 DEF SetOf
      <4> QED
        BY <2>2, <4>2, <4>3
    <3>2. ASSUME NEW x \in SetOf(s) PROVE x \in SetOf(Ancestry[b])
      <4>1. PICK i \in 1..Len(s) : x = s[i]
        BY <2>2, <3>2 DEF SetOf
      <4>2. i \in 1..(Len(s) + 1) /\ x = Ancestry[b][i]
        BY <2>2, <2>6, <4>1
      <4> QED
        BY <1>2, <2>8, <4>2 DEF SetOf
    <3>3. b \in SetOf(Ancestry[b])
      <4>1. Len(s) + 1 \in DOMAIN Ancestry[b]
        BY <1>2, <2>2, <2>8
      <4> QED
        BY <2>6, <4>1 DEF SetOf
    <3> QED
      BY <3>1, <3>2, <3>3
  <2> QED
    BY <1>1, <1>2, <1>4, <2>1, <2>2, <2>5, <2>6, <2>7, <2>8, <2>9
<1> QED
  BY <1>3, <1>4

(* An ancestry is a path from a block that has no parent.                  *)
Path(b) ==
  /\ Prev[Ancestry[b][1]] = NullHash
  /\ \A j \in 1..(Depth(b) - 1) : Prev[Ancestry[b][j + 1]] = Ancestry[b][j]

LEMMA Paths == \A b \in Block : Path(b)
<1> DEFINE Bad == {b \in Block : ~Path(b)}
           Depths == {Depth(b) : b \in Bad}
<1> SUFFICES ASSUME Bad # {} PROVE FALSE
  OBVIOUS
<1>1. Depths \subseteq Nat /\ Depths # {}
  BY Unfolded
<1>2. PICK d \in Depths : \A e \in Depths : d <= e
  <2> HIDE DEF Depths
  <2> QED
    BY <1>1, LeastNumber
<1>3. PICK b \in Bad : d = Depth(b)
  OBVIOUS
<1>4. b \in Block /\ ~Path(b)
  OBVIOUS
<1>5. CASE Prev[b] = NullHash
  <2>1. Depth(b) = 1 /\ Ancestry[b][1] = b
    BY <1>4, <1>5, Unfolded
  <2> QED
    BY <1>4, <1>5, <2>1 DEF Path
<1>6. CASE Prev[b] # NullHash
  <2> DEFINE c == Prev[b]
             n == Depth(c)
  <2>1. /\ c \in Block /\ n \in Nat \ {0} /\ Depth(b) = n + 1 /\ Ancestry[b][n + 1] = b
        /\ \A i \in 1..n : Ancestry[b][i] = Ancestry[c][i]
    BY <1>4, <1>6, Unfolded
  <2>2. Ancestry[c][n] = c
    BY <2>1, Unfolded
  <2>3. Path(c)
    <3>1. c \in Bad => n \in Depths
      OBVIOUS
    <3>2. ~(Depth(b) <= n)
      BY <2>1
    <3> QED
      BY <1>2, <1>3, <2>1, <3>1, <3>2
  <2>4. Prev[Ancestry[b][1]] = NullHash
    BY <2>1, <2>3 DEF Path
  <2>5. ASSUME NEW j \in 1..(Depth(b) - 1) PROVE Prev[Ancestry[b][j + 1]] = Ancestry[b][j]
    <3>1. CASE j = n
      BY <2>1, <2>2, <3>1
    <3>2. CASE j # n
      <4>1. j \in 1..(n - 1) /\ j \in 1..n /\ j + 1 \in 1..n
        BY <2>1, <2>5, <3>2
      <4> QED
        BY <2>1, <2>3, <4>1 DEF Path
    <3> QED
      BY <3>1, <3>2
  <2> QED
    BY <1>4, <2>4, <2>5 DEF Path
<1> QED
  BY <1>5, <1>6

-----------------------------------------------------------------------------
(* The threads, whatever the node does.                                    *)

(* A step of the node changes nothing but the files.                       *)
LEMMA NodeFrame ==
  ASSUME Node
  PROVE  UNCHANGED <<indexVars, saved, torn, pc, rangeVars, fileNum, threadVars, stack, chain>>
BY DEF Node, NodeBegins, NodeEnds, fileVars

LEMMA LocalNode ==
  ASSUME LongestInv, Node
  PROVE  LocalInv'
<1>1. LocalInv /\ TypeInv
  BY DEF LongestInv, LocalInv
<1>2. UNCHANGED <<pc, newestBlock, saved, firstFile, filePos, maxFileNum, thread, fileNum>>
  BY NodeFrame DEF indexVars, rangeVars, threadVars
<1>3. TypeInv' /\ Len(disk) \in Nat /\ Len(disk') \in Nat /\ Len(disk) <= Len(disk')
  BY <1>1, DiskGrows, LenProperties DEF TypeInv
<1>4. FileNums \subseteq Nat
  BY FileAssumption DEF FileNums
<1>5. \A f \in FileNums : thread[f] # "none" => f <= Len(disk')
  BY <1>1, <1>3, <1>4 DEF LocalInv
<1>6. pc = "spawn" /\ fileNum <= maxFileNum => maxFileNum <= Len(disk')
  BY <1>1, <1>3 DEF LocalInv
<1> QED
  BY <1>1, <1>2, <1>3, <1>5, <1>6 DEF LocalInv

LEMMA LocalStart ==
  ASSUME LongestInv, Start
  PROVE  LocalInv' /\ (saved.blockList = {} => firstFile' = 1 /\ filePos' = 0 /\ fileNum' = 1)
<1>1. LocalInv /\ TypeInv
  BY DEF LongestInv, LocalInv
<1>2. /\ UNCHANGED <<disk, writing, saved, thread, blocks>> /\ pc = "idle" /\ pc' = "spawn"
      /\ blockList' = saved.blockList /\ newestBlock' = saved.newestBlock
      /\ maxFileNum' = MaxBlockFileNum(firstFile')
  BY DEF Start, nodeVars, fileVars, threadVars, MaxBlockFileNum
<1>3. PICK p \in ResumePoints' : firstFile' = p[1] /\ filePos' = p[2] /\ fileNum' = p[1]
  BY DEF Start
<1>4. p \in Nat \X Nat
  <2>1. CASE p = <<1, 0>>
    BY <2>1
  <2>2. CASE p \in FileNums \X (0..Cardinality(Block))
    <3>1. p[1] \in FileNums /\ p[2] \in 0..Cardinality(Block) /\ p = <<p[1], p[2]>>
      BY <2>2
    <3>2. p[1] \in Nat \ {0} /\ p[2] \in Nat
      BY <3>1, FileAssumption DEF FileNums
    <3> QED
      BY <3>1, <3>2
  <2>3. CASE p = newestBlock' /\ newestBlock' # << >>
    BY <1>1, <1>2, <2>3 DEF LocalInv, Positions
  <2>4. \/ p = <<1, 0>> \/ p \in FileNums \X (0..Cardinality(Block))
        \/ p = newestBlock' /\ newestBlock' # << >>
    BY <1>3, Zenon DEF ResumePoints
  <2> QED
    BY <2>1, <2>2, <2>3, <2>4
<1>5. saved.blockList = {} => p = <<1, 0>>
  BY <1>2, <1>3 DEF ResumePoints
<1>6. firstFile' \in Nat /\ filePos' \in Nat /\ fileNum' = firstFile'
  BY <1>3, <1>4
<1>7. Len(disk) \in Nat /\ 1 <= Len(disk)
  BY <1>1, Basics
<1>8. maxFileNum' \in Nat /\ (fileNum' <= maxFileNum' => maxFileNum' <= Len(disk))
  <2>1. CASE firstFile' <= Len(disk)
    BY <1>2, <1>6, <1>7, <2>1 DEF MaxBlockFileNum
  <2>2. CASE ~(firstFile' <= Len(disk))
    <3>1. maxFileNum' = firstFile' - 1
      BY <1>2, <2>2 DEF MaxBlockFileNum
    <3>2. ASSUME NEW l \in Nat, 1 <= l, NEW n \in Nat, ~(n <= l)
          PROVE  n - 1 \in Nat /\ ~(n <= n - 1)
      BY <3>2
    <3>3. firstFile' - 1 \in Nat /\ ~(firstFile' <= firstFile' - 1)
      BY <1>6, <1>7, <2>2, <3>2
    <3> QED
      BY <1>6, <3>1, <3>3
  <2> QED
    BY <2>1, <2>2
<1>9. TypeInv'
  BY <1>1, <1>2, <1>6 DEF TypeInv
<1>10. LocalInv'
  BY <1>1, <1>2, <1>6, <1>8, <1>9 DEF LocalInv
<1> QED
  BY <1>3, <1>5, <1>10

LEMMA LocalThread ==
  ASSUME LongestInv, NEW f \in FileNums, Thread(f)
  PROVE  /\ LocalInv' /\ pc \in {"spawn", "join"} /\ thread[f] # "none"
         /\ UNCHANGED <<disk, writing, saved, pc, firstFile, filePos, maxFileNum, fileNum,
                        stack, chain>>
<1>1. LocalInv /\ TypeInv
  BY DEF LongestInv, LocalInv
<1>2. UNCHANGED <<disk, writing, saved, pc, firstFile, filePos, maxFileNum, fileNum, stack, chain>>
  BY DEF Thread, Enter, Scan, ScanFails, Leave, Merge, nodeVars, fileVars, rangeVars
<1>3. PICK st \in {"scan", "found", "merge", "done", "failed"} :
           thread' = [thread EXCEPT ![f] = st]
  BY DEF Thread, Enter, Scan, ScanFails, Leave, Merge
<1>4. thread[f] \in {"started", "scan", "found", "merge"}
  BY DEF Thread, Enter, Scan, ScanFails, Leave, Merge
<1>5. pc \in {"spawn", "join"}
  BY <1>1, <1>4 DEF LocalInv, TypeInv
<1>6. f \in 1..Len(disk) /\ Len(disk) \in Nat
  BY <1>1, <1>4, Basics, FileAssumption DEF LocalInv, FileNums
<1>7. disk[f] \in Seq(Block) /\ Len(disk[f]) \in Nat /\ Offset(f) \in Nat
      /\ blocks[f] \in Seq(Block) /\ Len(blocks[f]) \in Nat
  BY <1>1, <1>6, Basics DEF LocalInv, Offset
<1>8. blocks' \in [FileNums -> Seq(Block)]
  <2>1. CASE Scan(f)
    <3>1. SubSeq(disk[f], Offset(f) + 1, Len(disk[f])) \in Seq(Block)
      BY <1>7, SubSeqProperties
    <3> QED
      BY <1>1, <2>1, <3>1 DEF Scan, TypeInv
  <2>2. CASE ~Scan(f)
    BY <1>1, <2>2 DEF Thread, Enter, ScanFails, Leave, Merge, TypeInv
  <2> QED
    BY <2>1, <2>2
<1>9. newestBlock' \in Positions
  <2>1. CASE Leave(f)
    <3>1. f \in Nat /\ Offset(f) + Len(blocks[f]) \in Nat
      BY <1>7, FileAssumption DEF FileNums
    <3> QED
      BY <1>1, <2>1, <3>1 DEF Leave, LocalInv, Positions
  <2>2. CASE ~Leave(f)
    BY <1>1, <2>2 DEF Thread, Enter, Scan, ScanFails, Merge, LocalInv, indexVars
  <2> QED
    BY <2>1, <2>2
<1>10. TypeInv'
  BY <1>1, <1>2, <1>3, <1>8 DEF TypeInv
<1>11. \A g \in FileNums : thread'[g] # "none" => g <= Len(disk)
  BY <1>1, <1>3, <1>6 DEF LocalInv, TypeInv
<1> QED
  BY <1>1, <1>2, <1>4, <1>5, <1>9, <1>10, <1>11 DEF LocalInv

LEMMA LocalSpawn ==
  ASSUME LongestInv, Spawn
  PROVE  LocalInv'
<1>1. LocalInv /\ TypeInv
  BY DEF LongestInv, LocalInv
<1>2. /\ UNCHANGED <<disk, writing, saved, pc, firstFile, filePos, maxFileNum, blocks,
                     newestBlock>>
      /\ pc = "spawn" /\ fileNum <= maxFileNum /\ fileNum' = fileNum + 1
      /\ thread' = [thread EXCEPT ![fileNum] = "started"]
  BY DEF Spawn, nodeVars, fileVars, rangeVars, indexVars
<1>3. /\ fileNum \in Nat /\ maxFileNum \in Nat /\ maxFileNum <= Len(disk) /\ Len(disk) \in Nat
      /\ Len(disk) <= MaxFile
  BY <1>1, <1>2, Basics DEF LocalInv, TypeInv
<1>4. TypeInv'
  <2>1. thread' = [f \in FileNums |-> IF f = fileNum THEN "started" ELSE thread[f]]
    BY <1>1, <1>2 DEF TypeInv
  <2>2. fileNum' \in Nat
    BY <1>2, <1>3
  <2> QED
    BY <1>1, <1>2, <2>1, <2>2 DEF TypeInv
<1>5. \A g \in FileNums : thread'[g] # "none" => g <= Len(disk)
  BY <1>1, <1>2, <1>3 DEF LocalInv, TypeInv
<1> QED
  BY <1>1, <1>2, <1>3, <1>4, <1>5 DEF LocalInv

LEMMA LocalRest ==
  ASSUME LongestInv,
         \/ SpawnedAll \/ Join \/ Visit \/ HeightsDone \/ GenerateChain \/ Save \/ Crash
         \/ UNCHANGED vars
  PROVE  LocalInv'
<1>1. LocalInv /\ TypeInv
  BY DEF LongestInv, LocalInv
<1>2. CASE SpawnedAll \/ Join \/ Visit \/ HeightsDone \/ GenerateChain \/ UNCHANGED vars
  <2>1. /\ UNCHANGED <<disk, writing, saved, firstFile, filePos, maxFileNum, fileNum,
                       blocks, thread, newestBlock>>
        /\ pc' \in {pc, "join", "heights", "generate", "save"} /\ (pc' = "spawn" => pc = "spawn")
        /\ (pc' = "idle" => pc = "idle")
    BY <1>2 DEF SpawnedAll, Join, Visit, HeightsDone, GenerateChain, vars, nodeVars, fileVars, indexVars,
                rangeVars, threadVars
  <2>2. pc' \in {"heights", "generate", "save"} =>
          \A f \in FileNums : thread[f] \in {"none", "done", "failed"}
    BY <1>1, <1>2 DEF SpawnedAll, Join, Visit, HeightsDone, GenerateChain, LocalInv, vars
  <2>3. TypeInv'
    BY <1>1, <2>1 DEF TypeInv
  <2> QED
    BY <1>1, <2>1, <2>2, <2>3 DEF LocalInv
<1>3. CASE Save \/ Crash
  <2>1. /\ UNCHANGED <<disk, writing, firstFile, filePos, maxFileNum>> /\ pc' = "idle"
        /\ fileNum' = 1 /\ thread' = [f \in FileNums |-> "none"]
        /\ blocks' = [f \in FileNums |-> << >>]
    BY <1>3 DEF Save, Crash, ForgetLocals, nodeVars, fileVars, rangeVars
  <2>2. newestBlock' \in Positions /\ saved'.newestBlock \in Positions
    <3>1. CASE Save
      <4>1. newestBlock' = newestBlock /\ saved'.newestBlock = newestBlock
        BY <3>1 DEF Save, indexVars
      <4> QED
        BY <1>1, <4>1 DEF LocalInv
    <3>2. CASE Crash
      BY <1>1, <3>2 DEF Crash, LocalInv, fileVars
    <3> QED
      BY <1>3, <3>1, <3>2
  <2>3. << >> \in Seq(Block)
    OBVIOUS
  <2>4. TypeInv'
    BY <1>1, <2>1, <2>3 DEF TypeInv
  <2> QED
    BY <1>1, <2>1, <2>2, <2>4 DEF LocalInv
<1> QED
  BY <1>2, <1>3

-----------------------------------------------------------------------------
(* What is merged into the index.                                          *)
LEMMA MergedSet ==
  ASSUME TypeInv, NEW f \in FileNums
  PROVE  SetOf(blocks[f]) \subseteq Block /\ IsFiniteSet(SetOf(blocks[f]))
<1>1. blocks[f] \in Seq(Block) /\ Len(blocks[f]) \in Nat
      /\ DOMAIN blocks[f] = 1..Len(blocks[f])
  BY Basics
<1>2. SetOf(blocks[f]) \subseteq Block
  BY <1>1, ElementOfSeq DEF SetOf
<1>3. IsFiniteSet(1..Len(blocks[f]))
  BY <1>1, FS_Interval
<1>4. \A i \in 1..Len(blocks[f]) : blocks[f][i] \in SetOf(blocks[f])
  BY <1>1 DEF SetOf
<1>5. blocks[f] \in Surjection(1..Len(blocks[f]), SetOf(blocks[f]))
  BY <1>1, <1>4 DEF Surjection, SetOf
<1>6. IsFiniteSet(SetOf(blocks[f]))
  BY <1>3, <1>5, FS_Surjection
<1> QED
  BY <1>2, <1>6

LEMMA FiniteStep ==
  ASSUME LongestInv, [Next]_vars
  PROVE  FiniteInv'
<1>1. FiniteInv /\ TypeInv
  BY DEF LongestInv, LocalInv
<1>2. CASE UNCHANGED <<blockList, saved, pc>> \/ Node \/ Spawn \/ SpawnedAll \/ Join \/ Visit
           \/ HeightsDone \/ GenerateChain \/ UNCHANGED vars
  <2>1. UNCHANGED <<blockList, saved>> /\ (pc' = "idle" <=> pc = "idle")
    BY <1>2, NodeFrame
       DEF Spawn, SpawnedAll, Join, Visit, HeightsDone, GenerateChain, vars, indexVars, fileVars
  <2> QED
    BY <1>1, <2>1 DEF FiniteInv
<1>3. CASE Start
  BY <1>1, <1>3 DEF Start, FiniteInv, fileVars
<1>4. ASSUME NEW f \in FileNums, Thread(f) PROVE FiniteInv'
  <2>1. UNCHANGED <<saved, pc>>
    BY <1>4, LocalThread
  <2>2. CASE Merge(f)
    <3>1. blockList' = blockList \cup SetOf(blocks[f])
      BY <2>2 DEF Merge
    <3>2. IsFiniteSet(blockList')
      BY <1>1, <3>1, MergedSet, FS_Union DEF FiniteInv
    <3> QED
      BY <1>1, <2>1, <3>1, <3>2, MergedSet DEF FiniteInv
  <2>3. CASE ~Merge(f)
    <3>1. UNCHANGED blockList
      BY <1>4, <2>3 DEF Thread, Enter, Scan, ScanFails, Leave, indexVars
    <3> QED
      BY <1>1, <2>1, <3>1 DEF FiniteInv
  <2> QED
    BY <2>2, <2>3
<1>5. CASE Save
  <2>1. blockList' = blockList /\ saved'.blockList = blockList /\ pc' = "idle"
    BY <1>5 DEF Save, indexVars
  <2> QED
    BY <1>1, <2>1 DEF FiniteInv
<1>6. CASE Crash
  BY <1>1, <1>6 DEF Crash, FiniteInv, fileVars
<1> QED
  BY <1>2, <1>3, <1>4, <1>5, <1>6 DEF Next, Run, Update, StartThrows

-----------------------------------------------------------------------------
(* An index that is not empty has the genesis block.                       *)
LEMMA HasGenesis ==
  ASSUME LongestInv, pc \in {"generate", "save"}, blockList # {}
  PROVE  Genesis \in blockList
<1>1. LocalInv /\ TypeInv /\ FiniteInv /\ GenesisInv
  BY DEF LongestInv, LocalInv
<1>2. CASE saved.blockList # {}
  BY <1>1, <1>2 DEF GenesisInv, FiniteInv
<1>3. CASE saved.blockList = {}
  <2>1. FirstReadInv
    BY <1>1, <1>3 DEF GenesisInv
  <2>2. 1 \in FileNums /\ fileNum > maxFileNum /\ 1 <= maxFileNum /\ fileNum \in Nat
        /\ maxFileNum \in Nat
    BY <1>1, <2>1, FileAssumption DEF FirstReadInv, FileNums, LocalInv, TypeInv
  <2>3. thread[1] # "none"
    BY <2>1, <2>2 DEF FirstReadInv
  <2>4. thread[1] \in {"done", "failed"}
    BY <1>1, <2>2, <2>3 DEF LocalInv
  <2>5. PICK f \in FileNums : thread[f] = "done"
    BY <2>1 DEF FirstReadInv
  <2>6. f \in Nat \ {0} /\ f <= maxFileNum
    BY <2>1, <2>5, FileAssumption DEF FirstReadInv, FileNums
  <2>7. thread[1] # "failed"
    <3> SUFFICES ASSUME thread[1] = "failed" PROVE FALSE
      OBVIOUS
    <3>1. f = 1
      BY <2>1, <2>6 DEF FirstReadInv
    <3> QED
      BY <2>5, <3>1
  <2> QED
    BY <2>1, <2>4, <2>7 DEF FirstReadInv
<1> QED
  BY <1>2, <1>3

LEMMA GenesisThread ==
  ASSUME LongestInv, NEW f \in FileNums, Thread(f), FirstReadInv, GenesisInv
  PROVE  FirstReadInv'
<1>1. LocalInv /\ TypeInv
  BY DEF LongestInv, LocalInv
<1>2. /\ UNCHANGED <<disk, writing, saved, pc, firstFile, filePos, maxFileNum, fileNum>>
      /\ thread[f] # "none"
  BY LocalThread
<1>3. PICK st \in {"scan", "found", "merge", "done", "failed"} :
           thread' = [thread EXCEPT ![f] = st]
  BY DEF Thread, Enter, Scan, ScanFails, Leave, Merge
<1>4. /\ thread'[f] = st
      /\ \A g \in FileNums : /\ g # f => thread'[g] = thread[g]
                             /\ thread'[g] = "none" <=> thread[g] = "none"
  BY <1>1, <1>2, <1>3 DEF TypeInv
<1>5. 1 \in FileNums /\ f \in Nat \ {0} /\ f <= maxFileNum /\ maxFileNum \in Nat
      /\ 1 <= maxFileNum /\ Len(disk) \in Nat /\ maxFileNum <= Len(disk)
  BY <1>1, <1>2, Basics, FileAssumption DEF FirstReadInv, LocalInv, FileNums
<1>6. Len(disk[1]) \in Nat \ {0} /\ disk[1] \in Seq(Block) /\ disk[1][1] = Genesis
  BY <1>1, <1>5, Basics, EmptySeq DEF GenesisInv
<1>7. thread'[1] = "failed" => maxFileNum = 1
  <2>1. CASE ScanFails(f) /\ f = 1
    <3>1. Offset(1) = 0 /\ thread[1] = "scan"
      BY <2>1 DEF Offset, FirstReadInv, ScanFails
    <3>2. 1 = Len(disk)
      BY <1>6, <2>1, <3>1 DEF ScanFails
    <3>3. maxFileNum \in Nat /\ 1 <= maxFileNum /\ maxFileNum <= 1
      BY <1>5, <3>2, Zenon
    <3> QED
      BY <3>3
  <2>2. CASE ScanFails(f) /\ f # 1
    BY <1>4, <1>5, <2>2 DEF FirstReadInv
  <2>3. CASE ~ScanFails(f)
    <3>1. thread'[1] = "failed" => thread[1] = "failed"
      BY <1>1, <1>5, <2>3 DEF Thread, Enter, Scan, Leave, Merge, TypeInv
    <3> QED
      BY <3>1 DEF FirstReadInv
  <2> QED
    BY <2>1, <2>2, <2>3
<1>8. thread'[1] \in {"found", "merge"} => Genesis \in SetOf(blocks'[1])
  <2>1. CASE Scan(f) /\ f = 1
    <3>1. Offset(1) = 0
      BY <2>1 DEF Offset, FirstReadInv
    <3>2. blocks'[1] = SubSeq(disk[1], 1, Len(disk[1]))
      BY <1>1, <1>5, <2>1, <3>1 DEF Scan, TypeInv
    <3>3. blocks'[1] = disk[1]
      BY <1>6, <3>2, SubSeqFull
    <3>4. 1 \in DOMAIN disk[1]
      BY <1>1, <1>5, <1>6, Basics
    <3> QED
      BY <1>6, <3>3, <3>4 DEF SetOf
  <2>2. CASE ~(Scan(f) /\ f = 1)
    <3>1. blocks'[1] = blocks[1]
      BY <1>1, <1>5, <2>2 DEF Thread, Enter, Scan, ScanFails, Leave, Merge, TypeInv
    <3>2. thread'[1] \in {"found", "merge"} => thread[1] \in {"found", "merge"}
      BY <1>1, <1>5, <2>2 DEF Thread, Enter, Scan, ScanFails, Leave, Merge, TypeInv
    <3> QED
      BY <3>1, <3>2 DEF FirstReadInv
  <2> QED
    BY <2>1, <2>2
<1>9. thread'[1] = "done" => Genesis \in blockList'
  <2>1. CASE Merge(f) /\ f = 1
    BY <2>1 DEF Merge, FirstReadInv
  <2>2. CASE Merge(f) /\ f # 1
    BY <1>4, <1>5, <2>2 DEF Merge, FirstReadInv
  <2>3. CASE ~Merge(f)
    <3>1. blockList' = blockList /\ (thread'[1] = "done" => thread[1] = "done")
      BY <1>1, <1>5, <2>3 DEF Thread, Enter, Scan, ScanFails, Leave, TypeInv, indexVars
    <3> QED
      BY <3>1 DEF FirstReadInv
  <2> QED
    BY <2>1, <2>2, <2>3
<1>10. blockList' # {} => \E g \in FileNums : thread'[g] = "done"
  <2>1. CASE Merge(f)
    BY <1>1, <2>1 DEF Merge, TypeInv
  <2>2. CASE ~Merge(f)
    <3>1. blockList' = blockList /\ \A g \in FileNums : thread[g] = "done" => thread'[g] = "done"
      BY <1>1, <2>2 DEF Thread, Enter, Scan, ScanFails, Leave, TypeInv, indexVars
    <3> QED
      BY <3>1 DEF FirstReadInv
  <2> QED
    BY <2>1, <2>2
<1>11. /\ \A g \in FileNums : thread'[g] # "none" => g <= maxFileNum
       /\ \A g \in FileNums : thread'[g] # "none" <=> g < fileNum
  BY <1>4 DEF FirstReadInv
<1> QED
  BY <1>2, <1>7, <1>8, <1>9, <1>10, <1>11 DEF FirstReadInv

LEMMA GenesisStep ==
  ASSUME LongestInv, [Next]_vars
  PROVE  GenesisInv'
<1>1. LocalInv /\ TypeInv /\ FiniteInv /\ GenesisInv
  BY DEF LongestInv, LocalInv
<1>0. 1 \in 1..Len(disk) /\ Len(disk) \in Nat /\ Len(disk[1]) \in Nat \ {0} /\ 1 \in FileNums
  BY <1>1, Basics, EmptySeq DEF GenesisInv
<1>2. CASE Node
  <2>1. UNCHANGED <<saved, pc, firstFile, filePos, maxFileNum, fileNum, thread, blocks, blockList>>
    BY <1>2, NodeFrame DEF indexVars, rangeVars, threadVars
  <2>2. /\ Len(disk') \in Nat /\ Len(disk) <= Len(disk') /\ Len(disk'[1]) \in Nat
        /\ Len(disk[1]) <= Len(disk'[1]) /\ disk'[1][1] = disk[1][1]
    BY <1>0, <1>1, <1>2, DiskGrows
  <2>3. disk'[1] # << >> /\ disk'[1][1] = Genesis
    BY <1>0, <1>1, <2>2 DEF GenesisInv
  <2>4. FirstReadInv => FirstReadInv'
    BY <1>0, <1>1, <2>1, <2>2 DEF FirstReadInv, LocalInv
  <2> QED
    BY <1>1, <2>1, <2>3, <2>4 DEF GenesisInv
<1>3. CASE Start
  <2>1. /\ UNCHANGED <<disk, saved, thread, blocks>> /\ pc = "idle" /\ pc' = "spawn"
        /\ blockList' = saved.blockList /\ maxFileNum' = MaxBlockFileNum(firstFile')
        /\ \A f \in FileNums : thread[f] = "none"
    BY <1>1, <1>3 DEF Start, nodeVars, fileVars, threadVars, MaxBlockFileNum, LocalInv
  <2>2. saved.blockList = {} => FirstReadInv'
    <3> SUFFICES ASSUME saved.blockList = {} PROVE FirstReadInv'
      OBVIOUS
    <3>1. firstFile' = 1 /\ filePos' = 0 /\ fileNum' = 1
      BY <1>3, LocalStart
    <3>2. maxFileNum' = Len(disk)
      BY <1>0, <2>1, <3>1 DEF MaxBlockFileNum
    <3>3. \A f \in FileNums : ~(f < fileNum')
      BY <3>1, FileAssumption DEF FileNums
    <3> QED
      BY <1>0, <2>1, <3>1, <3>2, <3>3 DEF FirstReadInv
  <2> QED
    BY <1>1, <2>1, <2>2 DEF GenesisInv
<1>4. CASE Spawn
  <2>1. /\ UNCHANGED <<disk, saved, pc, firstFile, filePos, maxFileNum, blocks, blockList>>
        /\ pc = "spawn" /\ fileNum <= maxFileNum /\ fileNum' = fileNum + 1
        /\ thread' = [thread EXCEPT ![fileNum] = "started"]
    BY <1>4 DEF Spawn, nodeVars, fileVars, rangeVars, indexVars
  <2>2. FirstReadInv => FirstReadInv'
    <3> SUFFICES ASSUME FirstReadInv PROVE FirstReadInv'
      OBVIOUS
    <3>1. fileNum \in Nat \ {0} /\ maxFileNum \in Nat /\ FileNums \subseteq Nat
      BY <1>1, FileAssumption DEF FirstReadInv, LocalInv, TypeInv, FileNums
    <3>2. fileNum \in FileNums
      BY <1>1, <2>1, <3>1, Basics DEF FirstReadInv, FileNums
    <3>3. thread[fileNum] = "none"
      BY <3>1, <3>2 DEF FirstReadInv
    <3>4. \A g \in FileNums : thread'[g] = IF g = fileNum THEN "started" ELSE thread[g]
      BY <1>1, <2>1 DEF TypeInv
    <3>5. /\ \A g \in FileNums : thread'[g] # "none" <=> g < fileNum'
          /\ \A g \in FileNums : thread'[g] # "none" => g <= maxFileNum
      BY <2>1, <3>1, <3>4 DEF FirstReadInv
    <3>6. /\ \A g \in FileNums : thread'[g] = "done" <=> thread[g] = "done"
          /\ thread'[1] \in {"found", "merge", "failed"} => thread'[1] = thread[1]
      BY <1>0, <3>3, <3>4
    <3>7. 1 <= fileNum'
      BY <2>1, <3>1
    <3> QED
      BY <1>0, <2>1, <3>5, <3>6, <3>7 DEF FirstReadInv
  <2> QED
    BY <1>1, <2>1, <2>2 DEF GenesisInv
<1>5. ASSUME NEW f \in FileNums, Thread(f) PROVE GenesisInv'
  <2>1. UNCHANGED <<disk, saved, pc>>
    BY <1>5, LocalThread
  <2>2. FirstReadInv => FirstReadInv'
    BY <1>1, <1>5, GenesisThread
  <2> QED
    BY <1>1, <2>1, <2>2 DEF GenesisInv
<1>6. CASE SpawnedAll \/ Join \/ Visit \/ HeightsDone \/ GenerateChain \/ UNCHANGED vars
  <2>1. /\ UNCHANGED <<disk, saved, firstFile, filePos, maxFileNum, fileNum, blocks,
                       thread, blockList>>
        /\ (pc' = "idle" <=> pc = "idle")
        /\ (pc' # "spawn" => pc # "spawn" \/ fileNum > maxFileNum)
    BY <1>6 DEF SpawnedAll, Join, Visit, HeightsDone, GenerateChain, vars, nodeVars, fileVars, indexVars,
                rangeVars, threadVars
  <2>2. FirstReadInv => FirstReadInv'
    BY <2>1 DEF FirstReadInv
  <2> QED
    BY <1>1, <2>1, <2>2 DEF GenesisInv
<1>7. CASE Save
  <2>1. disk' = disk /\ saved'.blockList = blockList /\ pc' = "idle" /\ pc = "save"
    BY <1>7 DEF Save, nodeVars, fileVars
  <2> QED
    BY <1>1, <2>1, HasGenesis DEF GenesisInv
<1>8. CASE Crash
  BY <1>1, <1>8 DEF Crash, GenesisInv, nodeVars, fileVars
<1> QED
  BY <1>2, <1>3, <1>4, <1>5, <1>6, <1>7, <1>8 DEF Next, Run, Update, StartThrows

-----------------------------------------------------------------------------
(* The traversal.                                                          *)
Top == stack[Len(stack)]

(* The blocks that get a height: children of the top of the stack.         *)
LEMMA NextFacts ==
  ASSUME LongestInv, pc = "heights", stack # << >>, NEW b \in ForwardHashes(Top[1])
  PROVE  /\ b \in Block /\ b \in blockList /\ Top[2] \in Nat /\ Depth(b) = Top[2] + 1
         /\ Within(b, blockList)
<1>1. StackInv /\ FiniteInv
  BY DEF LongestInv
<1>2. Len(stack) \in DOMAIN stack
  BY <1>1, LenProperties, EmptySeq DEF StackInv
<1>3. b \in blockList /\ b \in Block /\ Prev[b] = Top[1]
  BY <1>1 DEF ForwardHashes, FiniteInv
<1>4. Frame(Top)
  BY <1>1, <1>2 DEF StackInv, Top
<1>5. CASE Top = <<NullHash, 0>>
  <2>1. Prev[b] = NullHash /\ Top[2] = 0
    BY <1>3, <1>5
  <2>2. Depth(b) = 1 /\ SetOf(Ancestry[b]) = {b}
    BY <1>3, <2>1, Unfolded
  <2> QED
    BY <1>3, <2>1, <2>2 DEF Within
<1>6. CASE \E c \in Block : Top = <<c, Depth(c)>> /\ Within(c, blockList)
  <2>1. PICK c \in Block : Top = <<c, Depth(c)>> /\ Within(c, blockList)
    BY <1>6
  <2>2. Prev[b] = c /\ c # NullHash /\ Top[2] = Depth(c)
    BY <1>3, <2>1, BlockAssumption
  <2>3. /\ Depth(c) \in Nat \ {0} /\ Depth(b) = Depth(c) + 1
        /\ SetOf(Ancestry[b]) = SetOf(Ancestry[c]) \cup {b}
    BY <1>3, <2>2, Unfolded
  <2> QED
    BY <1>3, <2>1, <2>2, <2>3 DEF Within
<1> QED
  BY <1>4, <1>5, <1>6 DEF Frame

(* More blocks make no height wrong.                                       *)
LEMMA HeightsGrow ==
  ASSUME NEW S, NEW T, S \subseteq T, NEW H, Heights(S, H)
  PROVE  Heights(T, H)
BY DEF Heights, Within

LEMMA HeightStep ==
  ASSUME LongestInv, [Next]_vars
  PROVE  HeightInv'
<1>1. HeightInv /\ FiniteInv /\ TypeInv
  BY DEF LongestInv, LocalInv
<1>2. CASE Node \/ Spawn \/ SpawnedAll \/ Join \/ HeightsDone \/ GenerateChain \/ UNCHANGED vars
  <2>1. UNCHANGED <<blockList, saved, height>>
    BY <1>2, NodeFrame
       DEF Spawn, SpawnedAll, Join, HeightsDone, GenerateChain, vars, indexVars, fileVars
  <2> QED
    BY <1>1, <2>1 DEF HeightInv, Heights, Within, Depth
<1>3. CASE Start \/ Crash
  <2>1. blockList' = saved.blockList /\ height' = saved.height /\ saved' = saved
    BY <1>3 DEF Start, Crash, fileVars
  <2> QED
    BY <1>1, <2>1 DEF HeightInv, Heights, Within, Depth
<1>4. ASSUME NEW f \in FileNums, Thread(f) PROVE HeightInv'
  <2>1. saved' = saved
    BY <1>4, LocalThread
  <2>2. CASE Merge(f)
    <3>1. /\ blockList \subseteq blockList'
          /\ height' = [b \in Block |-> IF b \in SetOf(blocks[f]) THEN -1 ELSE height[b]]
      BY <2>2 DEF Merge
    <3>2. Heights(blockList', height)
      BY <1>1, <3>1, HeightsGrow DEF HeightInv
    <3>3. Heights(blockList', height')
      BY <3>1, <3>2 DEF Heights
    <3> QED
      BY <1>1, <2>1, <3>3 DEF HeightInv, Heights, Within, Depth
  <2>3. CASE ~Merge(f)
    <3>1. UNCHANGED <<blockList, height>>
      BY <1>4, <2>3 DEF Thread, Enter, Scan, ScanFails, Leave, indexVars
    <3> QED
      BY <1>1, <2>1, <3>1 DEF HeightInv, Heights, Within, Depth
  <2> QED
    BY <2>2, <2>3
<1>5. CASE Save
  <2>1. /\ UNCHANGED <<blockList, height>>
        /\ saved'.blockList = blockList /\ saved'.height = height
    BY <1>5 DEF Save, indexVars
  <2> QED
    BY <1>1, <2>1 DEF HeightInv, Heights, Within, Depth
<1>6. CASE Visit
  <2>1. /\ UNCHANGED <<blockList, saved>> /\ pc = "heights" /\ stack # << >>
        /\ height' = [b \in Block |-> IF b \in ForwardHashes(Top[1]) THEN Top[2] + 1
                                      ELSE height[b]]
    BY <1>6 DEF Visit, Top, fileVars
  <2>2. \A b \in ForwardHashes(Top[1]) :
          b \in Block /\ Top[2] \in Nat /\ Depth(b) = Top[2] + 1 /\ Within(b, blockList)
    BY <2>1, NextFacts
  <2> HIDE DEF Top
  <2>3. Heights(blockList, height')
    <3>1. height \in [Block -> Int]
          /\ \A b \in Block : height[b] # -1 => height[b] = Depth(b) /\ Within(b, blockList)
      BY <1>1 DEF HeightInv, Heights
    <3>2. height' \in [Block -> Int]
      <4>1. \A b \in Block : (IF b \in ForwardHashes(Top[1]) THEN Top[2] + 1 ELSE height[b]) \in Int
        BY <2>2, <3>1
      <4> QED
        BY <2>1, <4>1
    <3>3. \A b \in Block : height'[b] # -1 => height'[b] = Depth(b) /\ Within(b, blockList)
      BY <2>1, <2>2, <3>1
    <3> QED
      BY <3>2, <3>3 DEF Heights
  <2> QED
    BY <1>1, <2>1, <2>3 DEF HeightInv, Heights, Within, Depth
<1> QED
  BY <1>2, <1>3, <1>4, <1>5, <1>6 DEF Next, Run, Update, StartThrows

(* Every block with its ancestors in the index gets its height, or waits   *)
(* for an ancestor that is on the stack.                                   *)
LEMMA VisitKeeps ==
  ASSUME LongestInv, Visit
  PROVE  StackInv'
<1>1. StackInv /\ FiniteInv /\ HeightInv
  BY DEF LongestInv
<1> DEFINE nxt == ForwardHashes(Top[1])
           rest == SubSeq(stack, 1, Len(stack) - 1)
           d == Top[2] + 1
<1>2. /\ UNCHANGED <<blockList, pc>> /\ pc = "heights" /\ stack # << >>
      /\ height' = [b \in Block |-> IF b \in nxt THEN d ELSE height[b]]
  BY DEF Visit, Top
<1>3. PICK s \in Orders(nxt) : stack' = rest \o [i \in DOMAIN s |-> <<s[i], d>>]
  BY DEF Visit, Top
<1> DEFINE pushed == [i \in DOMAIN s |-> <<s[i], d>>]
<1>4. \A b \in nxt : b \in Block /\ Top[2] \in Nat /\ Depth(b) = d /\ Within(b, blockList)
  BY <1>2, NextFacts
<1>5. Len(stack) \in Nat \ {0} /\ DOMAIN stack = 1..Len(stack)
      /\ stack \in Seq((Block \cup {NullHash}) \X Nat)
  BY <1>1, <1>2, LenProperties, EmptySeq DEF StackInv
<1>6. /\ rest \in Seq((Block \cup {NullHash}) \X Nat) /\ Len(rest) = Len(stack) - 1
      /\ \A i \in 1..Len(rest) : rest[i] = stack[i]
  BY <1>5, SubSeqProperties
<1>7. Cardinality(nxt) \in Nat
  <2>1. nxt \subseteq blockList
    BY DEF ForwardHashes
  <2>2. IsFiniteSet(nxt)
    BY <1>1, <2>1, FS_Subset DEF FiniteInv
  <2> QED
    BY <2>2, FS_CardinalityType
<1>8. s \in [1..Cardinality(nxt) -> nxt] /\ SetOf(s) = nxt
  BY <1>3 DEF Orders
<1> HIDE DEF nxt, rest
<1>9. /\ pushed \in Seq((Block \cup {NullHash}) \X Nat) /\ Len(pushed) = Cardinality(nxt)
      /\ \A i \in 1..Len(pushed) : pushed[i] = <<s[i], d>> /\ s[i] \in nxt
  <2>1. \A i \in 1..Cardinality(nxt) : <<s[i], d>> \in (Block \cup {NullHash}) \X Nat
    BY <1>4, <1>8
  <2>2. pushed \in [1..Cardinality(nxt) -> (Block \cup {NullHash}) \X Nat]
    BY <1>8, <2>1
  <2>3. pushed \in Seq((Block \cup {NullHash}) \X Nat)
    BY <1>7, <2>2
  <2>4. Len(pushed) = Cardinality(nxt)
    BY <1>7, <2>2, <2>3, LenProperties
  <2> QED
    BY <1>8, <2>3, <2>4
<1>10. \A c \in nxt : \E i \in 1..Len(pushed) : pushed[i] = <<c, d>>
  BY <1>8, <1>9 DEF SetOf
<1> HIDE DEF pushed
<1>11. /\ stack' \in Seq((Block \cup {NullHash}) \X Nat)
       /\ Len(stack') = Len(rest) + Len(pushed) /\ DOMAIN stack' = 1..Len(stack')
       /\ \A i \in 1..Len(rest) : stack'[i] = rest[i]
       /\ \A i \in 1..Len(pushed) : stack'[Len(rest) + i] = pushed[i]
       /\ Len(rest) \in Nat /\ Len(pushed) \in Nat
  <2>1. stack' = rest \o pushed
    BY <1>3 DEF pushed
  <2> DEFINE T == (Block \cup {NullHash}) \X Nat
  <2>2. rest \in Seq(T) /\ pushed \in Seq(T)
    BY <1>6, <1>9
  <2> HIDE DEF T
  <2>3. /\ stack' \in Seq(T) /\ Len(stack') = Len(rest) + Len(pushed)
        /\ \A i \in 1..Len(rest) + Len(pushed) :
             stack'[i] = IF i <= Len(rest) THEN rest[i] ELSE pushed[i - Len(rest)]
    BY <2>1, <2>2, ConcatProperties
  <2>4. Len(rest) \in Nat /\ Len(pushed) \in Nat /\ DOMAIN stack' = 1..Len(stack')
    BY <2>2, <2>3, LenProperties
  <2>5. \A i \in 1..Len(rest) : stack'[i] = rest[i]
    BY <2>3, <2>4
  <2>6. ASSUME NEW i \in 1..Len(pushed) PROVE stack'[Len(rest) + i] = pushed[i]
    <3>1. /\ Len(rest) + i \in 1..Len(rest) + Len(pushed) /\ ~(Len(rest) + i <= Len(rest))
          /\ (Len(rest) + i) - Len(rest) = i
      BY <2>4, <2>6
    <3> QED
      BY <2>3, <3>1
  <2> QED
    BY <2>3, <2>4, <2>5, <2>6 DEF T
<1>12. \A i \in 1..Len(rest) : i \in DOMAIN stack /\ i \in DOMAIN stack' /\ stack'[i] = stack[i]
  <2> TAKE i \in 1..Len(rest)
  <2>1. Len(rest) = Len(stack) - 1 /\ Len(stack) \in Nat /\ Len(pushed) \in Nat
    BY <1>5, <1>6, <1>11
  <2>2. i \in 1..Len(stack) /\ i \in 1..(Len(rest) + Len(pushed))
    BY <2>1
  <2> QED
    BY <1>5, <1>6, <1>11, <2>2
<1>13. ASSUME NEW i \in DOMAIN stack' PROVE Frame(stack'[i])
  <2>1. CASE i \in 1..Len(rest)
    <3>1. i \in DOMAIN stack /\ stack'[i] = stack[i]
      BY <1>12, <2>1
    <3>2. Frame(stack[i])
      BY <1>1, <3>1 DEF StackInv
    <3> QED
      BY <3>1, <3>2
  <2>2. CASE i \notin 1..Len(rest)
    <3>1. PICK k \in 1..Len(pushed) : i = Len(rest) + k
      <4>1. i \in 1..(Len(rest) + Len(pushed)) /\ Len(rest) \in Nat /\ Len(pushed) \in Nat
        BY <1>11
      <4>2. i - Len(rest) \in 1..Len(pushed) /\ i = Len(rest) + (i - Len(rest))
        BY <2>2, <4>1
      <4> QED
        BY <4>2
    <3>2. stack'[i] = <<s[k], d>> /\ s[k] \in nxt
      BY <1>9, <1>11, <3>1
    <3>3. s[k] \in Block /\ Depth(s[k]) = d /\ Within(s[k], blockList)
      BY <1>4, <3>2
    <3> HIDE DEF d
    <3>4. \E c \in Block : stack'[i] = <<c, Depth(c)>> /\ Within(c, blockList)
      BY <3>2, <3>3
    <3> QED
      BY <3>4 DEF Frame
  <2> QED
    BY <2>1, <2>2
<1>14. ASSUME NEW b \in Block, Within(b, blockList)
       PROVE  height'[b] = Depth(b) \/ Waits(b)'
  <2>1. height[b] = Depth(b) \/ Waits(b)
    BY <1>1, <1>2, <1>14 DEF StackInv
  <2>2. /\ Depth(b) \in Nat \ {0} /\ DOMAIN Ancestry[b] = 1..Depth(b)
        /\ Ancestry[b][Depth(b)] = b
    BY Unfolded
  <2>3. b \in nxt => height'[b] = Depth(b)
    BY <1>2, <1>4
  <2>4. CASE height[b] = Depth(b)
    BY <1>2, <2>3, <2>4
  <2>5. CASE Waits(b)
    <3>1. PICK i \in DOMAIN stack :
                 \/ stack[i][1] = NullHash
                 \/ \E j \in 1..(Depth(b) - 1) : stack[i][1] = Ancestry[b][j]
      BY <2>5 DEF Waits
    <3>2. CASE i # Len(stack)
      <4>1. i \in 1..Len(rest)
        BY <1>5, <1>6, <3>2
      <4>2. i \in DOMAIN stack' /\ stack'[i] = stack[i]
        BY <1>12, <4>1
      <4> QED
        BY <3>1, <4>2 DEF Waits, Depth
    <3>3. CASE i = Len(stack)
      <4>1. stack[i] = Top
        BY <3>3 DEF Top
      <4>2. \E k \in 1..Depth(b) : Ancestry[b][k] \in nxt
        <5>0. Path(b) /\ \A k \in 1..Depth(b) : Ancestry[b][k] \in blockList
          BY <1>14, <2>2, Paths DEF Within, SetOf
        <5>1. CASE Top[1] = NullHash
          <6>1. 1 \in 1..Depth(b) /\ Prev[Ancestry[b][1]] = NullHash
            BY <2>2, <5>0 DEF Path
          <6> QED
            BY <5>0, <5>1, <6>1 DEF ForwardHashes, nxt
        <5>2. CASE \E j \in 1..(Depth(b) - 1) : Top[1] = Ancestry[b][j]
          <6>1. PICK j \in 1..(Depth(b) - 1) : Top[1] = Ancestry[b][j]
            BY <5>2
          <6>2. j + 1 \in 1..Depth(b) /\ Prev[Ancestry[b][j + 1]] = Top[1]
            BY <2>2, <5>0, <6>1 DEF Path
          <6> QED
            BY <5>0, <6>2 DEF ForwardHashes, nxt
        <5> QED
          BY <3>1, <4>1, <5>1, <5>2
      <4>3. PICK k \in 1..Depth(b) : Ancestry[b][k] \in nxt
        BY <4>2
      <4>4. CASE k = Depth(b)
        BY <2>2, <2>3, <4>3, <4>4
      <4>5. CASE k # Depth(b)
        <5>1. k \in 1..(Depth(b) - 1)
          BY <2>2, <4>5
        <5>2. PICK m \in 1..Len(pushed) : pushed[m] = <<Ancestry[b][k], d>>
          BY <1>10, <4>3
        <5>3. Len(rest) + m \in DOMAIN stack' /\ stack'[Len(rest) + m] = <<Ancestry[b][k], d>>
          BY <1>11, <5>2
        <5>4. stack'[Len(rest) + m][1] = Ancestry[b][k]
          BY <5>3
        <5> QED
          BY <5>1, <5>3, <5>4 DEF Waits, Depth
      <4> QED
        BY <4>4, <4>5
    <3> QED
      BY <3>2, <3>3
  <2> QED
    BY <2>1, <2>4, <2>5
<1>15. \A i \in DOMAIN stack' : Frame(stack[i])'
  BY <1>2, <1>13 DEF Frame, Within, Depth
<1>16. \A b \in Block : Within(b, blockList)' => height'[b] = Depth(b) \/ Waits(b)'
  BY <1>2, <1>14 DEF Within
<1> QED
  BY <1>2, <1>11, <1>15, <1>16 DEF StackInv, Depth

LEMMA StackStep ==
  ASSUME LongestInv, [Next]_vars
  PROVE  StackInv'
<1>1. StackInv /\ LocalInv
  BY DEF LongestInv
<1>2. CASE Visit
  BY <1>2, VisitKeeps
<1>3. CASE Node \/ HeightsDone \/ GenerateChain \/ UNCHANGED vars
  <2>1. /\ UNCHANGED <<stack, blockList, height>> /\ pc' \in {pc, "generate", "save"}
        /\ (pc' # pc => pc \in {"heights", "generate"} /\ (pc = "heights" => stack = << >>))
    BY <1>3, NodeFrame DEF HeightsDone, GenerateChain, vars, indexVars
  <2> QED
    BY <1>1, <2>1 DEF StackInv, Frame, Waits, Within, Depth
<1>4. CASE Start \/ Spawn \/ SpawnedAll \/ \E f \in FileNums : Thread(f)
  <2>1. stack' = stack /\ pc \in {"idle", "spawn", "join"} /\ pc' \in {"spawn", "join"}
    BY <1>4, LocalThread DEF Start, Spawn, SpawnedAll
  <2>2. stack = << >>
    BY <1>1, <2>1 DEF StackInv
  <2> QED
    BY <1>1, <2>1, <2>2 DEF StackInv
<1>5. CASE Save \/ Crash
  <2>1. stack' = << >> /\ pc' = "idle"
    BY <1>5 DEF Save, Crash, ForgetLocals
  <2> QED
    BY <2>1 DEF StackInv
<1>6. CASE Join
  <2>1. stack' = << <<NullHash, 0>> >> /\ pc' = "heights"
    BY <1>6 DEF Join
  <2>2. /\ stack' \in Seq((Block \cup {NullHash}) \X Nat) /\ DOMAIN stack' = {1}
        /\ stack'[1] = <<NullHash, 0>> /\ stack'[1][1] = NullHash
    BY <2>1
  <2> QED
    BY <2>1, <2>2 DEF StackInv, Frame, Waits
<1> QED
  BY <1>2, <1>3, <1>4, <1>5, <1>6 DEF Next, Run, Update, StartThrows

-----------------------------------------------------------------------------
(* The chain.                                                              *)

(* A block of greatest height has all its ancestors, and no block that has *)
(* all of its own is higher.                                               *)
LEMMA HighestIsLongest ==
  ASSUME LongestInv, pc = "generate", NEW b \in MaxHeightBlocks
  PROVE  /\ b \in Block /\ Within(b, blockList)
         /\ \A c \in Block : Within(c, blockList) => Depth(c) <= Depth(b)
<1>1. StackInv /\ FiniteInv /\ HeightInv
  BY DEF LongestInv
<1>2. b \in blockList /\ b \in Block /\ \A c \in blockList : height[c] <= height[b]
  BY <1>1 DEF MaxHeightBlocks, FiniteInv
<1>3. ASSUME NEW c \in Block, Within(c, blockList)
      PROVE  height[c] = Depth(c) /\ c \in blockList /\ Depth(c) \in Nat \ {0}
  <2>1. stack = << >>
    BY <1>1 DEF StackInv
  <2>2. ~Waits(c)
    BY <2>1 DEF Waits
  <2>3. height[c] = Depth(c)
    BY <1>1, <1>3, <2>2 DEF StackInv
  <2>4. Depth(c) \in DOMAIN Ancestry[c] /\ Ancestry[c][Depth(c)] = c /\ Depth(c) \in Nat \ {0}
    BY Unfolded
  <2> QED
    BY <1>3, <2>3, <2>4 DEF Within, SetOf
<1>4. Genesis \in Block /\ Within(Genesis, blockList)
  <2>1. Genesis \in Block /\ Prev[Genesis] = NullHash
    BY BlockAssumption
  <2>2. Genesis \in blockList
    BY <1>2, HasGenesis
  <2>3. SetOf(Ancestry[Genesis]) = {Genesis}
    BY <2>1, Unfolded
  <2> QED
    BY <2>1, <2>2, <2>3 DEF Within
<1>5. height[Genesis] \in Nat /\ height[Genesis] <= height[b]
  BY <1>2, <1>3, <1>4
<1>6. height[b] \in Int
  BY <1>1, <1>2 DEF HeightInv, Heights
<1>7. height[b] # -1
  BY <1>5, <1>6
<1>8. height[b] = Depth(b) /\ Within(b, blockList)
  BY <1>1, <1>2, <1>7 DEF HeightInv, Heights
<1>9. ASSUME NEW c \in Block, Within(c, blockList) PROVE Depth(c) <= Depth(b)
  BY <1>2, <1>3, <1>8, <1>9
<1> QED
  BY <1>2, <1>8, <1>9

LEMMA ChainStep ==
  ASSUME LongestInv, [Next]_vars
  PROVE  ChainInv'
<1>1. ChainInv
  BY DEF LongestInv
<1>2. CASE GenerateChain
  <2>1. /\ pc = "generate" /\ pc' = "save" /\ torn' /\ blockList' = blockList
        /\ chain' = << >> \/ \E b \in MaxHeightBlocks : chain' = Truncate(Ancestry[b])
    BY <1>2 DEF GenerateChain, indexVars
  <2>2. Returned(blockList)'
    BY <2>1, HighestIsLongest DEF Returned, Within
  <2>3. Returned(Block)'
    BY <2>1, <2>2 DEF LongestInv, FiniteInv, Returned, Within
  <2> QED
    BY <2>1, <2>2, <2>3 DEF ChainInv
<1>3. CASE Save
  <2>1. pc = "save" /\ pc' = "idle" /\ ~torn' /\ saved'.blockList = blockList /\ chain' = chain
    BY <1>3 DEF Save
  <2>2. Returned(saved.blockList)'
    BY <1>1, <2>1 DEF ChainInv, Returned, Within
  <2> QED
    BY <1>1, <2>1, <2>2 DEF ChainInv, Returned
<1>4. CASE Node \/ UNCHANGED vars
  <2>1. UNCHANGED <<saved, torn, pc, blockList, chain>>
    BY <1>4, NodeFrame DEF vars, indexVars, fileVars
  <2> QED
    BY <1>1, <2>1 DEF ChainInv, Returned, Within
<1>5. CASE Start \/ Spawn \/ SpawnedAll \/ Join \/ Visit \/ HeightsDone \/ Crash
           \/ \E f \in FileNums : Thread(f)
  <2>1. UNCHANGED <<saved, torn, chain>> /\ pc' # "save" /\ (torn => pc' = "idle")
    <3>1. CASE \E f \in FileNums : Thread(f)
      <4>1. PICK f \in FileNums : Thread(f)
        BY <3>1
      <4>2. UNCHANGED <<saved, pc, chain>> /\ pc \in {"spawn", "join"}
        BY <4>1, LocalThread
      <4>3. torn' = torn
        BY <4>1 DEF Thread, Enter, Scan, ScanFails, Leave, Merge, fileVars
      <4> QED
        BY <1>1, <4>2, <4>3 DEF ChainInv
    <3>2. CASE Start \/ Spawn \/ SpawnedAll \/ Join \/ Visit \/ HeightsDone \/ Crash
      BY <1>1, <3>2
         DEF ChainInv, Start, Spawn, SpawnedAll, Join, Visit, HeightsDone, Crash, fileVars
    <3> QED
      BY <1>5, <3>1, <3>2
  <2>2. ~torn' => Returned(saved.blockList)'
    BY <1>1, <2>1 DEF ChainInv, Returned, Within
  <2> QED
    BY <1>1, <2>1, <2>2 DEF ChainInv, Returned
<1> QED
  BY <1>2, <1>3, <1>4, <1>5 DEF Next, Run, Update, StartThrows

LEMMA LongestInit == Init => LongestInv
<1> SUFFICES ASSUME Init PROVE LongestInv
  OBVIOUS
<1>1. TypeInv
  BY IndexInit DEF IndexInv
<1>2. /\ pc = "idle" /\ blockList = {} /\ newestBlock = << >> /\ stack = << >> /\ chain = << >> /\ ~torn
      /\ height = [b \in Block |-> -1]
      /\ saved.blockList = {} /\ saved.height = [b \in Block |-> -1] /\ saved.newestBlock = << >>
      /\ firstFile = 1 /\ filePos = 0 /\ maxFileNum = 1 /\ disk = << <<Genesis>> >>
      /\ thread = [f \in FileNums |-> "none"]
  BY DEF Init
<1>3. LocalInv
  BY <1>1, <1>2 DEF LocalInv, Positions
<1>4. FiniteInv
  BY <1>2, FS_EmptySet DEF FiniteInv
<1>5. GenesisInv
  BY <1>2 DEF GenesisInv
<1>6. HeightInv
  BY <1>2 DEF HeightInv, Heights
<1>7. StackInv /\ ChainInv
  BY <1>2 DEF StackInv, ChainInv, Returned
<1> QED
  BY <1>3, <1>4, <1>5, <1>6, <1>7 DEF LongestInv

(* The invariant of the traversal, with no hypothesis on the node.         *)
THEOREM LongestInvariance == Spec => []LongestInv
<1>1. LongestInv /\ [Next]_vars => LongestInv'
  <2> SUFFICES ASSUME LongestInv, [Next]_vars PROVE LongestInv'
    OBVIOUS
  <2>1. LocalInv'
    BY LocalNode, LocalStart, LocalThread, LocalSpawn, LocalRest DEF Next, Run, Update, StartThrows
  <2> QED
    BY <2>1, FiniteStep, GenesisStep, HeightStep, StackStep, ChainStep DEF LongestInv
<1> QED
  BY LongestInit, <1>1, PTL DEF Spec

(* Whatever blocks the index has, also one that failed scans or garbage in *)
(* newestBlock left incomplete, generateChain ends at a block all of whose *)
(* ancestors it has, and no such block has more of them.                   *)
THEOREM ChosenChainIsLongest == Spec => []ChainIsLongest
<1>1. LongestInv => ChainIsLongest
  <2> SUFFICES ASSUME LongestInv, pc = "generate", NEW b \in MaxHeightBlocks
               PROVE  /\ InIndex(b)
                      /\ \A c \in blockList : InIndex(c) => Len(Ancestry[c]) <= Len(Ancestry[b])
    BY DEF ChainIsLongest
  <2>1. blockList \subseteq Block
    BY DEF LongestInv, FiniteInv
  <2> QED
    BY <2>1, HighestIsLongest DEF InIndex, Within, Depth
<1> QED
  BY LongestInvariance, <1>1, PTL

(* The option --max-block does not turn a longer chain into a shorter one. *)
LEMMA TruncateGrows ==
  ASSUME NEW s \in Seq(Block), NEW t \in Seq(Block), Len(s) <= Len(t)
  PROVE  /\ Len(Truncate(s)) \in Nat /\ Len(Truncate(t)) \in Nat
         /\ Len(Truncate(s)) <= Len(Truncate(t))
<1>1. Len(s) \in Nat /\ Len(t) \in Nat /\ MaxBlockNum \in Int
  BY LenProperties, OptionAssumption
<1>2. ASSUME NEW u \in Seq(Block), NEW n \in Int, n <= Len(u)
      PROVE  Len(SubSeq(u, 1, n)) = IF 1 <= n THEN n ELSE 0
  <2>1. Len(u) \in Nat
    BY LenProperties
  <2> QED
    BY <1>2, <2>1, SubSeqProperties
<1>3. CASE MaxBlockNum < 0
  <2>1. /\ Truncate(s) = SubSeq(s, 1, Len(s) + MaxBlockNum)
        /\ Truncate(t) = SubSeq(t, 1, Len(t) + MaxBlockNum)
    BY <1>3 DEF Truncate
  <2>2. /\ Len(s) + MaxBlockNum \in Int /\ Len(s) + MaxBlockNum <= Len(s)
        /\ Len(t) + MaxBlockNum \in Int /\ Len(t) + MaxBlockNum <= Len(t)
    BY <1>1, <1>3
  <2>3. /\ Len(Truncate(s)) = IF 1 <= Len(s) + MaxBlockNum THEN Len(s) + MaxBlockNum ELSE 0
        /\ Len(Truncate(t)) = IF 1 <= Len(t) + MaxBlockNum THEN Len(t) + MaxBlockNum ELSE 0
    BY <1>2, <2>1, <2>2
  <2> QED
    BY <1>1, <1>3, <2>3
<1>4. CASE MaxBlockNum = 0
  BY <1>1, <1>4 DEF Truncate
<1>5. CASE MaxBlockNum > 0
  <2>1. ASSUME NEW u \in Seq(Block), Len(u) \in Nat
        PROVE  Len(Truncate(u)) = IF MaxBlockNum > Len(u) THEN Len(u) ELSE MaxBlockNum
    <3>1. CASE MaxBlockNum > Len(u)
      BY <1>1, <1>5, <3>1 DEF Truncate
    <3>2. CASE ~(MaxBlockNum > Len(u))
      <4>1. Truncate(u) = SubSeq(u, 1, MaxBlockNum) /\ MaxBlockNum <= Len(u) /\ 1 <= MaxBlockNum
        BY <1>1, <1>5, <2>1, <3>2 DEF Truncate
      <4> QED
        BY <1>1, <1>2, <3>2, <4>1
    <3> QED
      BY <3>1, <3>2
  <2> QED
    BY <1>1, <1>5, <2>1
<1> QED
  BY <1>1, <1>3, <1>4, <1>5

(* No update returns a shorter chain than the one before, whatever its     *)
(* threads read: updateChain never deletes blocks for want of others.      *)
THEOREM ChainsGrow == Spec => ChainNeverShrinks
<1>1. LongestInv /\ [Next]_vars => [Len(chain') >= Len(chain)]_vars
  <2> SUFFICES ASSUME LongestInv, Next PROVE Len(chain') >= Len(chain)
    OBVIOUS
  <2>0. ChainInv /\ FiniteInv
    BY DEF LongestInv
  <2>1. Len(chain) \in Nat
    <3>1. CASE chain = << >>
      BY <3>1
    <3>2. CASE chain # << >>
      <4>1. PICK b \in Block : chain = Truncate(Ancestry[b])
        BY <2>0, <3>2 DEF ChainInv, Returned
      <4>2. Ancestry[b] \in Seq(Block) /\ Len(Ancestry[b]) \in Nat
        BY AncestryAssumption, LenProperties
      <4>3. Len(Ancestry[b]) <= Len(Ancestry[b])
        BY <4>2
      <4> QED
        BY <4>1, <4>2, <4>3, TruncateGrows
    <3> QED
      BY <3>1, <3>2
  <2>2. CASE ~GenerateChain
    <3>1. chain' = chain
      BY <2>2, NodeFrame, LocalThread
         DEF Next, Run, Update, StartThrows, Start, Spawn, SpawnedAll, Join, Visit, HeightsDone,
             Save, Crash, vars
    <3> QED
      BY <2>1, <3>1
  <2>3. CASE GenerateChain
    <3>1. /\ pc = "generate"
          /\ blockList # {} => \E b \in MaxHeightBlocks : chain' = Truncate(Ancestry[b])
          /\ blockList = {} => chain' = << >>
      BY <2>3 DEF GenerateChain
    <3>2. CASE blockList = {}
      <4>1. chain = << >>
        <5> SUFFICES ASSUME NEW c \in Block, Within(c, saved.blockList) PROVE FALSE
          BY <2>0, <3>1 DEF ChainInv, Returned
        <5>1. Depth(c) \in DOMAIN Ancestry[c]
          BY Unfolded
        <5>2. saved.blockList \subseteq blockList
          BY <2>0, <3>1 DEF FiniteInv
        <5> QED
          BY <3>2, <5>1, <5>2 DEF Within, SetOf
      <4> QED
        BY <3>1, <3>2, <4>1
    <3>3. CASE blockList # {}
      <4>1. PICK b \in MaxHeightBlocks : chain' = Truncate(Ancestry[b])
        BY <3>1, <3>3
      <4>2. b \in Block /\ \A c \in Block : Within(c, blockList) => Depth(c) <= Depth(b)
        BY <3>1, HighestIsLongest
      <4>3. Ancestry[b] \in Seq(Block) /\ Len(Ancestry[b]) \in Nat
        BY <4>2, AncestryAssumption, LenProperties
      <4>4. CASE chain = << >>
        <5>1. Len(chain') \in Nat
          <6>1. Len(Ancestry[b]) <= Len(Ancestry[b])
            BY <4>3
          <6> QED
            BY <4>1, <4>3, <6>1, TruncateGrows
        <5> QED
          BY <4>4, <5>1
      <4>5. CASE chain # << >>
        <5>1. PICK c \in Block : Within(c, saved.blockList) /\ chain = Truncate(Ancestry[c])
          BY <2>0, <3>1, <4>5 DEF ChainInv, Returned
        <5>2. Within(c, blockList)
          BY <2>0, <3>1, <5>1 DEF FiniteInv, Within
        <5>3. Len(Ancestry[c]) <= Len(Ancestry[b])
          BY <4>2, <5>2 DEF Depth
        <5>4. Ancestry[c] \in Seq(Block)
          BY AncestryAssumption
        <5>5. /\ Len(chain) <= Len(chain') /\ Len(chain) \in Nat /\ Len(chain') \in Nat
          BY <4>1, <4>3, <5>1, <5>3, <5>4, TruncateGrows
        <5> QED
          BY <5>5
      <4> QED
        BY <4>4, <4>5
    <3> QED
      BY <3>2, <3>3
  <2> QED
    BY <2>2, <2>3
<1> QED
  BY LongestInvariance, <1>1, PTL DEF Spec, ChainNeverShrinks
=============================================================================
