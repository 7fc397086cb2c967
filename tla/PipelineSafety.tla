--------------------------- MODULE PipelineSafety ---------------------------
(***************************************************************************)
(* Proofs about Pipeline, continued: from the order of the transactions to *)
(* the ownership of the objects, the mapping of the files, and what a      *)
(* return of addNewBlocks means; and that the pipeline implements the      *)
(* sequential specification.                                               *)
(***************************************************************************)
EXTENDS PipelineProofs

(* A thread that has ended stays where it is, and an action moves the      *)
(* program counter of at most one thread.                                  *)
LEMMA ExitedStays ==
  ASSUME TypeInv, [Next]_vars, NEW i \in Threads, Exited(i)
  PROVE  pc'[i] = pc[i]
<1> USE Indices DEF TypeInv, TypeOK, Exited, ExitPc, ThrewPc
<1>1. CASE \E j \in Threads : ThreadAct(j)
  BY <1>1 DEF ThreadAct, Push, PushFull, Retry, GiveUp, Exit
<1>2. CASE \E j \in Steps : StepAct(j)
  BY <1>2 DEF StepAct, CheckPrevDone, Pop, QueueEmpty, Process, StepFails, Exit
<1>3. CASE ImportAct
  BY <1>3 DEF ImportAct, NextBlock, Recycle, Allocate, Parse, EndBlock, ImportDone,
              ImportFails, Exit
<1>4. CASE LastAct \/ MainAct \/ UNCHANGED vars
  BY <1>4 DEF LastAct, ProcessAndKeep, ProcessAndDelete, MainAct, GetFuture, Return,
              Rethrow, vars
<1> QED
  BY <1>1, <1>2, <1>3, <1>4, NextSplit

(* An action moves at most one thread.                                     *)
LEMMA OneMoves ==
  ASSUME TypeInv, [Next]_vars
  PROVE  \E i \in Threads : \A j \in Threads : j # i => pc'[j] = pc[j]
<1> USE Indices DEF TypeInv, TypeOK
<1>1. CASE \E i \in Threads : ThreadAct(i)
  <2>1. PICK i \in Threads : ThreadAct(i)
    BY <1>1
  <2>2. \E p \in {"load", "consume", "push", "blocked", "gaveUp"} : pc' = [pc EXCEPT ![i] = p]
    BY <2>1 DEF ThreadAct, Push, PushFull, Retry, GiveUp, Exit
  <2> QED
    BY <2>2
<1>2. CASE \E i \in Steps : StepAct(i)
  <2>1. PICK i \in Steps : StepAct(i)
    BY <1>2
  <2>2. \E p \in StepPc : pc' = [pc EXCEPT ![i] = p]
    BY <2>1 DEF StepAct, CheckPrevDone, Pop, QueueEmpty, Process, StepFails, Exit, StepPc,
                ExitPc, ThrewPc
  <2> QED
    BY <2>2
<1>3. CASE ImportAct
  BY <1>3 DEF ImportAct, NextBlock, Recycle, Allocate, Parse, EndBlock, ImportDone,
              ImportFails, Exit
<1>4. CASE LastAct \/ MainAct \/ UNCHANGED vars
  BY <1>4 DEF LastAct, ProcessAndKeep, ProcessAndDelete, MainAct, GetFuture, Return,
              Rethrow, vars
<1> QED
  BY <1>1, <1>2, <1>3, <1>4, NextSplit

(* Only a thread in its processing function records something.             *)
LEMMA OutStays ==
  ASSUME TypeInv, [Next]_vars, NEW i \in Steps, pc[i] # "func"
  PROVE  out'[i] = out[i]
<1> USE Indices DEF TypeInv, TypeOK, Record
<1>1. CASE \E j \in Threads : ThreadAct(j)
  BY <1>1 DEF ThreadAct, Push, PushFull, Retry, GiveUp
<1>2. CASE \E j \in Steps : StepAct(j)
  BY <1>2 DEF StepAct, CheckPrevDone, Pop, QueueEmpty, Process, StepFails
<1>3. CASE ImportAct
  BY <1>3 DEF ImportAct, NextBlock, Recycle, Allocate, Parse, EndBlock, ImportDone,
              ImportFails
<1>4. CASE LastAct \/ MainAct \/ UNCHANGED vars
  BY <1>4 DEF LastAct, ProcessAndKeep, ProcessAndDelete, MainAct, GetFuture, Return,
              Rethrow, vars
<1> QED
  BY <1>1, <1>2, <1>3, <1>4, NextSplit

-----------------------------------------------------------------------------
(* Where the importer is.                                                  *)

(* Nothing is imported at first.                                           *)
LEMMA ImportInit == Init => ImportInv
BY Indices, BlocksAssumption, EmptySeq DEF Init, ImportInv, StartTx, EndTx, Blocks

(* Every step keeps the importer where ImportInv says it is.               *)
LEMMA ImportStep ==
  ASSUME TypeInv, ImportInv, [Next]_vars
  PROVE  ImportInv'
<1> USE Indices, BlocksAssumption DEF ImportInv
<1>0. /\ pc \in [Threads -> ImportPc \cup StepPc] /\ nextTx \in Nat
      /\ block \in 1..(NumBlocks + 1) /\ blockFile \in Seq(Blocks)
  BY DEF TypeInv, TypeOK
<1>1. CASE UNCHANGED <<nextTx, block, blockFile>> /\ pc'[0] = pc[0]
  BY <1>1
<1>2. CASE ThreadAct(0)
  <2>1. CASE Push(0)
    <3>1. pc[0] = "push" /\ pc'[0] = "load" /\ nextTx' = nextTx + 1 /\ UNCHANGED <<block, blockFile>>
      BY <1>0, <2>1 DEF Push
    <3>2. /\ block \in Blocks /\ FirstTx[block] <= nextTx /\ nextTx < FirstTx[block + 1]
          /\ StartTx <= nextTx /\ Len(blockFile) = block - 1
      BY <3>1
    <3>3. /\ FirstTx[block] \in Nat /\ FirstTx[block + 1] \in Nat
          /\ FirstTx[block + 1] <= EndTx /\ StartTx \in Nat /\ EndTx \in Nat
      BY <3>2
    <3>4. /\ StartTx <= nextTx + 1 /\ nextTx + 1 <= EndTx
          /\ FirstTx[block] <= nextTx + 1 /\ nextTx + 1 <= FirstTx[block + 1]
      <4> HIDE Indices, BlocksAssumption DEF ImportInv
      <4> QED
        BY <1>0, <3>2, <3>3
    <3> QED
      BY <3>1, <3>2, <3>4
  <2>2. CASE PushFull(0) \/ Retry(0) \/ GiveUp(0)
    <3>1. pc[0] \in {"push", "blocked"} /\ pc'[0] \in {"push", "blocked", "gaveUp"}
      BY <1>0, <2>2 DEF PushFull, Retry, GiveUp, Exit
    <3>2. UNCHANGED <<nextTx, block, blockFile>>
      BY <2>2 DEF PushFull, Retry, GiveUp, importVars
    <3> QED
      BY <3>1, <3>2
  <2> QED
    BY <1>2, <2>1, <2>2 DEF ThreadAct
<1>3. CASE ImportAct
  <2>1. CASE NextBlock
    <3>1. /\ pc[0] = "block" /\ pc'[0] = "load" /\ block <= NumBlocks
          /\ UNCHANGED <<nextTx, block, blockFile>>
      BY <1>0, <2>1 DEF NextBlock, importVars
    <3>2. block \in Blocks
      BY <1>0, <3>1 DEF Blocks
    <3> QED
      BY <1>0, <3>1, <3>2
  <2>2. CASE Recycle \/ Allocate
    <3>1. /\ pc[0] = "load" /\ pc'[0] = "parse" /\ nextTx < FirstTx[block + 1]
          /\ UNCHANGED <<nextTx, block, blockFile>>
      BY <1>0, <2>2 DEF Recycle, Allocate, importVars
    <3> QED
      BY <1>0, <3>1
  <2>3. CASE Parse
    <3>1. pc[0] = "parse" /\ pc'[0] = "push" /\ UNCHANGED <<nextTx, block, blockFile>>
      BY <1>0, <2>3 DEF Parse, importVars
    <3> QED
      BY <1>0, <3>1
  <2>4. CASE EndBlock
    <3>1. /\ pc[0] = "load" /\ pc'[0] = "block" /\ nextTx = FirstTx[block + 1]
          /\ block' = block + 1 /\ blockFile' = Append(blockFile, block)
          /\ nextTx' = nextTx
      BY <1>0, <2>4 DEF EndBlock
    <3>2. block \in Blocks
      BY <3>1
    <3>3. Len(blockFile') = Len(blockFile) + 1
      BY <1>0, <3>1, <3>2, AppendProperties
    <3> QED
      BY <1>0, <3>1, <3>2, <3>3
  <2>5. CASE ImportDone
    <3>1. /\ pc[0] = "block" /\ pc'[0] = "returned" /\ block > NumBlocks
          /\ UNCHANGED <<nextTx, block, blockFile>>
      BY <1>0, <2>5 DEF ImportDone, Exit, importVars
    <3> QED
      BY <1>0, <3>1 DEF EndTx
  <2>6. CASE ImportFails
    <3>1. pc'[0] = "failed" /\ UNCHANGED <<nextTx, block, blockFile>>
      BY <1>0, <2>6 DEF ImportFails, Exit, importVars
    <3> QED
      BY <1>0, <3>1
  <2> QED
    BY <1>3, <2>1, <2>2, <2>3, <2>4, <2>5, <2>6 DEF ImportAct
<1>4. CASE \E i \in Threads : i # 0 /\ ThreadAct(i)
  <2>1. UNCHANGED <<nextTx, block, blockFile>> /\ pc'[0] = pc[0]
    BY <1>0, <1>4 DEF ThreadAct, Push, PushFull, Retry, GiveUp, Exit, importVars
  <2> QED
    BY <1>1, <2>1
<1>5. CASE \E i \in Steps : StepAct(i)
  <2>1. UNCHANGED <<nextTx, block, blockFile>> /\ pc'[0] = pc[0]
    BY <1>0, <1>5 DEF StepAct, CheckPrevDone, Pop, QueueEmpty, Process, StepFails, Exit, importVars
  <2> QED
    BY <1>1, <2>1
<1>6. CASE LastAct \/ MainAct \/ UNCHANGED vars
  <2>1. UNCHANGED <<nextTx, block, blockFile>> /\ pc'[0] = pc[0]
    BY <1>0, <1>6 DEF LastAct, ProcessAndKeep, ProcessAndDelete, MainAct, GetFuture,
                      Return, Rethrow, vars, importVars
  <2> QED
    BY <1>1, <2>1
<1> QED
  BY <1>2, <1>3, <1>4, <1>5, <1>6, NextSplit

-----------------------------------------------------------------------------
(* How threads end.                                                        *)

(* No thread has ended at first.                                           *)
LEMMA ExitInit == Init => ExitInv
BY Indices DEF Init, ExitInv, Exited, ExitPc, ThrewPc

(* A thread ends only when it failed or has nothing left to come.          *)
LEMMA ExitStep ==
  ASSUME TypeInv, ExitInv, [Next]_vars
  PROVE  ExitInv'
<1> USE Indices DEF Exited, ExitPc, ThrewPc
<1>0. /\ pc \in [Threads -> ImportPc \cup StepPc] /\ last \in [Steps -> BOOLEAN]
      /\ done \in [Threads -> BOOLEAN]
  BY DEF TypeInv, TypeOK
(* The flags.                                                              *)
<1>1. /\ \A i \in Threads : done'[i] <=> Exited(i)'
      /\ \A i \in Threads : done[i] => done'[i]
  <2> USE <1>0 DEF ExitInv
  <2>1. CASE UNCHANGED done /\ \E i \in Threads, p \in (ImportPc \cup StepPc) \ ExitPc :
               ~Exited(i) /\ pc' = [pc EXCEPT ![i] = p]
    BY <2>1
  <2>2. CASE UNCHANGED <<pc, done>>
    BY <2>2
  <2>3. CASE \E i \in Threads, p \in ExitPc : ~Exited(i) /\ Exit(i, p)
    BY <2>3 DEF Exit
  <2>4. CASE \E i \in Threads : ThreadAct(i)
    <3>1. PICK i \in Threads : ThreadAct(i)
      BY <2>4
    <3>2. CASE GiveUp(i)
      BY <2>3, <3>2 DEF GiveUp
    <3>3. CASE Push(i)
      BY <2>1, <3>3 DEF Push, ImportPc, StepPc
    <3>4. CASE PushFull(i) \/ Retry(i)
      BY <2>1, <3>4 DEF PushFull, Retry, ImportPc, StepPc
    <3> QED
      BY <3>1, <3>2, <3>3, <3>4 DEF ThreadAct
  <2>5. CASE \E i \in Steps : StepAct(i)
    BY <2>1, <2>3, <2>5 DEF StepAct, CheckPrevDone, Pop, QueueEmpty, Process, StepFails, ImportPc, StepPc
  <2>6. CASE ImportAct
    <3>1. CASE ImportDone \/ ImportFails
      BY <2>3, <3>1 DEF ImportDone, ImportFails
    <3>2. CASE NextBlock \/ Recycle \/ Allocate \/ Parse \/ EndBlock
      BY <2>1, <3>2 DEF NextBlock, Recycle, Allocate, Parse, EndBlock, ImportPc
    <3> QED
      BY <2>6, <3>1, <3>2 DEF ImportAct
  <2>7. CASE LastAct \/ MainAct \/ UNCHANGED vars
    BY <2>1, <2>2, <2>7 DEF LastAct, ProcessAndKeep, ProcessAndDelete, MainAct, GetFuture, Return,
         Rethrow, vars, ImportPc, StepPc
  <2> QED
    BY <2>4, <2>5, <2>6, <2>7, NextSplit
<1>2. \A i \in Steps : last'[i] => done'[i - 1]
  <2>1. CASE \E i \in Steps : CheckPrevDone(i)
    BY <1>0, <1>1, <2>1 DEF CheckPrevDone, ExitInv
  <2>2. CASE UNCHANGED last
    BY <1>0, <1>1, <2>2 DEF ExitInv
  <2>3. (\E i \in Steps : CheckPrevDone(i)) \/ UNCHANGED last
    BY NextSplit DEF ThreadAct, Push, PushFull, Retry, GiveUp, Exit,
         StepAct, Pop, QueueEmpty, Process, StepFails,
         ImportAct, NextBlock, Recycle, Allocate, Parse, EndBlock, ImportDone, ImportFails,
         LastAct, ProcessAndKeep, ProcessAndDelete, MainAct, GetFuture, Return, Rethrow, vars
  <2> QED
    BY <2>1, <2>2, <2>3
(* The queue of a step that has returned: its producer has ended.          *)
<1>3. ASSUME NEW i \in Steps, pc'[i] = "returned"
      PROVE  last'[i] /\ queue'[i] = << >>
  <2>1. CASE pc[i] = "returned"
    <3>1. last[i] /\ queue[i] = << >> /\ Exited(i - 1)
      BY <2>1 DEF ExitInv
    <3>2. i # NumSteps + 1 /\ i \in 1..(NumSteps + 1) /\ pc[i - 1] # "push" /\ i - 1 \in Threads
      BY <3>1
    <3>3. \A j \in Threads : j + 1 = i => j = i - 1
      BY DEF Threads, Steps
    <3>4. queue \in [1..(NumSteps + 1) -> Seq(Obj)]
      BY DEF TypeInv, TypeOK
    <3>5. CASE \E j \in Threads : ThreadAct(j)
      BY <1>0, <2>1, <3>1, <3>2, <3>3, <3>4, <3>5 DEF ThreadAct, Push, PushFull, Retry, GiveUp
    <3>6. CASE \E j \in Steps : StepAct(j)
      BY <1>0, <2>1, <3>1, <3>2, <3>4, <3>6
         DEF StepAct, CheckPrevDone, Pop, QueueEmpty, Process, StepFails
    <3>7. CASE ImportAct
      BY <1>0, <3>1, <3>2, <3>4, <3>7 DEF ImportAct, NextBlock, Recycle, Allocate, Parse,
         EndBlock, ImportDone, ImportFails
    <3>8. CASE LastAct \/ MainAct \/ UNCHANGED vars
      BY <1>0, <3>1, <3>2, <3>4, <3>8 DEF LastAct, ProcessAndKeep, ProcessAndDelete, MainAct,
         GetFuture, Return, Rethrow, vars
    <3> QED
      BY <3>5, <3>6, <3>7, <3>8, NextSplit
  <2>2. CASE pc[i] # "returned"
    <3>1. QueueEmpty(i) /\ last[i]
      <4> USE <1>0, <1>3, <2>2
      <4>1. CASE \E j \in Threads : ThreadAct(j)
        BY <4>1 DEF ThreadAct, Push, PushFull, Retry, GiveUp, Exit
      <4>2. CASE \E j \in Steps : StepAct(j)
        BY <4>2 DEF StepAct, CheckPrevDone, Pop, QueueEmpty, Process, StepFails, Exit
      <4>3. CASE ImportAct
        BY <4>3 DEF ImportAct, NextBlock, Recycle, Allocate, Parse, EndBlock, ImportDone,
                    ImportFails, Exit
      <4>4. CASE LastAct \/ MainAct \/ UNCHANGED vars
        BY <4>4 DEF LastAct, ProcessAndKeep, ProcessAndDelete, MainAct, GetFuture, Return,
                    Rethrow, vars
      <4> QED
        BY <4>1, <4>2, <4>3, <4>4, NextSplit
    <3> QED
      BY <3>1 DEF QueueEmpty
  <2> QED
    BY <2>1, <2>2
<1> QED
  BY <1>1, <1>2, <1>3 DEF ExitInv

-----------------------------------------------------------------------------
(* What a normal end of all threads up to a step means.                    *)

(* No thread is done at first.                                             *)
LEMMA CompleteInit == Init => CompleteInv
<1> SUFFICES ASSUME Init, NEW i \in Steps PROVE \E j \in 0..i : pc[j] # "returned"
  BY DEF CompleteInv
<1>1. 0 \in 0..i /\ pc[0] = "block"
  BY Indices DEF Init, Steps
<1> QED
  BY <1>1

(* A thread that returns in this step is the last to do so among those     *)
(* before it.                                                              *)
LEMMA CompleteStep ==
  ASSUME TypeInv, OrderInv, ImportInv, ExitInv, CompleteInv, [Next]_vars,
         TypeInv', OrderInv', ImportInv', ExitInv'
  PROVE  CompleteInv'
<1> SUFFICES ASSUME NEW i \in Steps, \A j \in 0..i : pc'[j] = "returned"
             PROVE  Todo(i)' = EndTx
  BY DEF CompleteInv
<1>0. i \in 0..i /\ i - 1 \in 0..i /\ i - 1 \in Threads /\ i \in Threads /\ 0..i \subseteq Threads
  BY StepsAssumption DEF Steps, Threads
<1>1. pc'[i] = "returned" /\ pc'[i - 1] = "returned"
  BY <1>0
(* The step and its producer, as the invariants of the new state say.      *)
<1>2. Todo(i)' = Sent(i - 1)'
  <2>1. HeldInv' /\ QueueInv'
    BY DEF OrderInv
  <2>2. queue'[i] = << >>
    BY <1>1 DEF ExitInv
  <2>3. Len(queue'[i]) = Sent(i - 1)' - Wanted(i)' /\ Len(queue'[i]) = 0
    BY <2>1, <2>2 DEF QueueInv
  <2>4. Wanted(i)' = Todo(i)'
    BY <1>1 DEF Wanted, Unprocessed
  <2>5. Todo(i)' \in Nat /\ Sent(i - 1)' \in Nat
    <3>1. \A j \in Steps : Todo(j)' \in Nat
      BY Indices, LenProperties DEF TypeInv, TypeOK, Todo
    <3>2. Sent(i - 1)' = nextTx' \/ (i - 1 \in Steps /\ Sent(i - 1)' = Todo(i - 1)')
      BY <1>0, <1>1, Indices DEF Sent, Unsent
    <3>3. nextTx' \in Nat
      BY DEF TypeInv, TypeOK
    <3> QED
      BY <3>1, <3>2, <3>3
  <2> QED
    BY <2>3, <2>4, <2>5
<1>3. CASE i = 1
  BY <1>1, <1>2, <1>3 DEF Sent, ImportInv
<1>4. CASE i # 1
  <2>0. i - 1 \in Steps /\ 0..(i - 1) \subseteq 0..i /\ i - 1 # 0
    BY <1>4, StepsAssumption DEF Steps
  <2>1. Sent(i - 1)' = Todo(i - 1)'
    BY <1>1, <2>0 DEF Sent, Unsent
  (* All of them had returned before: a thread whose consumer has returned *)
  (* had ended already.                                                    *)
  <2>2. \A j \in 0..(i - 1) : pc[j] = "returned"
    <3> SUFFICES ASSUME NEW j \in 0..(i - 1), pc[j] # "returned" PROVE FALSE
      OBVIOUS
    <3>1. j \in Threads /\ j + 1 \in Steps /\ j \in 0..i /\ j + 1 \in 0..i /\ j + 1 - 1 = j
          /\ j + 1 \in Threads /\ j # j + 1
      BY StepsAssumption DEF Steps, Threads
    <3>2. pc'[j] = "returned" /\ pc'[j + 1] = "returned"
      BY <3>1
    <3>3. pc[j + 1] = "returned"
      BY <3>1, <3>2, OneMoves
    <3>4. Exited(j)
      BY <3>1, <3>3 DEF ExitInv
    <3> QED
      BY <3>1, <3>2, <3>4, ExitedStays
  <2>3. Todo(i - 1) = EndTx
    BY <2>0, <2>2 DEF CompleteInv
  <2>4. Todo(i - 1)' = Todo(i - 1)
    <3>1. pc[i - 1] = "returned"
      BY <2>0, <2>2, StepsAssumption DEF Steps
    <3> QED
      BY <2>0, <3>1, OutStays DEF Todo
  <2> QED
    BY <1>2, <2>1, <2>3, <2>4
<1> QED
  BY <1>3, <1>4

-----------------------------------------------------------------------------
(* What the caller knows.                                                  *)

(* The caller has joined nobody at first.                                  *)
LEMMA JoinInit == Init => JoinInv
BY Indices DEF Init, JoinInv, Threads

(* The caller gets one future after the other.                             *)
LEMMA JoinStep ==
  ASSUME TypeInv, JoinInv, [Next]_vars
  PROVE  JoinInv'
<1> USE Indices
<1>0. /\ \A i \in Threads : pc[i] = "returned" => pc'[i] = "returned"
      /\ \A i \in Threads : Exited(i) => Exited(i)'
  <2>1. \A i \in Threads : Exited(i) => pc'[i] = pc[i]
    BY ExitedStays
  <2> QED
    BY <2>1 DEF Exited, ExitPc
<1>1. /\ queue \in [1..(NumSteps + 1) -> Seq(Obj)] /\ joined \in 0..(NumSteps + 1)
  BY DEF TypeInv, TypeOK
<1>2. CASE GetFuture
  <2>1. /\ main = "joining" /\ pc' = pc /\ queue' = queue /\ Exited(joined)
        /\ \/ main' = "unwinding" /\ joined' = joined
           \/ main' = "joining" /\ joined' = joined + 1 /\ pc[joined] = "returned"
    BY <1>2 DEF GetFuture, Exited, ExitPc, Threw
  <2>2. \A i \in Threads : i < joined + 1 => i < joined \/ i = joined
    BY <1>1, StepsAssumption DEF Threads
  <2> QED
    BY <2>1, <2>2 DEF JoinInv
<1>3. CASE Return
  <2>1. /\ main' = "returned" /\ joined' = joined /\ joined = NumSteps + 1 /\ pc' = pc
        /\ queue'[NumSteps + 1] = << >>
    BY <1>1, <1>3 DEF Return
  <2> QED
    BY <2>1 DEF JoinInv
<1>4. CASE Rethrow
  <2>1. main' = "threw" /\ joined' = joined /\ pc' = pc /\ \A i \in Threads : Exited(i)
    BY <1>4 DEF Rethrow
  <2> QED
    BY <1>0, <2>1 DEF JoinInv
<1>5. ASSUME UNCHANGED <<joined, main>>,
             main = "returned" => queue'[NumSteps + 1] = queue[NumSteps + 1]
      PROVE  JoinInv'
  BY <1>0, <1>5 DEF JoinInv
<1>6. main = "returned" => \A i \in Threads : pc[i] = "returned"
  BY StepsAssumption DEF JoinInv, Threads
<1>7. CASE \E i \in Threads : ThreadAct(i)
  <2>1. UNCHANGED <<joined, main>>
    BY <1>7 DEF ThreadAct, Push, PushFull, Retry, GiveUp, mainVars
  <2>2. main # "returned"
    BY <1>6, <1>7 DEF ThreadAct, Push, PushFull, Retry, GiveUp
  <2> QED
    BY <1>5, <2>1, <2>2
<1>8. CASE (\E i \in Steps : StepAct(i)) \/ LastAct
  <2>1. UNCHANGED <<joined, main>>
    BY <1>8 DEF StepAct, CheckPrevDone, Pop, QueueEmpty, Process, StepFails,
                LastAct, ProcessAndKeep, ProcessAndDelete, mainVars
  <2>2. main # "returned"
    BY <1>6, <1>8 DEF StepAct, CheckPrevDone, Pop, QueueEmpty, Process, StepFails,
                      LastAct, ProcessAndKeep, ProcessAndDelete
  <2> QED
    BY <1>5, <2>1, <2>2
<1>9. CASE ImportAct
  <2>1. UNCHANGED <<joined, main>>
    BY <1>9 DEF ImportAct, NextBlock, Recycle, Allocate, Parse, EndBlock, ImportDone,
                ImportFails, mainVars
  <2>2. main # "returned"
    BY <1>6, <1>9 DEF ImportAct, NextBlock, Recycle, Allocate, Parse, EndBlock, ImportDone,
                      ImportFails
  <2> QED
    BY <1>5, <2>1, <2>2
<1>10. CASE UNCHANGED vars
  BY <1>5, <1>10 DEF vars
<1> QED
  BY <1>2, <1>3, <1>4, <1>7, <1>8, <1>9, <1>10, NextSplit DEF MainAct

-----------------------------------------------------------------------------
(* No object is allocated and out of reach.                                *)

(* No object is allocated at first.                                        *)
LEMMA HeapInit == Init => HeapInv
BY DEF Init, HeapInv

(* Objects that are allocated stay in a hand or in a queue.                *)
LEMMA HeapStep ==
  ASSUME TypeInv, OrderInv, HeapInv, [Next]_vars
  PROVE  HeapInv'
<1> USE Indices
<1>0. /\ queue \in [1..(NumSteps + 1) -> Seq(Obj)] /\ held \in [Threads -> Obj \cup {None}]
      /\ HeldInv
  BY DEF TypeInv, TypeOK, OrderInv
<1> DEFINE In(o, i) == \E k \in 1..Len(queue[i]) : queue[i][k] = o
           InNext(o, i) == \E k \in 1..Len(queue'[i]) : queue'[i][k] = o
<1>a. ASSUME NEW o \in heap
      PROVE  (\E i \in Threads : held[i] = o) \/ (\E i \in 1..(NumSteps + 1) : In(o, i))
  BY DEF HeapInv
<1>b. ASSUME \A o \in heap' :
               (\E i \in Threads : held'[i] = o) \/ (\E i \in 1..(NumSteps + 1) : InNext(o, i))
      PROVE  HeapInv'
  BY <1>b DEF HeapInv
(* An object stays in reach unless it leaves the hand or the queue it was  *)
(* in.                                                                     *)
<1>1. CASE UNCHANGED <<queue, held, heap>>
  BY <1>1 DEF HeapInv
<1>2. CASE \E i \in Threads : Push(i)
  <2>1. PICK i \in Threads : Push(i)
    BY <1>2
  <2>2. /\ \A j \in 1..(NumSteps + 1) : j # i + 1 => queue'[j] = queue[j]
        /\ Len(queue[i + 1]) \in Nat
        /\ Len(queue'[i + 1]) = Len(queue[i + 1]) + 1
        /\ \A k \in 1..Len(queue[i + 1]) : queue'[i + 1][k] = queue[i + 1][k]
        /\ queue'[i + 1][Len(queue[i + 1]) + 1] = held[i]
    BY <2>1, PushEffect
  <2>3. heap' = heap /\ \A j \in Threads : j # i => held'[j] = held[j]
    BY <1>0, <2>1 DEF Push
  <2>4. ASSUME NEW o \in heap, NEW j \in 1..(NumSteps + 1), In(o, j) PROVE InNext(o, j)
    <3>1. PICK k \in 1..Len(queue[j]) : queue[j][k] = o
      BY <2>4
    <3>2. CASE j = i + 1
      <4>1. k \in 1..(Len(queue[j]) + 1) /\ Len(queue'[j]) = Len(queue[j]) + 1
        BY <2>2, <3>1, <3>2
      <4>2. queue'[j][k] = o
        BY <2>2, <3>1, <3>2
      <4> QED
        BY <4>1, <4>2
    <3>3. CASE j # i + 1
      <4>1. queue'[j] = queue[j]
        BY <2>2, <3>3
      <4> QED
        BY <3>1, <4>1, Zenon
    <3> QED
      BY <3>2, <3>3
  <2>5. InNext(held[i], i + 1)
    <3>1. Len(queue[i + 1]) + 1 \in 1..Len(queue'[i + 1])
      BY <2>2
    <3> QED
      BY <2>2, <3>1
  <2> HIDE DEF In, InNext
  <2>6. ASSUME NEW o \in heap
        PROVE  (\E j \in Threads : held'[j] = o) \/ (\E j \in 1..(NumSteps + 1) : InNext(o, j))
    <3>1. CASE \E j \in 1..(NumSteps + 1) : In(o, j)
      BY <2>4, <3>1
    <3>2. CASE \E j \in Threads : held[j] = o
      BY <2>3, <2>5, <3>2
    <3> QED
      BY <1>a, <3>1, <3>2
  <2> QED
    BY <1>b, <2>3, <2>6
<1>3. CASE (\E i \in Steps : Pop(i)) \/ Recycle
  <2>1. PICK i \in Threads, n \in 1..(NumSteps + 1) :
          /\ queue[n] # << >> /\ queue' = [queue EXCEPT ![n] = Tail(@)]
          /\ held' = [held EXCEPT ![i] = Head(queue[n])]
          /\ held[i] = None /\ heap' = heap
    <3>1. CASE \E i \in Steps : Pop(i)
      <4>1. PICK i \in Steps : Pop(i)
        BY <3>1
      <4>2. held[i] = None
        BY <1>0, <4>1 DEF Pop, HeldInv, Unprocessed, Unsent
      <4> QED
        BY <4>1, <4>2 DEF Pop
    <3>2. CASE Recycle
      BY <1>0, <3>2 DEF Recycle, HeldInv
    <3> QED
      BY <1>3, <3>1, <3>2
  <2>2. /\ Head(queue[n]) = queue[n][1]
        /\ \A j \in 1..(NumSteps + 1) : j # n => queue'[j] = queue[j]
        /\ Len(queue[n]) \in Nat \ {0}
        /\ Len(queue'[n]) = Len(queue[n]) - 1
        /\ \A k \in 1..Len(queue'[n]) : queue'[n][k] = queue[n][k + 1]
    BY <2>1, TailEffect
  <2>3. held'[i] = queue[n][1] /\ \A j \in Threads : j # i => held'[j] = held[j]
    BY <1>0, <2>1, <2>2
  <2>4. ASSUME NEW o \in heap, NEW j \in 1..(NumSteps + 1), In(o, j)
        PROVE  InNext(o, j) \/ held'[i] = o
    <3>1. CASE j # n
      BY <2>2, <2>4, <3>1
    <3>2. CASE j = n
      <4>1. PICK k \in 1..Len(queue[n]) : queue[n][k] = o
        BY <2>4, <3>2
      <4>2. CASE k = 1
        BY <2>3, <4>1, <4>2
      <4>3. CASE k # 1
        <5>1. k - 1 \in 1..Len(queue'[n]) /\ k - 1 + 1 = k
          BY <2>2, <4>3
        <5>2. queue'[n][k - 1] = o
          BY <2>2, <4>1, <5>1
        <5> QED
          BY <3>2, <5>1, <5>2
      <4> QED
        BY <4>2, <4>3
    <3> QED
      BY <3>1, <3>2
  <2>5. \A o \in heap : o # None
    BY ObjAssumption DEF TypeInv, TypeOK
  <2> HIDE DEF In, InNext
  <2>6. ASSUME NEW o \in heap
        PROVE  (\E j \in Threads : held'[j] = o) \/ (\E j \in 1..(NumSteps + 1) : InNext(o, j))
    <3>1. CASE \E j \in 1..(NumSteps + 1) : In(o, j)
      BY <2>4, <3>1
    <3>2. CASE \E j \in Threads : held[j] = o
      BY <2>1, <2>3, <2>5, <3>2
    <3> QED
      BY <1>a, <3>1, <3>2
  <2> QED
    BY <1>b, <2>1, <2>6
<1>4. CASE Allocate
  <2>1. PICK o \in Obj \ heap : held' = [held EXCEPT ![0] = o] /\ heap' = heap \cup {o}
    BY <1>4 DEF Allocate
  <2>2. queue' = queue /\ held[0] = None
    BY <1>0, <1>4 DEF Allocate, HeldInv
  <2>3. \A x \in heap : x # None
    BY ObjAssumption DEF TypeInv, TypeOK
  <2>4. held'[0] = o /\ \A j \in Threads : j # 0 => held'[j] = held[j]
    BY <1>0, <2>1
  <2> QED
    BY <2>1, <2>2, <2>3, <2>4 DEF HeapInv
<1>5. CASE ProcessAndDelete
  <2>1. /\ queue' = queue /\ heap' = heap \ {held[NumSteps]}
        /\ \A j \in Threads : j # NumSteps => held'[j] = held[j]
    BY <1>0, <1>5 DEF ProcessAndDelete
  <2> QED
    BY <2>1 DEF HeapInv
<1>6. CASE Return
  <2>1. /\ \A j \in 1..(NumSteps + 1) : j # NumSteps + 1 => queue'[j] = queue[j]
        /\ held' = held
        /\ heap' = heap \ {queue[NumSteps + 1][k] : k \in 1..Len(queue[NumSteps + 1])}
    BY <1>0, <1>6 DEF Return
  <2> QED
    BY <2>1 DEF HeapInv
<1>7. CASE \E i \in Threads : PushFull(i) \/ Retry(i) \/ GiveUp(i)
  BY <1>1, <1>7 DEF PushFull, Retry, GiveUp
<1>8. CASE \E i \in Steps : CheckPrevDone(i) \/ QueueEmpty(i) \/ Process(i) \/ StepFails(i)
  BY <1>1, <1>8 DEF CheckPrevDone, QueueEmpty, Process, StepFails
<1>9. CASE NextBlock \/ Parse \/ EndBlock \/ ImportDone \/ ImportFails
  BY <1>1, <1>9 DEF NextBlock, Parse, EndBlock, ImportDone, ImportFails
<1>10. CASE ProcessAndKeep \/ GetFuture \/ Rethrow \/ UNCHANGED vars
  BY <1>1, <1>10 DEF ProcessAndKeep, GetFuture, Rethrow, vars
<1> QED
  BY <1>2, <1>3, <1>4, <1>5, <1>6, <1>7, <1>8, <1>9, <1>10, NextSplit
     DEF ThreadAct, StepAct, ImportAct, LastAct, MainAct

-----------------------------------------------------------------------------
(* The mapped files.                                                       *)

(* The transactions that the last step has finished with only grow.        *)
LEMMA SentGrows ==
  ASSUME TypeInv, OrderInv, [Next]_vars, TypeInv', OrderInv'
  PROVE  /\ Sent(NumSteps) \in Nat /\ Sent(NumSteps)' \in Nat
         /\ Sent(NumSteps) <= Sent(NumSteps)'
         /\ StartTx <= Sent(NumSteps)'
<1> USE Indices
<1>0. /\ pc \in [Threads -> ImportPc \cup StepPc] /\ HeldInv /\ HeldInv'
      /\ out \in [Steps -> Seq(Nat)]
  BY DEF TypeInv, TypeOK, OrderInv
<1> DEFINE m == Len(out[NumSteps])
           n == Len(out'[NumSteps])
<1>1. /\ m \in Nat /\ n \in Nat
      /\ Unsent(NumSteps) => m > 0
      /\ Unsent(NumSteps)' => n > 0
  <2>1. out[NumSteps] \in Seq(Nat) /\ out'[NumSteps] \in Seq(Nat)
    BY DEF TypeInv, TypeOK
  <2>2. /\ Unsent(NumSteps) => out[NumSteps] # << >>
        /\ Unsent(NumSteps)' => out'[NumSteps] # << >>
    BY <1>0 DEF HeldInv
  <2> QED
    BY <2>1, <2>2, EmptySeq, LenProperties
<1>2. /\ Unsent(NumSteps) => Sent(NumSteps) = StartTx + m - 1
      /\ ~Unsent(NumSteps) => Sent(NumSteps) = StartTx + m
      /\ Unsent(NumSteps)' => Sent(NumSteps)' = StartTx + n - 1
      /\ ~Unsent(NumSteps)' => Sent(NumSteps)' = StartTx + n
  BY DEF Sent, Todo
<1>3. \/ out'[NumSteps] = out[NumSteps] /\ (Unsent(NumSteps)' => Unsent(NumSteps))
      \/ ~Unsent(NumSteps) /\ Len(out'[NumSteps]) = Len(out[NumSteps]) + 1
  <2> USE <1>0
  <2>1. CASE \E j \in Threads : ThreadAct(j)
    BY <2>1 DEF ThreadAct, Push, PushFull, Retry, GiveUp, Exit, Unsent
  <2>2. CASE \E j \in Steps : StepAct(j)
    <3>1. PICK j \in Steps : StepAct(j)
      BY <2>2
    <3>2. CASE Process(j)
      <4>1. j # NumSteps
        BY <3>2, StepsAssumption DEF Process
      <4> QED
        BY <3>2, <4>1 DEF Process, Record, Unsent
    <3> QED
      BY <3>1, <3>2 DEF StepAct, CheckPrevDone, Pop, QueueEmpty, StepFails, Exit, Unsent
  <2>3. CASE ImportAct
    <3>1. out' = out /\ pc'[NumSteps] = pc[NumSteps]
      BY <2>3 DEF ImportAct, NextBlock, Recycle, Allocate, Parse, EndBlock, ImportDone,
                  ImportFails, Exit
    <3> QED
      BY <3>1 DEF Unsent
  <2>4. CASE LastAct
    <3>1. pc[NumSteps] = "func" /\ Record(NumSteps)
      BY <2>4 DEF LastAct, ProcessAndKeep, ProcessAndDelete
    <3>2. Len(out'[NumSteps]) = Len(out[NumSteps]) + 1
      BY <3>1, RecordEffect
    <3> QED
      BY <3>1, <3>2 DEF Unsent
  <2>5. CASE MainAct \/ UNCHANGED vars
    BY <2>5 DEF MainAct, GetFuture, Return, Rethrow, vars, Unsent
  <2> QED
    BY <2>1, <2>2, <2>3, <2>4, <2>5, NextSplit
<1>4. \/ n = m /\ (Unsent(NumSteps)' => Unsent(NumSteps))
      \/ ~Unsent(NumSteps) /\ n = m + 1
  BY <1>3
<1> HIDE DEF m, n
<1> QED
  BY <1>1, <1>2, <1>4

(* No file is mapped at first.                                             *)
LEMMA MapInit == Init => MapInv
<1> SUFFICES ASSUME Init PROVE MapInv
  OBVIOUS
<1>1. pc[0] = "block" /\ nextTx = StartTx /\ out[NumSteps] = << >> /\ pc[NumSteps] = "loop"
  BY Indices DEF Init
<1>2. Sent(NumSteps) = StartTx
  BY <1>1, Indices DEF Sent, Unsent, Todo
<1> QED
  BY <1>1, <1>2, Indices DEF MapInv

(* The files of what is in flight stay mapped through every step.          *)
LEMMA MapStep ==
  ASSUME TypeInv, OrderInv, ImportInv, MapInv, [Next]_vars, TypeInv', OrderInv'
  PROVE  MapInv'
<1> USE Indices
<1> SUFFICES ASSUME main' = "joining", \A i \in Threads : ~Threw(i)'
             PROVE  /\ \A b \in Blocks : \A t \in StartTx..EndTx :
                         /\ FirstTx[b] <= t /\ t < FirstTx[b + 1]
                         /\ Sent(NumSteps)' <= t /\ t < nextTx'
                         => NFile[b] \in mapped'
                    /\ pc'[0] \in {"load", "parse", "push", "blocked"} => NFile[block'] \in mapped'
  BY DEF MapInv
<1>0. /\ pc \in [Threads -> ImportPc \cup StepPc] /\ nextTx \in Nat
      /\ block \in 1..(NumBlocks + 1)
  BY DEF TypeInv, TypeOK
(* Nothing had failed before this step.                                    *)
<1>1. main = "joining"
  <2>1. main # "joining" => main' # "joining"
    BY NextSplit DEF ThreadAct, Push, PushFull, Retry, GiveUp, mainVars,
       StepAct, CheckPrevDone, Pop, QueueEmpty, Process, StepFails,
       ImportAct, NextBlock, Recycle, Allocate, Parse, EndBlock, ImportDone, ImportFails,
       LastAct, ProcessAndKeep, ProcessAndDelete, MainAct, GetFuture, Return, Rethrow, vars
  <2> QED
    BY <2>1
<1>2. \A i \in Threads : ~Threw(i)
  <2> SUFFICES ASSUME NEW i \in Threads, Threw(i) PROVE FALSE
    OBVIOUS
  <2>1. pc'[i] = pc[i]
    BY ExitedStays DEF Threw, Exited, ExitPc
  <2> QED
    BY <2>1 DEF Threw
<1>3. /\ \A b \in Blocks : \A t \in StartTx..EndTx :
           /\ FirstTx[b] <= t /\ t < FirstTx[b + 1]
           /\ Sent(NumSteps) <= t /\ t < nextTx
           => NFile[b] \in mapped
      /\ pc[0] \in {"load", "parse", "push", "blocked"} => NFile[block] \in mapped
  BY <1>1, <1>2 DEF MapInv
<1>4. /\ Sent(NumSteps) \in Nat /\ Sent(NumSteps)' \in Nat
      /\ Sent(NumSteps) <= Sent(NumSteps)'
  BY SentGrows
(* Most actions leave the mapping, and what must be mapped, alone.         *)
<1>5. ASSUME mapped \subseteq mapped', nextTx' = nextTx,
             pc'[0] \in {"load", "parse", "push", "blocked"} => NFile[block'] \in mapped'
      PROVE  /\ \A b \in Blocks : \A t \in StartTx..EndTx :
                  /\ FirstTx[b] <= t /\ t < FirstTx[b + 1]
                  /\ Sent(NumSteps)' <= t /\ t < nextTx'
                  => NFile[b] \in mapped'
             /\ pc'[0] \in {"load", "parse", "push", "blocked"} => NFile[block'] \in mapped'
  <2> SUFFICES ASSUME NEW b \in Blocks, NEW t \in StartTx..EndTx,
                      FirstTx[b] <= t, t < FirstTx[b + 1], Sent(NumSteps)' <= t, t < nextTx'
               PROVE  NFile[b] \in mapped'
    BY <1>5
  <2>1. Sent(NumSteps) <= t
    BY <1>4
  <2> QED
    BY <1>3, <1>5, <2>1
<1>6. CASE ThreadAct(0)
  <2>1. CASE Push(0)
    <3>1. /\ pc[0] = "push" /\ nextTx' = nextTx + 1 /\ UNCHANGED <<mapped, block>>
      BY <1>0, <2>1 DEF Push
    <3>2. /\ block \in Blocks /\ FirstTx[block] <= nextTx /\ nextTx < FirstTx[block + 1]
          /\ NFile[block] \in mapped
      BY <1>3, <3>1 DEF ImportInv
    (* The transaction pushed is in the current block and no other.        *)
    <3>3. ASSUME NEW b \in Blocks, FirstTx[b] <= nextTx, nextTx < FirstTx[b + 1]
          PROVE  b = block
      <4>1. b + 1 <= block => FirstTx[b + 1] <= FirstTx[block]
        BY <3>2, BlocksAssumption DEF Blocks
      <4>2. block + 1 <= b => FirstTx[block + 1] <= FirstTx[b]
        BY <3>2, BlocksAssumption DEF Blocks
      <4>3. b \in Int /\ block \in Int /\ (b + 1 <= block \/ block + 1 <= b \/ b = block)
        BY <3>2, BlocksAssumption DEF Blocks
      <4> QED
        BY <1>0, <3>2, <3>3, <4>1, <4>2, <4>3
    <3>4. ASSUME NEW b \in Blocks, NEW t \in StartTx..EndTx,
                 FirstTx[b] <= t, t < FirstTx[b + 1], Sent(NumSteps)' <= t, t < nextTx'
          PROVE  NFile[b] \in mapped'
      <4>1. Sent(NumSteps) <= t /\ (t < nextTx \/ t = nextTx)
        BY <1>0, <1>4, <3>1, <3>4
      <4>2. CASE t < nextTx
        BY <1>3, <3>1, <3>4, <4>1, <4>2
      <4>3. CASE t = nextTx
        BY <3>1, <3>2, <3>3, <3>4, <4>3
      <4> QED
        BY <4>1, <4>2, <4>3
    <3> QED
      BY <3>1, <3>2, <3>4
  <2>2. CASE PushFull(0) \/ Retry(0)
    <3>1. pc[0] \in {"push", "blocked"} /\ UNCHANGED <<mapped, block, nextTx>>
      BY <2>2 DEF PushFull, Retry, importVars
    <3> QED
      BY <1>3, <1>5, <3>1
  <2>3. ~GiveUp(0)
    BY <1>0 DEF GiveUp, Exit, Threw, ThrewPc
  <2> QED
    BY <1>6, <2>1, <2>2, <2>3 DEF ThreadAct
<1>7. CASE ImportAct
  <2>1. CASE NextBlock
    <3>1. mapped' = mapped \cup {NFile[block]} /\ UNCHANGED <<block, nextTx>>
      BY <2>1 DEF NextBlock, importVars
    <3> QED
      BY <1>5, <3>1
  (* What came back is below everything that is under way.                 *)
  <2>2. CASE Recycle
    <3> DEFINE q == queue[NumSteps + 1]
               n == txNum[q[1]]
    <3>1. /\ pc[0] = "load" /\ nextTx < FirstTx[block + 1] /\ q # << >> /\ Head(q) = q[1]
          /\ mapped' = KeptFiles(n) /\ UNCHANGED <<block, nextTx>>
      <4>1. q # << >> /\ mapped' = KeptFiles(txNum[Head(q)])
        BY <2>2 DEF Recycle
      <4>2. q \in Seq(Obj)
        BY DEF TypeInv, TypeOK
      <4> QED
        BY <2>2, <4>1, <4>2 DEF Recycle, importVars
    <3>2. n \in Nat /\ n < Sent(NumSteps)
      <4>1. 1 \in 1..Len(q)
        BY <3>1, EmptySeq, LenProperties DEF TypeInv, TypeOK
      <4> QED
        BY <4>1 DEF OrderInv, FinishedInv, TypeInv, TypeOK
    <3>3. Sent(NumSteps) <= nextTx
      <4>1. Wanted(NumSteps) <= Sent(0)
        BY StepsAssumption DEF OrderInv, ChainInv, Steps
      <4>2. TypeInv /\ HeldInv
        BY DEF OrderInv
      <4>3. /\ Sent(0) = nextTx
            /\ Wanted(NumSteps) \in Nat /\ Todo(NumSteps) \in Nat
            /\ Sent(NumSteps) <= Todo(NumSteps) /\ Todo(NumSteps) <= Wanted(NumSteps)
        BY <4>2, Boundaries
      <4> QED
        BY <1>0, <1>4, <4>1, <4>3
    <3>4. ASSUME NEW b \in Blocks, n < FirstTx[b + 1], NFile[b] \in mapped
          PROVE  NFile[b] \in mapped'
      <4>1. ~(FirstTx[b + 1] < n)
        BY <3>2, <3>4
      <4>2. ~LastTxRequiredBelow(NFile[b], n)
        BY <4>1 DEF LastTxRequiredBelow
      <4> QED
        BY <3>1, <3>4, <4>2 DEF KeptFiles
    <3>5. block \in Blocks /\ NFile[block] \in mapped
      BY <1>3, <3>1 DEF ImportInv
    <3>6. NFile[block'] \in mapped'
      <4>1. n < FirstTx[block + 1]
        BY <1>0, <1>4, <3>1, <3>2, <3>3, <3>5
      <4> QED
        BY <3>1, <3>4, <3>5, <4>1
    <3>7. ASSUME NEW b \in Blocks, NEW t \in StartTx..EndTx,
                 FirstTx[b] <= t, t < FirstTx[b + 1], Sent(NumSteps)' <= t, t < nextTx'
          PROVE  NFile[b] \in mapped'
      <4>1. Sent(NumSteps) <= t /\ t < nextTx /\ n < FirstTx[b + 1]
        BY <1>4, <3>1, <3>2, <3>7
      <4> QED
        BY <1>3, <3>4, <3>7, <4>1
    <3> QED
      BY <3>6, <3>7
  <2>3. CASE Allocate \/ Parse
    <3>1. pc[0] \in {"load", "parse"} /\ UNCHANGED <<mapped, block, nextTx>>
      BY <2>3 DEF Allocate, Parse, importVars
    <3> QED
      BY <1>3, <1>5, <3>1
  <2>4. CASE EndBlock \/ ImportDone
    <3>1. pc'[0] \in {"block", "returned"} /\ UNCHANGED <<mapped, nextTx>>
      BY <1>0, <2>4 DEF EndBlock, ImportDone, Exit, importVars, ThrewPc
    <3> QED
      BY <1>5, <3>1
  <2>5. ~ImportFails
    BY <1>0 DEF ImportFails, Exit, Threw, ThrewPc
  <2> QED
    BY <1>7, <2>1, <2>2, <2>3, <2>4, <2>5 DEF ImportAct
<1>8. ASSUME pc'[0] = pc[0], UNCHANGED <<mapped, block, nextTx>>
      PROVE  /\ \A b \in Blocks : \A t \in StartTx..EndTx :
                  /\ FirstTx[b] <= t /\ t < FirstTx[b + 1]
                  /\ Sent(NumSteps)' <= t /\ t < nextTx'
                  => NFile[b] \in mapped'
             /\ pc'[0] \in {"load", "parse", "push", "blocked"} => NFile[block'] \in mapped'
  BY <1>3, <1>5, <1>8
<1>9. CASE \E i \in Threads : i # 0 /\ ThreadAct(i)
  <2>1. pc'[0] = pc[0] /\ UNCHANGED <<mapped, block, nextTx>>
    BY <1>0, <1>9 DEF ThreadAct, Push, PushFull, Retry, GiveUp, Exit, importVars
  <2> QED
    BY <1>8, <2>1
<1>10. CASE \E i \in Steps : StepAct(i)
  <2>1. pc'[0] = pc[0] /\ UNCHANGED <<mapped, block, nextTx>>
    BY <1>0, <1>10 DEF StepAct, CheckPrevDone, Pop, QueueEmpty, Process, StepFails, Exit, importVars
  <2> QED
    BY <1>8, <2>1
<1>11. CASE LastAct \/ MainAct \/ UNCHANGED vars
  <2>1. pc'[0] = pc[0] /\ UNCHANGED <<mapped, block, nextTx>>
    BY <1>0, <1>11 DEF LastAct, ProcessAndKeep, ProcessAndDelete, MainAct, GetFuture,
                       Return, Rethrow, vars, importVars
  <2> QED
    BY <1>8, <2>1
<1> QED
  BY <1>6, <1>7, <1>9, <1>10, <1>11, NextSplit

-----------------------------------------------------------------------------
(* The whole invariant, and what follows from it.                          *)

(* The invariant of the pipeline, all parts of it: what is in every hand   *)
(* and queue, where importer and caller are, who has ended and why, which  *)
(* objects are allocated and which files are mapped.                       *)
THEOREM Invariance == Spec => []IInv
<1>1. ImportInv /\ TypeInv /\ [Next]_vars => ImportInv'
  BY ImportStep
<1>2. ExitInv /\ TypeInv /\ [Next]_vars => ExitInv'
  BY ExitStep
<1>3. /\ CompleteInv /\ TypeInv /\ OrderInv /\ ImportInv /\ ExitInv /\ [Next]_vars
      /\ TypeInv' /\ OrderInv' /\ ImportInv' /\ ExitInv'
      => CompleteInv'
  BY CompleteStep
<1>4. JoinInv /\ TypeInv /\ [Next]_vars => JoinInv'
  BY JoinStep
<1>5. HeapInv /\ TypeInv /\ OrderInv /\ [Next]_vars => HeapInv'
  BY HeapStep
<1>6. MapInv /\ TypeInv /\ OrderInv /\ ImportInv /\ [Next]_vars /\ TypeInv' /\ OrderInv' => MapInv'
  BY MapStep
<1>7. /\ TypeInv /\ OrderInv /\ ImportInv /\ ExitInv /\ CompleteInv /\ JoinInv /\ HeapInv /\ MapInv
      => IInv
  BY DEF IInv
<1> QED
  BY TypeInvariance, OrderInvariance, ImportInit, ExitInit, CompleteInit, JoinInit, HeapInit,
     MapInit, <1>1, <1>2, <1>3, <1>4, <1>5, <1>6, <1>7, PTL DEF Spec

(* A normal return of addNewBlocks means that every step has processed     *)
(* every transaction and every block is in the block file.                 *)
THEOREM ReturnIsComplete == Spec => []CompleteOnReturn
<1>1. IInv => CompleteOnReturn
  <2> SUFFICES ASSUME IInv, main = "returned"
               PROVE  /\ \A i \in Steps : StartTx + Len(out[i]) = EndTx
                      /\ Len(blockFile) = NumBlocks
    BY DEF CompleteOnReturn
  <2>1. \A i \in Threads : pc[i] = "returned"
    BY StepsAssumption DEF IInv, JoinInv, Threads
  <2>2. \A i \in Steps : 0..i \subseteq Threads
    BY StepsAssumption DEF Steps, Threads
  <2>3. \A i \in Steps : Todo(i) = EndTx
    BY <2>1, <2>2 DEF IInv, CompleteInv
  <2>4. Len(blockFile) = NumBlocks
    BY <2>1, Indices, BlocksAssumption DEF IInv, ImportInv
  <2> QED
    BY <2>3, <2>4 DEF Todo
<1> QED
  BY Invariance, <1>1, PTL

(* A normal return leaves no RawTransaction allocated.                     *)
THEOREM ReturnFreesAll == Spec => []NoLeakOnReturn
<1>1. IInv => NoLeakOnReturn
  <2> SUFFICES ASSUME IInv, main = "returned", NEW o \in heap
               PROVE  FALSE
    BY DEF NoLeakOnReturn
  <2>1. \A i \in Threads : pc[i] = "returned"
    BY StepsAssumption DEF IInv, JoinInv, Threads
  <2>2. \A i \in Threads : held[i] = None
    <3>1. \A i \in Steps : held[i] = None
      BY <2>1, Indices DEF IInv, OrderInv, HeldInv, Unprocessed, Unsent
    <3>2. held[0] = None
      BY <2>1, Indices DEF IInv, OrderInv, HeldInv
    <3> QED
      BY <3>1, <3>2, Indices
  <2>3. \A i \in 1..(NumSteps + 1) : queue[i] = << >>
    <3>1. \A i \in Steps : queue[i] = << >>
      BY <2>1, Indices DEF IInv, ExitInv
    <3>2. queue[NumSteps + 1] = << >>
      BY DEF IInv, JoinInv
    <3>3. \A i \in 1..(NumSteps + 1) : i \in Steps \/ i = NumSteps + 1
      BY StepsAssumption DEF Steps
    <3> QED
      BY <3>1, <3>2, <3>3
  <2>4. o # None
    BY ObjAssumption DEF IInv, TypeInv, TypeOK
  <2> QED
    BY <2>2, <2>3, <2>4 DEF IInv, HeapInv
<1> QED
  BY Invariance, <1>1, PTL

(* The number of an object in a queue before the last step, or in the      *)
(* hands of a step, lies between what the last step is done with and what  *)
(* the importer has read.                                                  *)
LEMMA NumbersUnderWay ==
  ASSUME IInv
  PROVE  /\ Sent(NumSteps) \in Nat /\ nextTx \in Nat
         /\ StartTx <= Sent(NumSteps) /\ nextTx <= EndTx
         /\ \A i \in Steps : \A k \in 1..Len(queue[i]) :
              /\ txNum[queue[i][k]] \in Nat
              /\ Sent(NumSteps) <= txNum[queue[i][k]] /\ txNum[queue[i][k]] < nextTx
         /\ \A i \in Steps : held[i] # None =>
              /\ txNum[held[i]] \in Nat
              /\ Sent(NumSteps) <= txNum[held[i]] /\ txNum[held[i]] < nextTx
<1>1. TypeInv /\ HeldInv /\ QueueInv /\ ChainInv /\ ImportInv
  BY DEF IInv, OrderInv
<1>2. /\ nextTx \in Nat /\ Sent(0) = nextTx
      /\ \A i \in Steps : /\ Todo(i) \in Nat /\ Sent(i) \in Nat /\ Wanted(i) \in Nat
                          /\ Sent(i) <= Todo(i) /\ Todo(i) <= Wanted(i)
                          /\ Unsent(i) => Sent(i) = Todo(i) - 1
                          /\ ~Unsent(i) => Sent(i) = Todo(i)
                          /\ Unprocessed(i) => Wanted(i) = Todo(i) + 1
                          /\ ~Unprocessed(i) => Wanted(i) = Todo(i)
  BY <1>1, Boundaries
<1>3. \A i \in Threads, j \in Steps : i < j => Wanted(j) <= Sent(i)
  BY <1>1 DEF ChainInv
<1>4. \A i \in Steps : 0 < i /\ 0 \in Threads /\ i - 1 \in Threads /\ i - 1 < i
                       /\ (i = NumSteps \/ i < NumSteps) /\ i \in Threads
  BY StepsAssumption DEF Steps, Threads
<1>5. \A i \in Steps : Wanted(i) <= nextTx /\ Sent(NumSteps) <= Sent(i) /\ Sent(NumSteps) \in Nat
  <2> TAKE i \in Steps
  <2>1. NumSteps \in Steps
    BY Indices
  <2>2. Wanted(i) <= nextTx
    BY <1>2, <1>3, <1>4
  <2>3. i < NumSteps => Wanted(NumSteps) <= Sent(i)
    BY <1>3, <1>4, <2>1
  <2>4. Sent(NumSteps) <= Wanted(NumSteps) /\ Sent(NumSteps) \in Nat /\ Wanted(NumSteps) \in Nat
    BY <1>2, <2>1
  <2> QED
    BY <1>2, <1>4, <2>2, <2>3, <2>4
<1>6. ASSUME NEW i \in Steps, NEW k \in 1..Len(queue[i])
      PROVE  /\ txNum[queue[i][k]] \in Nat
             /\ Sent(NumSteps) <= txNum[queue[i][k]] /\ txNum[queue[i][k]] < nextTx
  <2>1. /\ Len(queue[i]) = Sent(i - 1) - Wanted(i)
        /\ txNum[queue[i][k]] = Wanted(i) + k - 1
    BY <1>1 DEF QueueInv
  <2>2. Sent(i - 1) \in Nat /\ Sent(i - 1) <= nextTx
    <3>1. CASE i - 1 = 0
      BY <1>2, <3>1
    <3>2. CASE i - 1 # 0
      <4>1. i - 1 \in Steps
        BY <1>4, <3>2, Indices
      <4> QED
        BY <1>2, <1>5, <4>1
    <3> QED
      BY <3>1, <3>2
  <2>3. /\ Wanted(i) \in Nat /\ Sent(NumSteps) \in Nat /\ Sent(NumSteps) <= Wanted(i)
        /\ nextTx \in Nat /\ k \in Nat /\ 1 <= k /\ k <= Sent(i - 1) - Wanted(i)
    BY <1>2, <1>5, <2>1, <2>2
  <2> QED
    BY <2>1, <2>2, <2>3
<1>7. ASSUME NEW i \in Steps, held[i] # None
      PROVE  /\ txNum[held[i]] \in Nat
             /\ Sent(NumSteps) <= txNum[held[i]] /\ txNum[held[i]] < nextTx
  <2>1. /\ Unprocessed(i) \/ Unsent(i)
        /\ Unprocessed(i) => txNum[held[i]] = Todo(i)
        /\ Unsent(i) => txNum[held[i]] = Todo(i) - 1
    BY <1>1, <1>7 DEF HeldInv
  <2>2. /\ Wanted(i) <= nextTx /\ Sent(NumSteps) <= Sent(i)
        /\ Sent(NumSteps) \in Nat /\ nextTx \in Nat
        /\ Todo(i) \in Nat /\ Sent(i) \in Nat /\ Wanted(i) \in Nat
        /\ Sent(i) <= Todo(i) /\ Todo(i) <= Wanted(i)
        /\ Unsent(i) => Sent(i) = Todo(i) - 1
        /\ Unprocessed(i) => Wanted(i) = Todo(i) + 1
    BY <1>2, <1>5
  <2>3. Unsent(i) => ~Unprocessed(i)
    BY DEF Unsent, Unprocessed
  <2> QED
    BY <2>1, <2>2, <2>3
<1>8. StartTx <= Sent(NumSteps)
  <2>1. Todo(NumSteps) = StartTx + Len(out[NumSteps]) /\ Len(out[NumSteps]) \in Nat
        /\ (Unsent(NumSteps) => Len(out[NumSteps]) # 0)
    BY <1>1, Indices, EmptySeq, LenProperties DEF Todo, TypeInv, TypeOK, HeldInv
  <2> QED
    BY <1>2, <2>1, Indices
<1> QED
  BY <1>1, <1>2, <1>5, <1>6, <1>7, <1>8, Indices DEF ImportInv

(* While no thread has failed, the files of the transactions under way and *)
(* of the block being read stay mapped.                                    *)
THEOREM FilesMapped == Spec => []FilesStayMapped
<1>1. IInv => FilesStayMapped
  <2> SUFFICES ASSUME IInv, main = "joining", \A i \in Threads : ~Threw(i)
               PROVE  /\ \A o \in InFlight : \A b \in Blocks :
                           (FirstTx[b] <= txNum[o] /\ txNum[o] < FirstTx[b + 1]) => NFile[b] \in mapped
                      /\ pc[0] \in {"load", "parse", "push", "blocked"} => NFile[block] \in mapped
    BY DEF FilesStayMapped
  <2>1. /\ \A b \in Blocks : \A t \in StartTx..EndTx :
             /\ FirstTx[b] <= t /\ t < FirstTx[b + 1]
             /\ Sent(NumSteps) <= t /\ t < nextTx
             => NFile[b] \in mapped
        /\ pc[0] \in {"load", "parse", "push", "blocked"} => NFile[block] \in mapped
    BY DEF IInv, MapInv
  <2>2. ASSUME NEW o \in InFlight
        PROVE  txNum[o] \in StartTx..EndTx /\ Sent(NumSteps) <= txNum[o] /\ txNum[o] < nextTx
    <3>1. (\E i \in Steps : \E k \in 1..Len(queue[i]) : o = queue[i][k])
          \/ (\E i \in Steps : held[i] # None /\ o = held[i])
      <4>1. CASE o \in UNION {QueueRange(i) : i \in Steps}
        <5>1. PICK i \in Steps : o \in QueueRange(i)
          BY <4>1
        <5> QED
          BY <5>1 DEF QueueRange
      <4>2. CASE o \in {held[i] : i \in Steps} \ {None}
        BY <4>2
      <4> QED
        BY <2>2, <4>1, <4>2 DEF InFlight
    <3>2. /\ txNum[o] \in Nat /\ Sent(NumSteps) <= txNum[o] /\ txNum[o] < nextTx
          /\ Sent(NumSteps) \in Nat /\ nextTx \in Nat
          /\ StartTx <= Sent(NumSteps) /\ nextTx <= EndTx
      BY <3>1, NumbersUnderWay
    <3> QED
      BY <3>2, Indices
  <2> QED
    BY <2>1, <2>2
<1> QED
  BY Invariance, <1>1, PTL

-----------------------------------------------------------------------------
(* Ownership.                                                              *)

(* What is in the input queue and in the hands of step i is numbered from  *)
(* Sent(i) up to Sent(i - 1), and these intervals do not meet.             *)
LEMMA Intervals ==
  ASSUME IInv, NEW i \in Steps
  PROVE  /\ Sent(i) \in Nat /\ Wanted(i) \in Nat /\ Sent(i - 1) \in Nat /\ nextTx \in Nat
         /\ Sent(i) <= Wanted(i) /\ Sent(i - 1) <= nextTx
         /\ \A k \in 1..Len(queue[i]) :
              /\ txNum[queue[i][k]] = Wanted(i) + k - 1
              /\ Wanted(i) <= txNum[queue[i][k]] /\ txNum[queue[i][k]] < Sent(i - 1)
         /\ held[i] # None => /\ txNum[held[i]] \in Nat
                              /\ Sent(i) <= txNum[held[i]] /\ txNum[held[i]] < Wanted(i)
         /\ Wanted(i) <= Sent(i - 1)
         /\ \A j \in Steps : i < j => Sent(j - 1) <= Sent(i)
<1>1. TypeInv /\ HeldInv /\ QueueInv /\ ChainInv /\ ImportInv
  BY DEF IInv, OrderInv
<1>2. /\ nextTx \in Nat /\ Sent(0) = nextTx
      /\ \A j \in Steps : /\ Todo(j) \in Nat /\ Sent(j) \in Nat /\ Wanted(j) \in Nat
                          /\ Sent(j) <= Todo(j) /\ Todo(j) <= Wanted(j)
                          /\ Unsent(j) => Sent(j) = Todo(j) - 1
                          /\ Unprocessed(j) => Wanted(j) = Todo(j) + 1
  BY <1>1, Boundaries
<1>3. \A j \in Threads, l \in Steps : j < l => Wanted(l) <= Sent(j)
  BY <1>1 DEF ChainInv
<1>4. i - 1 \in Threads /\ i - 1 < i /\ 0 \in Threads /\ i \in Threads /\ i \in Nat
  BY StepsAssumption DEF Steps, Threads
<1>5. Sent(i - 1) \in Nat /\ Wanted(i) <= Sent(i - 1) /\ Sent(i - 1) <= nextTx
  <2>1. CASE i - 1 = 0
    BY <1>2, <1>3, <1>4, <2>1
  <2>2. CASE i - 1 # 0
    <3>1. i - 1 \in Steps /\ 0 < i - 1
      BY <2>2, StepsAssumption DEF Steps
    <3>2. Wanted(i - 1) <= Sent(0)
      BY <1>3, <1>4, <3>1
    <3> QED
      BY <1>2, <1>3, <1>4, <3>1, <3>2
  <2> QED
    BY <2>1, <2>2
<1>6. ASSUME NEW k \in 1..Len(queue[i])
      PROVE  /\ txNum[queue[i][k]] = Wanted(i) + k - 1
             /\ Wanted(i) <= txNum[queue[i][k]] /\ txNum[queue[i][k]] < Sent(i - 1)
  <2>1. /\ Len(queue[i]) = Sent(i - 1) - Wanted(i)
        /\ txNum[queue[i][k]] = Wanted(i) + k - 1
    BY <1>1 DEF QueueInv
  <2> QED
    BY <1>2, <1>5, <2>1
<1>7. ASSUME held[i] # None
      PROVE  /\ txNum[held[i]] \in Nat
             /\ Sent(i) <= txNum[held[i]] /\ txNum[held[i]] < Wanted(i)
  <2>1. \/ Unprocessed(i) /\ txNum[held[i]] = Todo(i)
        \/ Unsent(i) /\ txNum[held[i]] = Todo(i) - 1
    BY <1>1, <1>7 DEF HeldInv
  <2> QED
    BY <1>2, <2>1
<1>8. ASSUME NEW j \in Steps, i < j
      PROVE  Sent(j - 1) <= Sent(i)
  <2>1. CASE j - 1 = i
    BY <1>2, <2>1
  <2>2. CASE j - 1 # i
    <3>1. j - 1 \in Steps /\ i < j - 1
      BY <1>8, <2>2, StepsAssumption DEF Steps
    <3>2. Wanted(j - 1) <= Sent(i)
      BY <1>3, <1>4, <3>1
    <3> QED
      BY <1>2, <3>1, <3>2
  <2> QED
    BY <2>1, <2>2
<1> QED
  BY <1>2, <1>5, <1>6, <1>7, <1>8

(* So what two steps have never has the same number.                       *)
LEMMA StepsApart ==
  ASSUME IInv, NEW i \in Steps, NEW j \in Steps, i # j
  PROVE  /\ \A k \in 1..Len(queue[i]), l \in 1..Len(queue[j]) : queue[i][k] # queue[j][l]
         /\ held[i] # None => /\ \A l \in 1..Len(queue[j]) : held[i] # queue[j][l]
                              /\ held[i] # held[j]
<1> DEFINE In(a, t) == t \in Nat /\ Sent(a) <= t /\ t < Sent(a - 1)
<1>1. ASSUME NEW a \in Steps, NEW b \in Steps, a < b, NEW t, In(a, t), In(b, t)
      PROVE  FALSE
  <2>1. Sent(b - 1) <= Sent(a) /\ Sent(a) \in Nat
    BY <1>1, Intervals
  <2>2. Sent(b - 1) \in Nat
    BY <1>1, Intervals
  <2> QED
    BY <1>1, <2>1, <2>2
<1>2. ASSUME NEW t, In(i, t), In(j, t) PROVE FALSE
  <2>1. i < j \/ j < i
    BY StepsAssumption DEF Steps
  <2> QED
    BY <1>1, <1>2, <2>1
<1>3. ASSUME NEW a \in Steps
      PROVE  /\ \A k \in 1..Len(queue[a]) : In(a, txNum[queue[a][k]])
             /\ held[a] # None => In(a, txNum[held[a]])
  <2>1. /\ Sent(a) \in Nat /\ Wanted(a) \in Nat /\ Sent(a - 1) \in Nat
        /\ Sent(a) <= Wanted(a) /\ Wanted(a) <= Sent(a - 1)
        /\ \A k \in 1..Len(queue[a]) :
             /\ txNum[queue[a][k]] = Wanted(a) + k - 1
             /\ Wanted(a) <= txNum[queue[a][k]] /\ txNum[queue[a][k]] < Sent(a - 1)
        /\ held[a] # None => /\ txNum[held[a]] \in Nat
                             /\ Sent(a) <= txNum[held[a]] /\ txNum[held[a]] < Wanted(a)
    BY <1>3, Intervals
  <2> QED
    BY <2>1
<1> HIDE DEF In
<1>4. \A k \in 1..Len(queue[i]), l \in 1..Len(queue[j]) : queue[i][k] # queue[j][l]
  BY <1>2, <1>3
<1>5. held[i] # None => \A l \in 1..Len(queue[j]) : held[i] # queue[j][l]
  BY <1>2, <1>3
<1>6. held[i] # None => held[i] # held[j]
  BY <1>2, <1>3
<1> QED
  BY <1>4, <1>5, <1>6

(* What the importer holds is in nobody else's hands and in no queue.      *)
LEMMA ImporterApart ==
  ASSUME IInv, held[0] # None
  PROVE  /\ \A j \in 1..(NumSteps + 1) : \A l \in 1..Len(queue[j]) : held[0] # queue[j][l]
         /\ \A j \in Steps : held[0] # held[j]
<1>1. TypeInv /\ OrderInv /\ HeldInv /\ FreshInv /\ FinishedInv
  BY DEF IInv, OrderInv
<1>2. pc[0] \in {"parse", "failed"} \/ Unsent(0)
  BY <1>1 DEF HeldInv, TypeInv, TypeOK, ImportPc, ExitPc, ThrewPc, Unsent
<1>3. CASE pc[0] \in {"parse", "failed"}
  BY <1>1, <1>3 DEF FreshInv
<1>4. CASE Unsent(0)
  <2>1. txNum[held[0]] = nextTx
    BY <1>1, <1>4 DEF HeldInv
  <2>2. \A j \in Steps : \A l \in 1..Len(queue[j]) : held[0] # queue[j][l]
    BY <2>1, NumbersUnderWay
  <2>3. \A j \in Steps : held[0] # held[j]
    BY <2>1, NumbersUnderWay
  <2>4. \A l \in 1..Len(queue[NumSteps + 1]) : held[0] # queue[NumSteps + 1][l]
    <3> TAKE l \in 1..Len(queue[NumSteps + 1])
    <3>1. queue[NumSteps + 1][l] \in Obj /\ txNum[queue[NumSteps + 1][l]] < Sent(NumSteps)
      BY <1>1 DEF FinishedInv, TypeInv, TypeOK
    <3> QED
      BY <1>1, <1>4, <3>1, FinishedApart
  <2>5. \A j \in 1..(NumSteps + 1) : j \in Steps \/ j = NumSteps + 1
    BY StepsAssumption DEF Steps
  <2> QED
    BY <2>2, <2>3, <2>4, <2>5
<1> QED
  BY <1>2, <1>3, <1>4

(* Every RawTransaction has one owner and is allocated: the importer never *)
(* overwrites an object a step still reads, and no step uses a deleted one.*)
THEOREM OneOwner == Spec => []SingleOwner
<1>1. IInv => SingleOwner
  <2> SUFFICES ASSUME IInv PROVE SingleOwner
    OBVIOUS
  <2>1. TypeInv /\ OrderInv /\ HeldInv /\ QueueInv /\ FinishedInv
    BY DEF IInv, OrderInv
  <2>2. /\ \A j \in 1..(NumSteps + 1) : j \in Steps \/ j = NumSteps + 1
        /\ \A i \in Threads : i \in Steps \/ i = 0
        /\ \A i \in Steps : i # NumSteps + 1 /\ i # 0
    BY StepsAssumption DEF Steps, Threads
  <2>3. ASSUME NEW l \in 1..Len(queue[NumSteps + 1])
        PROVE  /\ \A i \in Steps : \A k \in 1..Len(queue[i]) :
                    queue[i][k] # queue[NumSteps + 1][l]
               /\ \A i \in Steps : held[i] # None => held[i] # queue[NumSteps + 1][l]
    <3>1. queue[NumSteps + 1][l] \in Obj /\ txNum[queue[NumSteps + 1][l]] < Sent(NumSteps)
      BY <2>1, <2>3 DEF FinishedInv, TypeInv, TypeOK
    <3> QED
      BY <2>1, <3>1, FinishedApart
  <2>4. ASSUME NEW i \in 1..(NumSteps + 1), NEW j \in 1..(NumSteps + 1),
               NEW k \in 1..Len(queue[i]), NEW l \in 1..Len(queue[j]),
               queue[i][k] = queue[j][l]
        PROVE  i = j /\ k = l
    <3>1. i = j
      <4>1. ~(i \in Steps /\ j = NumSteps + 1) /\ ~(j \in Steps /\ i = NumSteps + 1)
        BY <2>3, <2>4
      <4>2. i \in Steps /\ j \in Steps => i = j
        BY <2>4, StepsApart
      <4> QED
        BY <2>2, <4>1, <4>2
    <3>2. CASE i = NumSteps + 1
      <4>1. \A a, b \in 1..Len(queue[i]) : a < b => txNum[queue[i][a]] < txNum[queue[i][b]]
        BY <2>1, <3>2 DEF FinishedInv
      <4>2. txNum[queue[i][k]] \in Nat /\ Len(queue[i]) \in Nat
        <5>1. queue[i] \in Seq(Obj) /\ txNum \in [Obj -> Nat]
          BY <2>1 DEF TypeInv, TypeOK
        <5>2. queue[i][k] \in Obj
          BY <5>1, ElementOfSeq
        <5> QED
          BY <5>1, <5>2, LenProperties
      <4>3. queue[i][k] = queue[i][l] /\ k \in 1..Len(queue[i]) /\ l \in 1..Len(queue[i])
        BY <2>4, <3>1
      <4>4. ~(k < l) /\ ~(l < k)
        BY <4>1, <4>2, <4>3
      <4> QED
        BY <3>1, <4>2, <4>3, <4>4
    <3>3. CASE i \in Steps
      <4>1. /\ Wanted(i) \in Nat
            /\ txNum[queue[i][k]] = Wanted(i) + k - 1 /\ txNum[queue[i][l]] = Wanted(i) + l - 1
        BY <2>4, <3>1, <3>3, Intervals
      <4> QED
        BY <2>4, <3>1, <4>1
    <3> QED
      BY <2>2, <3>1, <3>2, <3>3
  <2>5. ASSUME NEW i \in Threads, held[i] # None
        PROVE  /\ held[i] \in heap
               /\ \A j \in 1..(NumSteps + 1) : held[i] \notin QueueRange(j)
               /\ \A j \in Threads : held[j] = held[i] => i = j
    <3>1. held[i] \in heap
      BY <2>1, <2>5 DEF HeldInv
    <3>2. ASSUME NEW j \in 1..(NumSteps + 1), NEW l \in 1..Len(queue[j])
          PROVE  held[i] # queue[j][l]
      <4>1. CASE i = 0
        BY <2>5, <4>1, ImporterApart
      <4>2. CASE i \in Steps /\ j = NumSteps + 1
        BY <2>3, <2>5, <4>2
      <4>3. CASE i \in Steps /\ j \in Steps /\ i # j
        BY <2>5, <4>3, StepsApart
      <4>4. CASE i \in Steps /\ i = j
        <5>1. /\ Wanted(i) \in Nat /\ txNum[held[i]] < Wanted(i) /\ txNum[held[i]] \in Nat
              /\ Wanted(i) <= txNum[queue[i][l]]
          BY <2>5, <4>4, Intervals
        <5> QED
          BY <4>4, <5>1
      <4> QED
        BY <2>2, <4>1, <4>2, <4>3, <4>4
    <3>3. ASSUME NEW j \in Threads, held[j] = held[i]
          PROVE  i = j
      <4>1. i \in Steps /\ j \in Steps => i = j
        BY <2>5, <3>3, StepsApart
      <4>2. i = 0 => j \notin Steps
        BY <2>5, <3>3, ImporterApart
      <4>3. j = 0 => i \notin Steps
        BY <2>5, <3>3, ImporterApart
      <4> QED
        BY <2>2, <4>1, <4>2, <4>3
    <3> QED
      BY <3>1, <3>2, <3>3 DEF QueueRange
  <2>6. \A i \in 1..(NumSteps + 1) : QueueRange(i) \subseteq heap
    BY <2>1, <2>2 DEF QueueInv, FinishedInv, QueueRange
  <2> QED
    BY <2>4, <2>5, <2>6 DEF SingleOwner
<1> QED
  BY Invariance, <1>1, PTL

-----------------------------------------------------------------------------
(* The pipeline implements the sequential processing of OrderedSteps.      *)

(* A step that processes a transaction applies its function to the next    *)
(* one, which the step before it has seen.                                 *)
LEMMA ProcessApplies ==
  ASSUME IInv, NEW i \in Steps, pc[i] = "func", Record(i), main' = main
  PROVE  Ordered!Apply(i)
<1>1. TypeInv /\ OrderInv /\ HeldInv /\ ChainInv /\ ImportInv /\ JoinInv
  BY DEF IInv, OrderInv
<1>2. i \in Threads /\ ~Exited(i) /\ Unprocessed(i)
  BY Indices DEF Exited, ExitPc, ThrewPc, Unprocessed
<1>3. ~Over
  <2>1. main # "threw"
    BY <1>1, <1>2 DEF JoinInv
  <2>2. i < NumSteps + 1 /\ "func" # "returned"
    BY StepsAssumption DEF Steps
  <2>3. main # "returned"
    BY <1>1, <1>2, <2>2 DEF JoinInv
  <2> QED
    BY <2>1, <2>3 DEF Over
<1>4. ~Over'
  BY <1>3 DEF Over
<1>5. /\ Todo(i) \in Nat /\ Wanted(i) = Todo(i) + 1 /\ Wanted(i) <= Sent(i - 1)
      /\ Sent(i - 1) <= nextTx /\ Sent(i - 1) \in Nat /\ nextTx \in Nat
      /\ nextTx <= EndTx
  BY <1>1, <1>2, Boundaries, Intervals DEF ImportInv
<1>6. StartTx + Len(out[i]) < EndTx
  <2>1. Todo(i) = StartTx + Len(out[i]) /\ EndTx \in Nat
    BY Indices DEF Todo
  <2>2. Todo(i) < EndTx
    BY <1>5, <2>1
  <2> QED
    BY <2>1, <2>2, Zenon
<1>7. ASSUME i > 1 PROVE Len(out[i]) < Len(out[i - 1])
  <2>1. i - 1 \in Steps
    BY <1>7, StepsAssumption DEF Steps
  <2>2. Sent(i - 1) <= Todo(i - 1) /\ Todo(i - 1) \in Nat
    BY <1>1, <2>1, Boundaries
  <2>3. Len(out[i]) \in Nat /\ Len(out[i - 1]) \in Nat
    BY <1>1, <2>1, LenProperties DEF TypeInv, TypeOK
  <2>4. /\ Todo(i) = StartTx + Len(out[i]) /\ Todo(i - 1) = StartTx + Len(out[i - 1])
        /\ StartTx \in Nat
    BY Indices DEF Todo
  <2>5. Todo(i) < Todo(i - 1)
    BY <1>5, <2>2
  <2> QED
    BY <2>3, <2>4, <2>5
<1>8. out' = [out EXCEPT ![i] = Append(@, StartTx + Len(@))]
  BY <1>1, <1>2 DEF Record, HeldInv, Todo
<1> QED
  BY <1>3, <1>4, <1>6, <1>7, <1>8 DEF Ordered!Apply

(* Whatever the interleaving and whichever threads fail, the files the     *)
(* steps leave behind, and the outcome of the call, are those of one       *)
(* thread that takes the transactions in order.                            *)
THEOREM PipelineIsOrdered == Spec => OrderedSpec
<1>1. Init => Ordered!Init
  BY DEF Init, Over, Steps, Ordered!Init
<1>2. IInv /\ IInv' /\ [Next]_vars => [Ordered!Next]_Ordered!avars
  <2> SUFFICES ASSUME IInv, IInv', [Next]_vars
               PROVE  [Ordered!Next]_Ordered!avars
    OBVIOUS
  <2>1. ASSUME NEW i \in Steps, pc[i] = "func", Record(i), main' = main
        PROVE  Ordered!Next
    <3>1. Ordered!Apply(i) /\ i \in 1..NumSteps
      BY <2>1, ProcessApplies DEF Steps
    <3> QED
      BY <3>1 DEF Ordered!Next
  <2>2. ASSUME out' = out, main' = main
        PROVE  UNCHANGED Ordered!avars
    BY <2>2 DEF Ordered!avars, Over
  <2>3. CASE \E i \in Threads : ThreadAct(i)
    BY <2>2, <2>3 DEF ThreadAct, Push, PushFull, Retry, GiveUp, mainVars
  <2>4. CASE \E i \in Steps : StepAct(i)
    <3>1. PICK i \in Steps : StepAct(i)
      BY <2>4
    <3>2. CASE Process(i)
      BY <2>1, <3>2 DEF Process, mainVars
    <3>3. CASE ~Process(i)
      <4>1. out' = out /\ main' = main
        BY <3>1, <3>3 DEF StepAct, CheckPrevDone, Pop, QueueEmpty, StepFails, mainVars
      <4> QED
        BY <2>2, <4>1
    <3> QED
      BY <3>2, <3>3
  <2>5. CASE LastAct
    <3>1. NumSteps \in Steps /\ pc[NumSteps] = "func" /\ Record(NumSteps) /\ main' = main
      BY <2>5, Indices DEF LastAct, ProcessAndKeep, ProcessAndDelete, mainVars
    <3> QED
      BY <2>1, <3>1
  <2>6. CASE ImportAct
    <3>1. out' = out /\ main' = main
      BY <2>6 DEF ImportAct, NextBlock, Recycle, Allocate, Parse, EndBlock, ImportDone,
                  ImportFails, mainVars
    <3> QED
      BY <2>2, <3>1
  <2>7. CASE GetFuture
    <3>1. out' = out /\ main = "joining" /\ main' \in {"joining", "unwinding"}
      BY <2>7 DEF GetFuture
    <3> QED
      BY <3>1 DEF Ordered!avars, Over
  <2>8. CASE Return
    <3>1. out' = out /\ ~Over /\ Over' /\ main' = "returned"
      BY <2>8 DEF Return, Over
    <3>2. \A i \in 1..NumSteps : StartTx + Len(out[i]) = EndTx
      <4> TAKE i \in 1..NumSteps
      <4>1. \A j \in 0..i : j \in Threads /\ j < NumSteps + 1
        BY StepsAssumption DEF Threads
      <4>2. \A j \in 0..i : pc[j] = "returned"
        BY <2>8, <4>1 DEF Return, IInv, JoinInv
      <4> QED
        BY <4>2 DEF IInv, CompleteInv, Steps, Todo
    <3>3. Ordered!Return
      BY <3>1, <3>2 DEF Ordered!Return
    <3> QED
      BY <3>3 DEF Ordered!Next
  <2>9. CASE Rethrow
    <3>1. out' = out /\ ~Over /\ Over' /\ main' = "threw"
      BY <2>9 DEF Rethrow, Over
    <3>2. Ordered!Throw
      BY <3>1 DEF Ordered!Throw
    <3> QED
      BY <3>2 DEF Ordered!Next
  <2>10. CASE UNCHANGED vars
    BY <2>2, <2>10 DEF vars
  <2> QED
    BY <2>3, <2>4, <2>5, <2>6, <2>7, <2>8, <2>9, <2>10, NextSplit DEF MainAct
<1> QED
  BY Invariance, <1>1, <1>2, PTL DEF Spec, OrderedSpec, Ordered!Spec

=============================================================================
