--------------------------- MODULE PipelineProofs ---------------------------
(***************************************************************************)
(* Proofs about Pipeline for any number of steps, blocks and transactions, *)
(* any queue capacity and any set of threads that may fail.                *)
(***************************************************************************)
EXTENDS PipelineInv, SequenceTheorems, TLAPS

(* The actions, with the push actions of the importer and of the steps     *)
(* taken together.                                                         *)
ThreadAct(i) == Push(i) \/ PushFull(i) \/ Retry(i) \/ GiveUp(i)
StepAct(i) == \/ CheckPrevDone(i) \/ Pop(i) \/ QueueEmpty(i)
              \/ Process(i) \/ StepFails(i)
ImportAct == \/ NextBlock \/ Recycle \/ Allocate \/ Parse \/ EndBlock
             \/ ImportDone \/ ImportFails
LastAct == ProcessAndKeep \/ ProcessAndDelete
MainAct == GetFuture \/ Return \/ Rethrow

(* Every step of the pipeline is one of these actions or a stutter.        *)
LEMMA NextSplit ==
  ASSUME [Next]_vars
  PROVE  \/ \E i \in Threads : ThreadAct(i)
         \/ \E i \in Steps : StepAct(i)
         \/ ImportAct \/ LastAct \/ MainAct
         \/ UNCHANGED vars
<1>1. 0 \in Threads /\ Steps \subseteq Threads
  BY StepsAssumption DEF Threads, Steps
<1>2. CASE Importer
  BY <1>1, <1>2 DEF Importer, PushStep, ThreadAct, ImportAct
<1>3. CASE \E i \in Steps : Step(i)
  BY <1>1, <1>3 DEF Step, PushStep, ThreadAct, StepAct, LastAct
<1>4. CASE Main
  BY <1>4 DEF Main, MainAct
<1>5. CASE Finished \/ UNCHANGED vars
  BY <1>5 DEF Finished
<1> QED
  BY <1>2, <1>3, <1>4, <1>5 DEF Next

(* The numbering of threads, steps, queues and blocks.                     *)
LEMMA Indices ==
  /\ 0 \in Threads /\ NumSteps \in Steps /\ NumSteps \in Threads
  /\ \A i \in Steps : i \in Threads /\ i - 1 \in Threads /\ i \in 1..(NumSteps + 1) /\ i # 0
  /\ \A i \in Threads : i + 1 \in 1..(NumSteps + 1) /\ (i # 0 => i \in Steps)
  /\ NumSteps + 1 \in 1..(NumSteps + 1)
  /\ NumSteps + 1 \notin Threads
  /\ StartTx \in Nat /\ EndTx \in Nat /\ StartTx <= EndTx
  /\ \A b \in Blocks : /\ FirstTx[b] \in Nat /\ FirstTx[b + 1] \in Nat
                       /\ FirstTx[b] <= FirstTx[b + 1] /\ FirstTx[b + 1] <= EndTx
                       /\ StartTx <= FirstTx[b]
BY StepsAssumption, BlocksAssumption DEF Threads, Steps, StartTx, EndTx, Blocks

-----------------------------------------------------------------------------
(* What the actions do to the queues and the outputs.                      *)

(* A push appends the object in hand to the next queue.                    *)
LEMMA PushEffect ==
  ASSUME TypeInv, NEW i \in Threads, Push(i)
  PROVE  /\ held[i] \in Obj
         /\ queue' \in [1..(NumSteps + 1) -> Seq(Obj)]
         /\ \A j \in 1..(NumSteps + 1) : j # i + 1 => queue'[j] = queue[j]
         /\ \A j \in 1..(NumSteps + 1) : Len(queue'[j]) <= QueueSize
         /\ Len(queue[i + 1]) \in Nat /\ Len(queue[i + 1]) < QueueSize
         /\ Len(queue'[i + 1]) = Len(queue[i + 1]) + 1
         /\ \A k \in 1..Len(queue[i + 1]) : queue'[i + 1][k] = queue[i + 1][k]
         /\ queue'[i + 1][Len(queue[i + 1]) + 1] = held[i]
<1> DEFINE q == queue[i + 1]
<1>1. held[i] \in Obj /\ q \in Seq(Obj) /\ Len(q) <= QueueSize /\ Len(q) # QueueSize
  BY Indices DEF Push, TypeInv, TypeOK, InHand, Full
<1>2. /\ queue' = [queue EXCEPT ![i + 1] = Append(q, held[i])]
      /\ queue \in [1..(NumSteps + 1) -> Seq(Obj)]
      /\ i + 1 \in 1..(NumSteps + 1)
  BY Indices DEF Push, TypeInv, TypeOK
<1>3. Len(q) \in Nat
  BY <1>1, LenProperties
<1> HIDE DEF q
<1>4. /\ Append(q, held[i]) \in Seq(Obj)
      /\ Len(Append(q, held[i])) = Len(q) + 1
      /\ \A k \in 1..Len(q) : Append(q, held[i])[k] = q[k]
      /\ Append(q, held[i])[Len(q) + 1] = held[i]
  BY <1>1, AppendProperties
<1>5. queue'[i + 1] = Append(q, held[i])
  BY <1>2
<1>6. \A j \in 1..(NumSteps + 1) : j # i + 1 => queue'[j] = queue[j]
  BY <1>2
<1>7. queue' \in [1..(NumSteps + 1) -> Seq(Obj)]
  BY <1>2, <1>4
<1>8. Len(q) < QueueSize /\ Len(q) + 1 <= QueueSize
  BY <1>1, <1>3, QueueAssumption
<1>9. \A j \in 1..(NumSteps + 1) : Len(queue'[j]) <= QueueSize
  BY <1>4, <1>5, <1>6, <1>8 DEF TypeInv, TypeOK
<1> QED
  BY <1>1, <1>3, <1>4, <1>5, <1>6, <1>7, <1>8, <1>9 DEF q

(* A pop takes the head off a queue.                                       *)
LEMMA TailEffect ==
  ASSUME TypeInv, NEW n \in 1..(NumSteps + 1), queue[n] # << >>,
         queue' = [queue EXCEPT ![n] = Tail(@)]
  PROVE  /\ Head(queue[n]) \in Obj
         /\ Head(queue[n]) = queue[n][1]
         /\ queue' \in [1..(NumSteps + 1) -> Seq(Obj)]
         /\ \A j \in 1..(NumSteps + 1) : j # n => queue'[j] = queue[j]
         /\ \A j \in 1..(NumSteps + 1) : Len(queue'[j]) <= QueueSize
         /\ Len(queue[n]) \in Nat \ {0}
         /\ Len(queue[n]) <= QueueSize
         /\ Len(queue'[n]) = Len(queue[n]) - 1
         /\ \A k \in 1..Len(queue'[n]) : queue'[n][k] = queue[n][k + 1]
<1> DEFINE q == queue[n]
<1>1. q \in Seq(Obj) /\ queue \in [1..(NumSteps + 1) -> Seq(Obj)] /\ Len(q) <= QueueSize
  BY DEF TypeInv, TypeOK
<1>2. queue' = [queue EXCEPT ![n] = Tail(q)] /\ q # << >>
  OBVIOUS
<1> HIDE DEF q
<1>3. Head(q) = q[1] /\ Len(q) \in Nat \ {0}
  BY <1>1, <1>2, EmptySeq
<1>4. /\ Head(q) \in Obj /\ Tail(q) \in Seq(Obj)
      /\ Len(Tail(q)) = Len(q) - 1
      /\ \A k \in 1..Len(Tail(q)) : Tail(q)[k] = q[k + 1]
  BY <1>1, <1>2, HeadTailProperties
<1>5. queue'[n] = Tail(q)
  BY <1>1, <1>2
<1>6. \A j \in 1..(NumSteps + 1) : j # n => queue'[j] = queue[j]
  BY <1>1, <1>2
<1>7. queue' \in [1..(NumSteps + 1) -> Seq(Obj)]
  BY <1>1, <1>2, <1>4
<1>8. Len(q) - 1 <= QueueSize
  BY <1>1, <1>3, QueueAssumption
<1>9. \A j \in 1..(NumSteps + 1) : Len(queue'[j]) <= QueueSize
  BY <1>4, <1>5, <1>6, <1>8 DEF TypeInv, TypeOK
<1> QED
  BY <1>1, <1>3, <1>4, <1>5, <1>6, <1>7, <1>9 DEF q

(* A processing function records the transaction in hand.                  *)
LEMMA RecordEffect ==
  ASSUME TypeInv, NEW i \in Steps, pc[i] = "func", Record(i)
  PROVE  /\ held[i] \in Obj
         /\ out' \in [Steps -> Seq(Nat)]
         /\ \A j \in Steps : j # i => out'[j] = out[j]
         /\ Len(out[i]) \in Nat
         /\ out'[i] # << >>
         /\ Len(out'[i]) = Len(out[i]) + 1
         /\ \A k \in 1..Len(out[i]) : out'[i][k] = out[i][k]
         /\ out'[i][Len(out[i]) + 1] = txNum[held[i]]
<1> DEFINE q == out[i]
           n == txNum[held[i]]
<1>1. held[i] \in Obj /\ n \in Nat /\ q \in Seq(Nat) /\ out \in [Steps -> Seq(Nat)]
  BY Indices DEF TypeInv, TypeOK, InHand
<1>2. out' = [out EXCEPT ![i] = Append(q, n)]
  BY DEF Record
<1>3. Len(q) \in Nat
  BY <1>1, LenProperties
<1> HIDE DEF q, n
<1>4. /\ Append(q, n) \in Seq(Nat)
      /\ Append(q, n) # << >>
      /\ Len(Append(q, n)) = Len(q) + 1
      /\ \A k \in 1..Len(q) : Append(q, n)[k] = q[k]
      /\ Append(q, n)[Len(q) + 1] = n
  BY <1>1, AppendProperties
<1>5. out'[i] = Append(q, n)
  BY <1>1, <1>2
<1>6. \A j \in Steps : j # i => out'[j] = out[j]
  BY <1>1, <1>2
<1>7. out' \in [Steps -> Seq(Nat)]
  BY <1>1, <1>2, <1>4
<1> QED
  BY <1>1, <1>3, <1>4, <1>5, <1>6, <1>7 DEF q, n

-----------------------------------------------------------------------------
(* Types.                                                                  *)

LEMMA TypeInit == Init => TypeInv
BY Indices, BlocksAssumption, QueueAssumption, ObjAssumption
   DEF Init, TypeInv, TypeOK, InHand, ImportPc, StepPc, ExitPc, ThrewPc, Blocks, Files, Threads, Steps

LEMMA TypeThread ==
  ASSUME TypeInv, NEW i \in Threads, ThreadAct(i)
  PROVE  TypeInv'
<1>0. Push(i) =>
        /\ queue' \in [1..(NumSteps + 1) -> Seq(Obj)]
        /\ \A j \in 1..(NumSteps + 1) : Len(queue'[j]) <= QueueSize
  BY PushEffect
<1> USE Indices, ObjAssumption
<1> USE DEF TypeInv, TypeOK, InHand, ImportPc, StepPc, ExitPc, ThrewPc
<1>1. CASE Push(i)
  <2>2. pc' \in [Threads -> ImportPc \cup StepPc]
        /\ pc'[0] \in ImportPc /\ \A j \in Steps : pc'[j] \in StepPc
    BY <1>1 DEF Push
  <2>3. InHand'
    BY <1>1 DEF Push
  <2>4. nextTx' \in Nat /\ held' \in [Threads -> Obj \cup {None}]
    BY <1>1 DEF Push
  <2> QED
    BY <1>0, <1>1, <2>2, <2>3, <2>4 DEF Push, mainVars
<1>2. CASE PushFull(i)
  BY <1>2 DEF PushFull, mainVars, importVars
<1>3. CASE Retry(i)
  BY <1>3 DEF Retry, mainVars, importVars
<1>4. CASE GiveUp(i)
  BY <1>4 DEF GiveUp, Exit, mainVars, importVars
<1> QED
  BY <1>1, <1>2, <1>3, <1>4 DEF ThreadAct

LEMMA TypeStep ==
  ASSUME TypeInv, NEW i \in Steps, StepAct(i)
  PROVE  TypeInv'
<1>0. Pop(i) =>
        /\ Head(queue[i]) \in Obj
        /\ queue' \in [1..(NumSteps + 1) -> Seq(Obj)]
        /\ \A j \in 1..(NumSteps + 1) : Len(queue'[j]) <= QueueSize
  BY Indices, TailEffect DEF Pop
<1> USE Indices, ObjAssumption
<1> USE DEF TypeInv, TypeOK, InHand, ImportPc, StepPc, ExitPc, ThrewPc
<1>1. CASE CheckPrevDone(i)
  <2>1. last' \in [Steps -> BOOLEAN]
    BY <1>1 DEF CheckPrevDone
  <2> QED
    BY <1>1, <2>1 DEF CheckPrevDone, mainVars, importVars
<1>2. CASE Pop(i)
  <2>1. /\ held' \in [Threads -> Obj \cup {None}] /\ held'[i] \in Obj
        /\ \A j \in Threads : j # i => held'[j] = held[j]
    BY <1>0, <1>2 DEF Pop
  <2>2. /\ pc' \in [Threads -> ImportPc \cup StepPc] /\ pc'[i] = "func"
        /\ \A j \in Threads : j # i => pc'[j] = pc[j]
    BY <1>2 DEF Pop
  <2>3. InHand'
    BY <1>2, <2>1, <2>2 DEF Pop, importVars
  <2> QED
    BY <1>0, <1>2, <2>1, <2>2, <2>3 DEF Pop, mainVars, importVars
<1>3. CASE QueueEmpty(i)
  <2>1. /\ pc' \in [Threads -> ImportPc \cup StepPc] /\ pc'[i] \in {"loop", "returned"}
        /\ \A j \in Threads : j # i => pc'[j] = pc[j]
    BY <1>3 DEF QueueEmpty, Exit
  <2>2. done' \in [Threads -> BOOLEAN] /\ mapped' \subseteq Files
    BY <1>3 DEF QueueEmpty, Exit
  <2>3. InHand'
    BY <1>3, <2>1 DEF QueueEmpty, importVars
  <2> QED
    BY <1>3, <2>1, <2>2, <2>3 DEF QueueEmpty, mainVars, importVars
<1>4. CASE Process(i)
  <2>1. out' \in [Steps -> Seq(Nat)]
    BY <1>4, RecordEffect DEF Process
  <2> QED
    BY <1>4, <2>1 DEF Process, mainVars, importVars
<1>5. CASE StepFails(i)
  BY <1>5 DEF StepFails, Exit, mainVars, importVars
<1> QED
  BY <1>1, <1>2, <1>3, <1>4, <1>5 DEF StepAct

LEMMA TypeImport ==
  ASSUME TypeInv, ImportAct
  PROVE  TypeInv'
<1>0. Recycle =>
        /\ Head(queue[NumSteps + 1]) \in Obj
        /\ queue' \in [1..(NumSteps + 1) -> Seq(Obj)]
        /\ \A j \in 1..(NumSteps + 1) : Len(queue'[j]) <= QueueSize
  BY Indices, TailEffect DEF Recycle
<1> USE Indices, ObjAssumption
<1> USE DEF TypeInv, TypeOK, InHand, ImportPc, StepPc, ExitPc, ThrewPc
<1>1. CASE NextBlock
  <2>1. block \in Blocks
    BY <1>1, BlocksAssumption DEF NextBlock, Blocks
  <2> QED
    BY <1>1, <2>1 DEF NextBlock, mainVars, importVars, Files
<1>2. CASE Recycle
  <2>1. /\ held' \in [Threads -> Obj \cup {None}] /\ held'[0] \in Obj
        /\ \A j \in Threads : j # 0 => held'[j] = held[j]
    BY <1>0, <1>2 DEF Recycle
  <2>2. /\ pc' \in [Threads -> ImportPc \cup StepPc] /\ pc'[0] = "parse"
        /\ \A j \in Threads : j # 0 => pc'[j] = pc[j]
    BY <1>2 DEF Recycle
  <2>3. mapped' \subseteq Files
    BY <1>2 DEF Recycle, KeptFiles
  <2>4. InHand'
    BY <1>2, <2>1, <2>2 DEF Recycle, importVars
  <2> QED
    BY <1>0, <1>2, <2>1, <2>2, <2>3, <2>4 DEF Recycle, mainVars, importVars
<1>3. CASE Allocate
  <2>1. /\ held' \in [Threads -> Obj \cup {None}] /\ held'[0] \in Obj
        /\ \A j \in Threads : j # 0 => held'[j] = held[j]
    BY <1>3 DEF Allocate
  <2>2. /\ pc' \in [Threads -> ImportPc \cup StepPc] /\ pc'[0] = "parse"
        /\ \A j \in Threads : j # 0 => pc'[j] = pc[j]
    BY <1>3 DEF Allocate
  <2>3. InHand'
    BY <1>3, <2>1, <2>2 DEF Allocate, importVars
  <2> QED
    BY <1>3, <2>1, <2>2, <2>3 DEF Allocate, mainVars, importVars
<1>4. CASE Parse
  BY <1>4 DEF Parse, mainVars, importVars
<1>5. CASE EndBlock
  <2>1. block + 1 \in 1..(NumBlocks + 1)
    BY <1>5, BlocksAssumption DEF EndBlock, Blocks
  <2>2. blockFile' \in Seq(Blocks)
    BY <1>5, AppendProperties DEF EndBlock
  <2> QED
    BY <1>5, <2>1, <2>2 DEF EndBlock, mainVars
<1>6. CASE ImportDone
  BY <1>6 DEF ImportDone, Exit, mainVars, importVars
<1>7. CASE ImportFails
  BY <1>7 DEF ImportFails, Exit, mainVars, importVars
<1> QED
  BY <1>1, <1>2, <1>3, <1>4, <1>5, <1>6, <1>7 DEF ImportAct

LEMMA TypeRest ==
  ASSUME TypeInv, LastAct \/ MainAct \/ UNCHANGED vars
  PROVE  TypeInv'
<1> USE Indices, ObjAssumption
<1> USE DEF TypeInv, TypeOK, InHand, ImportPc, StepPc, ExitPc, ThrewPc
<1>1. CASE ProcessAndKeep
  <2>1. out' \in [Steps -> Seq(Nat)]
    BY <1>1, RecordEffect DEF ProcessAndKeep
  <2> QED
    BY <1>1, <2>1 DEF ProcessAndKeep, mainVars, importVars
<1>2. CASE ProcessAndDelete
  <2>1. out' \in [Steps -> Seq(Nat)]
    BY <1>2, RecordEffect DEF ProcessAndDelete
  <2> QED
    BY <1>2, <2>1 DEF ProcessAndDelete, mainVars, importVars
<1>3. CASE GetFuture
  <2>1. joined' \in 0..(NumSteps + 1)
    BY <1>3, StepsAssumption DEF GetFuture
  <2> QED
    BY <1>3, <2>1 DEF GetFuture, importVars
<1>4. CASE Return
  <2>1. queue' \in [1..(NumSteps + 1) -> Seq(Obj)]
        /\ \A j \in 1..(NumSteps + 1) : Len(queue'[j]) <= QueueSize
    BY <1>4, QueueAssumption DEF Return
  <2> QED
    BY <1>4, <2>1 DEF Return, importVars
<1>5. CASE Rethrow
  BY <1>5 DEF Rethrow, importVars
<1>6. CASE UNCHANGED vars
  BY <1>6 DEF vars
<1> QED
  BY <1>1, <1>2, <1>3, <1>4, <1>5, <1>6 DEF LastAct, MainAct

(* Every variable of the pipeline keeps its type, no queue ever holds more *)
(* than its capacity, and a thread that uses its object has one.           *)
THEOREM TypeInvariance == Spec => []TypeInv
<1>1. TypeInv /\ [Next]_vars => TypeInv'
  BY NextSplit, TypeThread, TypeStep, TypeImport, TypeRest
<1> QED
  BY TypeInit, <1>1, PTL DEF Spec

(* The type invariant that the runs check.                                 *)
THEOREM TypeCorrect == Spec => []TypeOK
<1>1. TypeInv => TypeOK
  BY DEF TypeInv
<1> QED
  BY TypeInvariance, <1>1, PTL

-----------------------------------------------------------------------------
(* Order.                                                                  *)

(* The boundaries of the intervals are numbers, and in order at each step. *)
LEMMA Boundaries ==
  ASSUME TypeInv, HeldInv
  PROVE  /\ nextTx \in Nat /\ Sent(0) = nextTx
         /\ \A i \in Steps : /\ Todo(i) \in Nat /\ Sent(i) \in Nat /\ Wanted(i) \in Nat
                             /\ Sent(i) <= Todo(i) /\ Todo(i) <= Wanted(i)
                             /\ Unsent(i) => Sent(i) = Todo(i) - 1
                             /\ ~Unsent(i) => Sent(i) = Todo(i)
                             /\ Unprocessed(i) => Wanted(i) = Todo(i) + 1
                             /\ ~Unprocessed(i) => Wanted(i) = Todo(i)
<1>1. nextTx \in Nat /\ Sent(0) = nextTx
  BY DEF TypeInv, TypeOK, Sent
<1>2. ASSUME NEW i \in Steps
      PROVE  Len(out[i]) \in Nat /\ (Unsent(i) => Len(out[i]) > 0)
  BY <1>2, EmptySeq, LenProperties DEF TypeInv, TypeOK, HeldInv
<1> QED
  BY <1>1, <1>2, Indices DEF Todo, Sent, Wanted

(* An object whose number is below that of every transaction the last step *)
(* has not popped is in no queue before that step and in nobody's hands    *)
(* but those of the last step and of an importer about to overwrite it.    *)
LEMMA PoppedApart ==
  ASSUME TypeInv, OrderInv, NEW o \in Obj, txNum[o] < Wanted(NumSteps)
  PROVE  /\ \A i \in Steps : \A k \in 1..Len(queue[i]) : queue[i][k] # o
         /\ \A i \in Steps : i # NumSteps /\ held[i] # None => held[i] # o
         /\ Unsent(0) => held[0] # o
<1> USE Indices, Boundaries
<1>0. HeldInv /\ ChainInv /\ QueueInv /\ txNum[o] \in Nat
  BY DEF OrderInv, TypeInv, TypeOK
<1>1. \A i \in Steps : i # NumSteps => Wanted(NumSteps) <= Sent(i)
  <2> SUFFICES ASSUME NEW i \in Steps, i # NumSteps PROVE Wanted(NumSteps) <= Sent(i)
    OBVIOUS
  <2>1. i < NumSteps /\ i \in Threads
    BY StepsAssumption DEF Steps
  <2> QED
    BY <1>0, <2>1 DEF ChainInv
<1>2. Wanted(NumSteps) <= nextTx
  <2>1. 0 < NumSteps
    BY StepsAssumption
  <2> QED
    BY <1>0, <2>1 DEF ChainInv
<1>3. \A i \in Steps : \A k \in 1..Len(queue[i]) : queue[i][k] # o
  <2> SUFFICES ASSUME NEW i \in Steps, NEW k \in 1..Len(queue[i]), queue[i][k] = o
               PROVE  FALSE
    OBVIOUS
  <2>1. txNum[o] = Wanted(i) + k - 1
    BY <1>0 DEF QueueInv
  <2>2. Len(queue[i]) \in Nat
    BY LenProperties DEF TypeInv, TypeOK
  <2>3. k \in Nat /\ 1 <= k
    BY <2>2
  <2>4. Wanted(NumSteps) \in Nat /\ Wanted(i) \in Nat
    BY <1>0
  <2>5. Wanted(NumSteps) <= Wanted(i)
    <3>1. CASE i = NumSteps
      BY <2>4, <3>1
    <3>2. CASE i # NumSteps
      BY <1>0, <1>1, <2>4, <3>2
    <3> QED
      BY <3>1, <3>2
  <2> HIDE Boundaries, Indices
  <2> QED
    BY <1>0, <2>1, <2>3, <2>4, <2>5
<1>4. \A i \in Steps : i # NumSteps /\ held[i] # None => held[i] # o
  <2> SUFFICES ASSUME NEW i \in Steps, i # NumSteps, held[i] # None, held[i] = o
               PROVE  FALSE
    OBVIOUS
  <2>1. txNum[o] = Todo(i) \/ (Unsent(i) /\ txNum[o] = Todo(i) - 1)
    BY <1>0 DEF HeldInv
  <2>2. txNum[o] >= Sent(i)
    BY <1>0, <2>1
  <2> QED
    BY <1>0, <1>1, <2>2
<1>5. Unsent(0) => held[0] # o
  <2>1. Unsent(0) => txNum[held[0]] = nextTx
    BY <1>0 DEF HeldInv
  <2> QED
    BY <1>0, <1>2, <2>1
<1> QED
  BY <1>3, <1>4, <1>5

(* In particular an object in finished_transaction_queue, which the last   *)
(* step has let go.                                                        *)
LEMMA FinishedApart ==
  ASSUME TypeInv, OrderInv, NEW o \in Obj, txNum[o] < Sent(NumSteps)
  PROVE  /\ \A i \in Steps : \A k \in 1..Len(queue[i]) : queue[i][k] # o
         /\ \A i \in Steps : held[i] # None => held[i] # o
         /\ Unsent(0) => held[0] # o
<1> USE Indices, Boundaries
<1>0. HeldInv /\ txNum[o] \in Nat
  BY DEF OrderInv, TypeInv, TypeOK
<1>1. txNum[o] < Wanted(NumSteps)
  BY <1>0
<1>2. ASSUME held[NumSteps] # None, held[NumSteps] = o
      PROVE  FALSE
  <2>1. \/ txNum[o] = Todo(NumSteps)
        \/ Unsent(NumSteps) /\ txNum[o] = Todo(NumSteps) - 1
    BY <1>0, <1>2 DEF HeldInv
  <2> QED
    BY <1>0, <2>1
<1>3. /\ \A i \in Steps : \A k \in 1..Len(queue[i]) : queue[i][k] # o
      /\ \A i \in Steps : i # NumSteps /\ held[i] # None => held[i] # o
      /\ Unsent(0) => held[0] # o
  BY <1>1, PoppedApart
<1> QED
  BY <1>2, <1>3

(* A step that moves nothing in the queues before the last leaves them as  *)
(* they are.                                                               *)
LEMMA QueueFrame ==
  ASSUME QueueInv,
         \A j \in Steps : queue'[j] = queue[j] /\ Wanted(j)' = Wanted(j),
         \A j \in Threads : Sent(j)' = Sent(j),
         \A j \in Steps : \A k \in 1..Len(queue[j]) :
           queue[j][k] \in heap' /\ txNum'[queue[j][k]] = txNum[queue[j][k]]
  PROVE  QueueInv'
<1> SUFFICES ASSUME NEW j \in Steps
             PROVE  /\ Len(queue'[j]) = Sent(j - 1)' - Wanted(j)'
                    /\ \A k \in 1..Len(queue'[j]) :
                         queue'[j][k] \in heap' /\ txNum'[queue'[j][k]] = Wanted(j)' + k - 1
  BY DEF QueueInv
<1>1. /\ Len(queue[j]) = Sent(j - 1) - Wanted(j)
      /\ \A k \in 1..Len(queue[j]) : txNum[queue[j][k]] = Wanted(j) + k - 1
  BY DEF QueueInv
<1>2. Sent(j - 1)' = Sent(j - 1) /\ Wanted(j)' = Wanted(j) /\ queue'[j] = queue[j]
  BY Indices
<1> QED
  BY <1>1, <1>2

LEMMA OrderInit == Init => OrderInv
<1> SUFFICES ASSUME Init PROVE OrderInv
  OBVIOUS
<1> USE Indices DEF Init
<1>1. \A i \in Steps : out[i] = << >> /\ queue[i] = << >> /\ pc[i] = "loop" /\ held[i] = None
  OBVIOUS
<1>2. \A i \in Steps : ~Unprocessed(i) /\ ~Unsent(i)
  BY <1>1 DEF Unprocessed, Unsent
<1>3. \A i \in Steps : Todo(i) = StartTx /\ Sent(i) = StartTx /\ Wanted(i) = StartTx
  BY <1>1, <1>2 DEF Todo, Sent, Wanted
<1>4. Sent(0) = StartTx /\ pc[0] = "block" /\ held[0] = None
  BY DEF Sent
<1>5. InOrder
  BY <1>1 DEF InOrder
<1>6. HeldInv
  BY <1>1, <1>2, <1>4 DEF HeldInv, Unsent
<1>7. \A i \in Threads : Sent(i) = StartTx
  BY <1>3, <1>4
<1>8. QueueInv
  BY <1>1, <1>3, <1>7 DEF QueueInv
<1>9. ChainInv
  BY <1>3, <1>7 DEF ChainInv
<1>10. FinishedInv
  BY <1>1, QueueAssumption DEF FinishedInv
<1>11. FreshInv
  BY <1>4 DEF FreshInv
<1> QED
  BY <1>5, <1>6, <1>8, <1>9, <1>10, <1>11 DEF OrderInv

(* An action that moves no object and processes nothing.                   *)
Quiet ==
  /\ UNCHANGED <<queue, held, heap, txNum, out, nextTx>>
  /\ \A i \in Steps :
       /\ pc'[i] \in {"func", "failed"} <=> pc[i] \in {"func", "failed"}
       /\ pc'[i] \in {"push", "blocked", "gaveUp"} <=> pc[i] \in {"push", "blocked", "gaveUp"}
  /\ pc'[NumSteps] \in {"push", "blocked"} => pc'[NumSteps] = pc[NumSteps]
  /\ \/ pc'[0] = pc[0]
     \/ pc[0] \in {"block", "load"} /\ pc'[0] \in {"block", "load", "returned", "failed"}
     \/ pc[0] = "parse" /\ pc'[0] = "failed"
     \/ pc[0] \in {"push", "blocked"} /\ pc'[0] \in {"push", "blocked", "gaveUp"}

(* It preserves the order.                                                 *)
LEMMA OrderQuiet ==
  ASSUME TypeInv, OrderInv, Quiet
  PROVE  OrderInv'
<1> USE Indices DEF OrderInv, Unprocessed, Unsent
<1>1. UNCHANGED <<queue, held, heap, txNum, out, nextTx>>
  BY DEF Quiet
<1>2. \A i \in Steps :
       /\ pc'[i] \in {"func", "failed"} <=> pc[i] \in {"func", "failed"}
       /\ pc'[i] \in {"push", "blocked", "gaveUp"} <=> pc[i] \in {"push", "blocked", "gaveUp"}
  BY DEF Quiet
<1>3. \A i \in Steps : Todo(i)' = Todo(i) /\ Sent(i)' = Sent(i) /\ Wanted(i)' = Wanted(i)
  BY <1>1, <1>2 DEF Todo, Sent, Wanted
<1>4. Sent(0)' = Sent(0)
  BY <1>1 DEF Sent
<1>5. \A i \in Threads : Sent(i)' = Sent(i)
  BY <1>3, <1>4
<1>6. InOrder'
  BY <1>1 DEF InOrder
<1>7. HeldInv'
  <2>1. \A i \in Steps : held'[i] # None <=> (Unprocessed(i)' \/ Unsent(i)')
    BY <1>1, <1>2 DEF HeldInv
  <2>2. \A i \in Steps : Unprocessed(i)' => txNum'[held'[i]] = Todo(i)'
    BY <1>1, <1>2, <1>3 DEF HeldInv
  <2>3. \A i \in Steps : Unsent(i)' => txNum'[held'[i]] = Todo(i)' - 1 /\ out'[i] # << >>
    BY <1>1, <1>2, <1>3 DEF HeldInv
  <2>4. /\ pc'[0] \in {"block", "load", "returned"} => held'[0] = None
        /\ pc'[0] \in {"parse", "push", "blocked", "gaveUp"} => held'[0] # None
    BY <1>1 DEF HeldInv, Quiet
  <2>5. Unsent(0)' => txNum'[held'[0]] = nextTx'
    BY <1>1 DEF HeldInv, Quiet
  <2>6. \A i \in Threads : held'[i] # None => held'[i] \in heap'
    BY <1>1 DEF HeldInv
  <2> QED
    BY <2>1, <2>2, <2>3, <2>4, <2>5, <2>6 DEF HeldInv
<1>8. QueueInv'
  BY <1>1, <1>3, <1>5 DEF QueueInv
<1>9. ChainInv'
  BY <1>3, <1>5 DEF ChainInv
<1>10. FinishedInv'
  BY <1>1, <1>3 DEF FinishedInv, Quiet
<1>11. FreshInv'
  BY <1>1 DEF FreshInv, Quiet, HeldInv
<1> QED
  BY <1>6, <1>7, <1>8, <1>9, <1>10, <1>11

(* Thread i passes its object on to thread i + 1, or to the importer.      *)
LEMMA OrderPush ==
  ASSUME TypeInv, OrderInv, NEW i \in Threads, Push(i)
  PROVE  OrderInv'
<1>0. /\ held[i] \in Obj
      /\ \A j \in 1..(NumSteps + 1) : j # i + 1 => queue'[j] = queue[j]
      /\ Len(queue[i + 1]) \in Nat /\ Len(queue[i + 1]) < QueueSize
      /\ Len(queue'[i + 1]) = Len(queue[i + 1]) + 1
      /\ \A k \in 1..Len(queue[i + 1]) : queue'[i + 1][k] = queue[i + 1][k]
      /\ queue'[i + 1][Len(queue[i + 1]) + 1] = held[i]
  BY PushEffect
<1>1. HeldInv /\ QueueInv /\ ChainInv /\ FinishedInv /\ FreshInv /\ InOrder
  BY DEF OrderInv
<1>2. UNCHANGED <<heap, txNum, out>> /\ pc[i] = "push"
  BY DEF Push
<1>3. /\ pc'[i] = IF i = 0 THEN "load" ELSE "consume"
      /\ held'[i] = None
      /\ \A j \in Threads : j # i => pc'[j] = pc[j] /\ held'[j] = held[j]
  BY DEF Push, TypeInv, TypeOK
<1>4. held[i] # None /\ held[i] \in heap /\ txNum[held[i]] = Sent(i)
  BY <1>0, <1>1, <1>2, Indices, ObjAssumption DEF HeldInv, Sent, Unsent
<1>5. Sent(i) \in Nat /\ Sent(i)' = Sent(i) + 1
  <2>1. CASE i = 0
    BY <2>1, <1>1, Boundaries DEF Push, Sent
  <2>2. CASE i # 0
    <3>1. i \in Steps /\ Todo(i)' = Todo(i)
      BY <2>2, <1>2, Indices DEF Todo
    <3> QED
      BY <2>2, <3>1, <1>1, <1>2, <1>3, Boundaries DEF Sent, Unsent
  <2> QED
    BY <2>1, <2>2
<1>6. \A j \in Threads : j # i => Sent(j)' = Sent(j)
  <2>1. i # 0 => nextTx' = nextTx
    BY DEF Push
  <2> QED
    BY <1>2, <1>3, <2>1, Indices DEF Sent, Todo, Unsent
<1>7. \A j \in Steps : Wanted(j)' = Wanted(j) /\ Todo(j)' = Todo(j)
  BY <1>2, <1>3, Indices DEF Wanted, Todo, Unprocessed
<1>8. InOrder'
  BY <1>1, <1>2 DEF InOrder
<1>9. HeldInv'
  <2>0. nextTx' = nextTx \/ pc'[0] = "load"
    BY <1>3 DEF Push
  <2> USE <1>1, <1>2, <1>3, <1>7, Indices DEF HeldInv, Unprocessed, Unsent
  <2>1. \A j \in Steps : held'[j] # None <=> (Unprocessed(j)' \/ Unsent(j)')
    OBVIOUS
  <2>2. \A j \in Steps : Unprocessed(j)' => txNum'[held'[j]] = Todo(j)'
    OBVIOUS
  <2>3. \A j \in Steps : Unsent(j)' => txNum'[held'[j]] = Todo(j)' - 1 /\ out'[j] # << >>
    OBVIOUS
  <2>4. /\ pc'[0] \in {"block", "load", "returned"} => held'[0] = None
        /\ pc'[0] \in {"parse", "push", "blocked", "gaveUp"} => held'[0] # None
    OBVIOUS
  <2>5. Unsent(0)' => txNum'[held'[0]] = nextTx'
    BY <2>0
  <2>6. \A j \in Threads : held'[j] # None => held'[j] \in heap'
    OBVIOUS
  <2> QED
    BY <2>1, <2>2, <2>3, <2>4, <2>5, <2>6
<1>10. QueueInv'
  <2> SUFFICES ASSUME NEW j \in Steps
               PROVE  /\ Len(queue'[j]) = Sent(j - 1)' - Wanted(j)'
                      /\ \A k \in 1..Len(queue'[j]) :
                           /\ queue'[j][k] \in heap'
                           /\ txNum'[queue'[j][k]] = Wanted(j)' + k - 1
    BY DEF QueueInv
  <2>1. Wanted(j) \in Nat /\ j - 1 \in Threads /\ j \in 1..(NumSteps + 1)
    BY <1>1, Boundaries, Indices
  <2>2. CASE j = i + 1
    <3>1. Len(queue[j]) = Sent(i) - Wanted(j)
      BY <1>1, <2>2 DEF QueueInv, Threads
    <3>2. Len(queue'[j]) = Sent(j - 1)' - Wanted(j)'
      BY <1>0, <1>5, <1>7, <2>1, <2>2, <3>1 DEF Threads
    <3>3. ASSUME NEW k \in 1..Len(queue'[j])
          PROVE  queue'[j][k] \in heap' /\ txNum'[queue'[j][k]] = Wanted(j)' + k - 1
      <4>1. CASE k \in 1..Len(queue[j])
        BY <1>0, <1>1, <1>2, <1>7, <2>2, <4>1 DEF QueueInv
      <4>2. CASE k = Len(queue[j]) + 1
        <5>1. queue'[j][k] = held[i]
          BY <1>0, <2>2, <4>2
        <5>2. Len(queue[j]) \in Nat
          BY <1>0, <2>2
        <5>3. Sent(i) = Wanted(j) + k - 1
          BY <1>5, <2>1, <3>1, <4>2, <5>2
        <5> QED
          BY <1>2, <1>4, <1>7, <5>1, <5>3
      <4>3. k \in 1..Len(queue[j]) \/ k = Len(queue[j]) + 1
        BY <1>0, <2>2
      <4> QED
        BY <4>1, <4>2, <4>3
    <3> QED
      BY <3>2, <3>3
  <2>3. CASE j # i + 1
    <3>1. Sent(j - 1)' = Sent(j - 1)
      BY <1>6, <2>1, <2>3 DEF Threads, Steps
    <3> QED
      BY <1>0, <1>1, <1>2, <1>7, <2>1, <2>3, <3>1 DEF QueueInv
  <2> QED
    BY <2>2, <2>3
<1>11. ChainInv'
  <2> SUFFICES ASSUME NEW m \in Threads, NEW j \in Steps, m < j
               PROVE  Wanted(j)' <= Sent(m)'
    BY DEF ChainInv
  <2>1. Wanted(j) <= Sent(m) /\ Wanted(j)' = Wanted(j) /\ Wanted(j) \in Nat
    BY <1>1, <1>7, Boundaries DEF ChainInv
  <2> QED
    BY <2>1, <1>5, <1>6
<1>12. FinishedInv'
  <2>1. CASE i = NumSteps
    <3> DEFINE q == queue[NumSteps + 1]
               n == Len(q) + 1
    <3>1. /\ Len(q) \in Nat /\ Len(queue'[NumSteps + 1]) = n
          /\ \A k \in 1..Len(q) : queue'[NumSteps + 1][k] = q[k]
          /\ queue'[NumSteps + 1][n] = held[i]
      BY <1>0, <2>1
    <3>2. \A k \in 1..n : k \in 1..Len(q) \/ k = n
      BY <3>1
    <3>3. /\ \A k \in 1..Len(q) : q[k] \in heap /\ txNum[q[k]] < Sent(i)
          /\ \A k, l \in 1..Len(q) : k < l => txNum[q[k]] < txNum[q[l]]
      BY <1>1, <2>1 DEF FinishedInv
    <3>4. \A k \in 1..Len(q) : txNum[q[k]] \in Nat
      BY <3>3 DEF TypeInv, TypeOK
    <3>5. pc'[NumSteps] = "consume"
      BY <1>3, <2>1, Indices
    <3>6. \A k \in 1..n : /\ queue'[NumSteps + 1][k] \in heap'
                          /\ txNum'[queue'[NumSteps + 1][k]] < Sent(NumSteps)'
      <4> SUFFICES ASSUME NEW k \in 1..n
                   PROVE  /\ queue'[NumSteps + 1][k] \in heap
                          /\ txNum[queue'[NumSteps + 1][k]] < Sent(i) + 1
        BY <1>2, <1>5, <2>1
      <4>1. CASE k \in 1..Len(q)
        BY <4>1, <1>5, <3>1, <3>3, <3>4
      <4>2. CASE k = n
        BY <4>2, <1>4, <1>5, <3>1
      <4> QED
        BY <4>1, <4>2, <3>2
    <3>7. \A k, l \in 1..n : k < l =>
            txNum'[queue'[NumSteps + 1][k]] < txNum'[queue'[NumSteps + 1][l]]
      <4> SUFFICES ASSUME NEW k \in 1..n, NEW l \in 1..n, k < l
                   PROVE  txNum[queue'[NumSteps + 1][k]] < txNum[queue'[NumSteps + 1][l]]
        BY <1>2
      <4>1. k \in 1..Len(q)
        BY <3>1
      <4>2. CASE l \in 1..Len(q)
        BY <4>1, <4>2, <3>1, <3>3
      <4>3. CASE l = n
        BY <4>1, <4>3, <3>1, <3>3, <1>4
      <4> QED
        BY <4>2, <4>3, <3>2
    <3>8. Len(queue'[NumSteps + 1]) = n
      BY <3>1
    <3> HIDE DEF n, q
    <3> QED
      BY <3>5, <3>6, <3>7, <3>8 DEF FinishedInv
  <2>2. CASE i # NumSteps
    <3>1. NumSteps + 1 # i + 1
      BY <2>2, StepsAssumption DEF Threads
    <3>2. queue'[NumSteps + 1] = queue[NumSteps + 1]
      BY <1>0, <3>1, Indices
    <3>3. Sent(NumSteps)' = Sent(NumSteps) /\ pc'[NumSteps] = pc[NumSteps]
      BY <1>3, <1>6, <2>2, Indices
    <3> QED
      BY <1>1, <1>2, <3>2, <3>3 DEF FinishedInv
  <2> QED
    BY <2>1, <2>2
<1>13. FreshInv'
  <2> SUFFICES ASSUME pc'[0] \in {"parse", "failed"}, held'[0] # None
               PROVE  /\ \A j \in 1..(NumSteps + 1) : \A k \in 1..Len(queue'[j]) : queue'[j][k] # held'[0]
                      /\ \A j \in Steps : held'[j] # held'[0]
    BY DEF FreshInv
  <2>1. i # 0 /\ pc'[0] = pc[0] /\ held'[0] = held[0] /\ i \in Steps
    BY <1>3, Indices
  <2>2. /\ \A j \in 1..(NumSteps + 1) : \A k \in 1..Len(queue[j]) : queue[j][k] # held[0]
        /\ \A j \in Steps : held[j] # held[0]
    BY <1>1, <2>1 DEF FreshInv
  <2>3. \A k \in 1..Len(queue'[i + 1]) : queue'[i + 1][k] # held'[0]
    <3> TAKE k \in 1..Len(queue'[i + 1])
    <3>1. i + 1 \in 1..(NumSteps + 1)
      BY Indices
    <3>2. CASE k \in 1..Len(queue[i + 1])
      BY <1>0, <2>1, <2>2, <3>1, <3>2
    <3>3. CASE k = Len(queue[i + 1]) + 1
      BY <1>0, <2>1, <2>2, <3>3
    <3>4. k \in 1..Len(queue[i + 1]) \/ k = Len(queue[i + 1]) + 1
      BY <1>0
    <3> QED
      BY <3>2, <3>3, <3>4
  <2>4. \A j \in Steps : held'[j] # held'[0]
    BY <1>3, <2>1, <2>2, Indices
  <2>5. \A j \in 1..(NumSteps + 1) : j # i + 1 =>
          \A k \in 1..Len(queue'[j]) : queue'[j][k] # held'[0]
    BY <1>0, <2>1, <2>2
  <2> QED
    BY <2>3, <2>4, <2>5
<1> QED
  BY <1>8, <1>9, <1>10, <1>11, <1>12, <1>13 DEF OrderInv

(* Step i takes the next transaction from its queue.                       *)
LEMMA OrderPop ==
  ASSUME TypeInv, OrderInv, NEW i \in Steps, Pop(i)
  PROVE  OrderInv'
<1>0. /\ Head(queue[i]) \in Obj
      /\ Head(queue[i]) = queue[i][1]
      /\ \A j \in 1..(NumSteps + 1) : j # i => queue'[j] = queue[j]
      /\ Len(queue[i]) \in Nat \ {0}
      /\ Len(queue'[i]) = Len(queue[i]) - 1
      /\ \A k \in 1..Len(queue'[i]) : queue'[i][k] = queue[i][k + 1]
  BY Indices, TailEffect DEF Pop
<1>1. HeldInv /\ QueueInv /\ ChainInv /\ FinishedInv /\ FreshInv /\ InOrder
  BY DEF OrderInv
<1>2. UNCHANGED <<heap, txNum, out, nextTx>> /\ pc[i] = "consume"
  BY DEF Pop, importVars
<1>3. /\ pc'[i] = "func" /\ held'[i] = queue[i][1]
      /\ \A j \in Threads : j # i => pc'[j] = pc[j] /\ held'[j] = held[j]
  BY <1>0, Indices DEF Pop, TypeInv, TypeOK
<1>4. Wanted(i) \in Nat /\ Wanted(i) = Todo(i) /\ Wanted(i)' = Wanted(i) + 1
  BY <1>1, <1>2, <1>3, Boundaries DEF Wanted, Todo, Unprocessed
<1>5. \A j \in Steps : j # i => Wanted(j)' = Wanted(j)
  BY <1>2, <1>3, Indices DEF Wanted, Todo, Unprocessed
<1>6. \A j \in Threads : Sent(j)' = Sent(j)
  BY <1>2, <1>3, Indices DEF Sent, Todo, Unsent
<1>7. \A j \in Steps : Todo(j)' = Todo(j)
  BY <1>2 DEF Todo
<1>8. held'[i] \in heap /\ txNum[held'[i]] = Todo(i) /\ held'[i] \in Obj
  <2>1. 1 \in 1..Len(queue[i])
    BY <1>0
  <2>2. queue[i][1] \in heap /\ txNum[queue[i][1]] = Wanted(i) + 1 - 1
    BY <1>1, <2>1 DEF QueueInv
  <2> QED
    BY <1>0, <1>3, <1>4, <2>2
<1>9. InOrder'
  BY <1>1, <1>2 DEF InOrder
<1>10. HeldInv'
  <2> USE <1>1, <1>2, <1>3, <1>7, <1>8, Indices, ObjAssumption DEF HeldInv, Unprocessed, Unsent
  <2>1. \A j \in Steps : held'[j] # None <=> (Unprocessed(j)' \/ Unsent(j)')
    OBVIOUS
  <2>2. \A j \in Steps : Unprocessed(j)' => txNum'[held'[j]] = Todo(j)'
    <3> TAKE j \in Steps
    <3>1. CASE j = i
      BY <3>1
    <3>2. CASE j # i
      BY <3>2
    <3> QED
      BY <3>1, <3>2
  <2>3. \A j \in Steps : Unsent(j)' => txNum'[held'[j]] = Todo(j)' - 1 /\ out'[j] # << >>
    <3> TAKE j \in Steps
    <3>1. CASE j = i
      BY <3>1
    <3>2. CASE j # i
      BY <3>2
    <3> QED
      BY <3>1, <3>2
  <2>4. /\ pc'[0] \in {"block", "load", "returned"} => held'[0] = None
        /\ pc'[0] \in {"parse", "push", "blocked", "gaveUp"} => held'[0] # None
    OBVIOUS
  <2>5. Unsent(0)' => txNum'[held'[0]] = nextTx'
    OBVIOUS
  <2>6. \A j \in Threads : held'[j] # None => held'[j] \in heap'
    OBVIOUS
  <2> QED
    BY <2>1, <2>2, <2>3, <2>4, <2>5, <2>6
<1>11. QueueInv'
  <2> SUFFICES ASSUME NEW j \in Steps
               PROVE  /\ Len(queue'[j]) = Sent(j - 1)' - Wanted(j)'
                      /\ \A k \in 1..Len(queue'[j]) :
                           /\ queue'[j][k] \in heap'
                           /\ txNum'[queue'[j][k]] = Wanted(j)' + k - 1
    BY DEF QueueInv
  <2>1. Sent(j - 1)' = Sent(j - 1) /\ j \in 1..(NumSteps + 1)
    BY <1>6, Indices
  <2>2. CASE j = i
    <3>1. Len(queue[i]) = Sent(i - 1) - Wanted(i) /\ Sent(i - 1) \in Nat
      BY <1>1, Boundaries, Indices DEF QueueInv
    <3>2. Len(queue'[j]) = Sent(j - 1)' - Wanted(j)'
      BY <1>0, <1>4, <2>1, <2>2, <3>1
    <3>3. ASSUME NEW k \in 1..Len(queue'[i])
          PROVE  queue'[i][k] \in heap /\ txNum[queue'[i][k]] = Wanted(i) + 1 + k - 1
      <4>1. k \in Nat /\ k + 1 \in 1..Len(queue[i])
        BY <1>0, <3>3
      <4>2. queue[i][k + 1] \in heap /\ txNum[queue[i][k + 1]] = Wanted(i) + (k + 1) - 1
        BY <1>1, <4>1 DEF QueueInv
      <4> QED
        BY <1>0, <1>4, <4>1, <4>2
    <3> QED
      BY <1>2, <1>4, <2>2, <3>2, <3>3
  <2>3. CASE j # i
    BY <1>0, <1>1, <1>2, <1>5, <2>1, <2>3 DEF QueueInv
  <2> QED
    BY <2>2, <2>3
<1>12. ChainInv'
  <2> SUFFICES ASSUME NEW m \in Threads, NEW j \in Steps, m < j
               PROVE  Wanted(j)' <= Sent(m)
    BY <1>6 DEF ChainInv
  <2>1. CASE j # i
    BY <1>1, <1>5, <2>1 DEF ChainInv
  <2>2. CASE j = i
    <3>1. /\ Len(queue[i]) = Sent(i - 1) - Wanted(i)
          /\ Sent(i - 1) \in Nat /\ Sent(m) \in Nat
      BY <1>1, Boundaries, Indices DEF QueueInv
    <3>2. Wanted(i) + 1 <= Sent(i - 1)
      BY <1>0, <1>4, <3>1
    <3>3. CASE m = i - 1
      BY <1>4, <2>2, <3>2, <3>3
    <3>4. CASE m # i - 1
      <4>1. i - 1 \in Steps /\ m < i - 1
        BY <2>2, <3>4, StepsAssumption DEF Steps, Threads
      <4>2. Wanted(i - 1) <= Sent(m) /\ Sent(i - 1) <= Wanted(i - 1) /\ Wanted(i - 1) \in Nat
        BY <1>1, <4>1, Boundaries DEF ChainInv
      <4> QED
        BY <1>4, <2>2, <3>1, <3>2, <4>2
    <3> QED
      BY <3>3, <3>4
  <2> QED
    BY <2>1, <2>2
<1>13. FinishedInv'
  <2>1. queue'[NumSteps + 1] = queue[NumSteps + 1] /\ Sent(NumSteps)' = Sent(NumSteps)
    BY <1>0, <1>6, Indices, StepsAssumption DEF Steps
  <2>2. pc'[NumSteps] = pc[NumSteps] \/ pc'[NumSteps] = "func"
    BY <1>3, Indices
  <2> QED
    BY <1>1, <1>2, <2>1, <2>2 DEF FinishedInv
<1>14. FreshInv'
  <2> SUFFICES ASSUME pc'[0] \in {"parse", "failed"}, held'[0] # None
               PROVE  /\ \A j \in 1..(NumSteps + 1) : \A k \in 1..Len(queue'[j]) : queue'[j][k] # held'[0]
                      /\ \A j \in Steps : held'[j] # held'[0]
    BY DEF FreshInv
  <2>1. pc'[0] = pc[0] /\ held'[0] = held[0]
    BY <1>3, Indices
  <2>2. /\ \A j \in 1..(NumSteps + 1) : \A k \in 1..Len(queue[j]) : queue[j][k] # held[0]
        /\ \A j \in Steps : held[j] # held[0]
    BY <1>1, <2>1 DEF FreshInv
  <2>3. \A k \in 1..Len(queue'[i]) : queue'[i][k] # held'[0]
    <3> TAKE k \in 1..Len(queue'[i])
    <3>1. k + 1 \in 1..Len(queue[i]) /\ i \in 1..(NumSteps + 1)
      BY <1>0, Indices
    <3> QED
      BY <1>0, <2>1, <2>2, <3>1
  <2>4. held'[i] # held'[0]
    <3>1. 1 \in 1..Len(queue[i]) /\ i \in 1..(NumSteps + 1)
      BY <1>0, Indices
    <3> QED
      BY <1>3, <2>1, <2>2, <3>1
  <2>5. \A j \in Steps : held'[j] # held'[0]
    BY <1>3, <2>1, <2>2, <2>4, Indices
  <2>6. \A j \in 1..(NumSteps + 1) : j # i =>
          \A k \in 1..Len(queue'[j]) : queue'[j][k] # held'[0]
    BY <1>0, <2>1, <2>2
  <2> QED
    BY <2>3, <2>5, <2>6
<1> QED
  BY <1>9, <1>10, <1>11, <1>12, <1>13, <1>14 DEF OrderInv

(* Step i processes the transaction in hand and is about to pass it on.    *)
LEMMA OrderProcess ==
  ASSUME TypeInv, OrderInv, NEW i \in Steps, pc[i] = "func", Record(i),
         pc' = [pc EXCEPT ![i] = "push"],
         i = NumSteps => FinishedQueueHasRoom,
         UNCHANGED <<queue, held, heap, txNum, nextTx>>
  PROVE  OrderInv'
<1>0. /\ \A j \in Steps : j # i => out'[j] = out[j]
      /\ Len(out[i]) \in Nat
      /\ out'[i] # << >>
      /\ Len(out'[i]) = Len(out[i]) + 1
      /\ \A k \in 1..Len(out[i]) : out'[i][k] = out[i][k]
      /\ out'[i][Len(out[i]) + 1] = txNum[held[i]]
  BY RecordEffect
<1>1. HeldInv /\ QueueInv /\ ChainInv /\ FinishedInv /\ FreshInv /\ InOrder
  BY DEF OrderInv
<1>2. /\ pc'[i] = "push"
      /\ \A j \in Threads : j # i => pc'[j] = pc[j]
  BY Indices DEF TypeInv, TypeOK
<1>3. txNum[held[i]] = Todo(i) /\ Todo(i) \in Nat
  BY <1>1, Boundaries DEF HeldInv, Unprocessed
<1>4. Todo(i)' = Todo(i) + 1
  BY <1>0, Indices DEF Todo
<1>5. \A j \in Steps : j # i => Todo(j)' = Todo(j)
  BY <1>0 DEF Todo
<1>6. \A j \in Threads : Sent(j)' = Sent(j)
  <2>1. Sent(i)' = Sent(i)
    BY <1>2, <1>3, <1>4, Indices DEF Sent, Unsent
  <2>2. \A j \in Threads : j # i => Sent(j)' = Sent(j)
    BY <1>2, <1>5, Indices DEF Sent, Unsent
  <2> QED
    BY <2>1, <2>2
<1>7. \A j \in Steps : Wanted(j)' = Wanted(j)
  <2>1. Wanted(i)' = Wanted(i)
    BY <1>2, <1>4 DEF Wanted, Unprocessed
  <2>2. \A j \in Steps : j # i => Wanted(j)' = Wanted(j)
    BY <1>2, <1>5, Indices DEF Wanted, Unprocessed
  <2> QED
    BY <2>1, <2>2
<1>8. InOrder'
  <2> SUFFICES ASSUME NEW j \in Steps, NEW k \in 1..Len(out'[j])
               PROVE  out'[j][k] = StartTx + k - 1
    BY DEF InOrder
  <2>1. CASE j # i
    BY <1>0, <1>1, <2>1 DEF InOrder
  <2>2. CASE j = i /\ k \in 1..Len(out[i])
    BY <1>0, <1>1, <2>2 DEF InOrder
  <2>3. CASE j = i /\ k = Len(out[i]) + 1
    BY <1>0, <1>3, <2>3, Indices DEF Todo
  <2>4. j = i => k \in 1..Len(out[i]) \/ k = Len(out[i]) + 1
    BY <1>0
  <2> QED
    BY <2>1, <2>2, <2>3, <2>4
<1>9. HeldInv'
  <2> USE <1>1, <1>2, Indices DEF HeldInv, Unprocessed, Unsent
  <2>1. \A j \in Steps : held'[j] # None <=> (Unprocessed(j)' \/ Unsent(j)')
    OBVIOUS
  <2>2. \A j \in Steps : Unprocessed(j)' => txNum'[held'[j]] = Todo(j)'
    BY <1>5
  <2>3. \A j \in Steps : Unsent(j)' => txNum'[held'[j]] = Todo(j)' - 1 /\ out'[j] # << >>
    <3> TAKE j \in Steps
    <3>1. CASE j = i
      BY <3>1, <1>0, <1>3, <1>4
    <3>2. CASE j # i
      BY <3>2, <1>0, <1>5
    <3> QED
      BY <3>1, <3>2
  <2>4. /\ pc'[0] \in {"block", "load", "returned"} => held'[0] = None
        /\ pc'[0] \in {"parse", "push", "blocked", "gaveUp"} => held'[0] # None
    OBVIOUS
  <2>5. Unsent(0)' => txNum'[held'[0]] = nextTx'
    OBVIOUS
  <2>6. \A j \in Threads : held'[j] # None => held'[j] \in heap'
    OBVIOUS
  <2> QED
    BY <2>1, <2>2, <2>3, <2>4, <2>5, <2>6
<1>10. QueueInv'
  BY <1>1, <1>6, <1>7, Indices DEF QueueInv
<1>11. ChainInv'
  BY <1>1, <1>6, <1>7 DEF ChainInv
<1>12. FinishedInv'
  <2>1. Len(queue[NumSteps + 1]) <= QueueSize /\ Len(queue[NumSteps + 1]) \in Nat
    BY Indices, LenProperties DEF TypeInv, TypeOK
  <2>2. i = NumSteps => Len(queue[NumSteps + 1]) < QueueSize
    BY <2>1, QueueAssumption DEF FinishedQueueHasRoom, Full
  <2>3. /\ pc'[NumSteps] = "push" => Len(queue[NumSteps + 1]) < QueueSize
        /\ pc'[NumSteps] # "blocked"
    BY <1>1, <1>2, <2>2, Indices DEF FinishedInv
  <2>4. Sent(NumSteps)' = Sent(NumSteps)
    BY <1>6, Indices
  <2> QED
    BY <1>1, <2>3, <2>4 DEF FinishedInv
<1>13. FreshInv'
  BY <1>1, <1>2, Indices DEF FreshInv
<1> QED
  BY <1>8, <1>9, <1>10, <1>11, <1>12, <1>13 DEF OrderInv

(* The last step processes the transaction in hand and deletes it.         *)
LEMMA OrderDelete ==
  ASSUME TypeInv, OrderInv, ProcessAndDelete
  PROVE  OrderInv'
<1> DEFINE i == NumSteps
           o == held[NumSteps]
<1>0. /\ o \in Obj
      /\ \A j \in Steps : j # i => out'[j] = out[j]
      /\ Len(out[i]) \in Nat
      /\ Len(out'[i]) = Len(out[i]) + 1
      /\ \A k \in 1..Len(out[i]) : out'[i][k] = out[i][k]
      /\ out'[i][Len(out[i]) + 1] = txNum[o]
  BY Indices, RecordEffect DEF ProcessAndDelete
<1>1. HeldInv /\ QueueInv /\ ChainInv /\ FinishedInv /\ FreshInv /\ InOrder
  BY DEF OrderInv
<1>2. /\ pc[i] = "func" /\ heap' = heap \ {o} /\ UNCHANGED <<queue, txNum, nextTx>>
      /\ i \in Steps /\ i \in Threads /\ i # 0
  BY Indices, StepsAssumption DEF ProcessAndDelete, importVars
<1>3. /\ pc'[i] = "consume" /\ held'[i] = None
      /\ \A j \in Threads : j # i => pc'[j] = pc[j] /\ held'[j] = held[j]
  BY Indices DEF TypeInv, TypeOK, ProcessAndDelete
<1>4. txNum[o] = Todo(i) /\ Todo(i) \in Nat /\ o # None /\ Wanted(i) = Todo(i) + 1
  BY <1>0, <1>1, <1>2, Boundaries, ObjAssumption DEF HeldInv, Unprocessed
<1>5. /\ \A j \in Steps : \A k \in 1..Len(queue[j]) : queue[j][k] # o
      /\ \A j \in Steps : j # i /\ held[j] # None => held[j] # o
      /\ Unsent(0) => held[0] # o
  BY <1>0, <1>4, PoppedApart
<1>6. \A j \in Threads : j # i /\ held[j] # None => held[j] # o
  <2>1. held[0] # None => held[0] # o
    <3>1. pc[0] \in {"parse", "failed"} /\ held[0] # None => held[0] # o
      BY <1>1, <1>2 DEF FreshInv
    <3>2. pc[0] \in ImportPc
      BY DEF TypeInv, TypeOK
    <3> QED
      BY <1>1, <1>5, <3>1, <3>2 DEF HeldInv, Unsent, ImportPc, ExitPc, ThrewPc
  <2> QED
    BY <1>5, <2>1, Indices
<1>7. Sent(i) = Todo(i) /\ Sent(i)' = Sent(i) + 1 /\ Todo(i)' = Todo(i) + 1 /\ Wanted(i)' = Wanted(i)
  <2>1. Todo(i)' = Todo(i) + 1
    BY <1>0, Indices DEF Todo
  <2> QED
    BY <1>2, <1>3, <1>4, <2>1 DEF Sent, Wanted, Unsent, Unprocessed
<1>8. \A j \in Steps : j # i => Todo(j)' = Todo(j)
  BY <1>0 DEF Todo
<1>9. \A j \in Threads : j # i => Sent(j)' = Sent(j)
  BY <1>2, <1>3, <1>8, Indices DEF Sent, Unsent
<1>10. \A j \in Steps : Wanted(j)' = Wanted(j)
  <2>1. \A j \in Steps : j # i => Wanted(j)' = Wanted(j)
    BY <1>3, <1>8, Indices DEF Wanted, Unprocessed
  <2> QED
    BY <1>7, <2>1
<1>11. InOrder'
  <2> SUFFICES ASSUME NEW j \in Steps, NEW k \in 1..Len(out'[j])
               PROVE  out'[j][k] = StartTx + k - 1
    BY DEF InOrder
  <2>1. CASE j # i
    BY <1>0, <1>1, <2>1 DEF InOrder
  <2>2. CASE j = i /\ k \in 1..Len(out[i])
    BY <1>0, <1>1, <2>2 DEF InOrder
  <2>3. CASE j = i /\ k = Len(out[i]) + 1
    BY <1>0, <1>4, <2>3, Indices DEF Todo
  <2>4. j = i => k \in 1..Len(out[i]) \/ k = Len(out[i]) + 1
    BY <1>0
  <2> QED
    BY <2>1, <2>2, <2>3, <2>4
<1>12. HeldInv'
  <2> USE <1>1, <1>2, <1>3, Indices DEF HeldInv, Unprocessed, Unsent
  <2>1. \A j \in Steps : held'[j] # None <=> (Unprocessed(j)' \/ Unsent(j)')
    OBVIOUS
  <2>2. \A j \in Steps : Unprocessed(j)' => txNum'[held'[j]] = Todo(j)'
    <3> TAKE j \in Steps
    <3>1. CASE j = i
      BY <3>1
    <3>2. CASE j # i
      BY <1>8, <3>2
    <3> QED
      BY <3>1, <3>2
  <2>3. \A j \in Steps : Unsent(j)' => txNum'[held'[j]] = Todo(j)' - 1 /\ out'[j] # << >>
    <3> TAKE j \in Steps
    <3>1. CASE j = i
      BY <3>1
    <3>2. CASE j # i
      <4>1. out'[j] = out[j] /\ Todo(j)' = Todo(j)
        BY <1>0, <1>8, <3>2
      <4> QED
        BY <3>2, <4>1
    <3> QED
      BY <3>1, <3>2
  <2>4. /\ pc'[0] \in {"block", "load", "returned"} => held'[0] = None
        /\ pc'[0] \in {"parse", "push", "blocked", "gaveUp"} => held'[0] # None
    OBVIOUS
  <2>5. Unsent(0)' => txNum'[held'[0]] = nextTx'
    OBVIOUS
  <2>6. \A j \in Threads : held'[j] # None => held'[j] \in heap'
    BY <1>6
  <2> QED
    BY <2>1, <2>2, <2>3, <2>4, <2>5, <2>6
<1>13. QueueInv'
  <2> SUFFICES ASSUME NEW j \in Steps
               PROVE  /\ Len(queue[j]) = Sent(j - 1)' - Wanted(j)'
                      /\ \A k \in 1..Len(queue[j]) :
                           /\ queue[j][k] \in heap'
                           /\ txNum[queue[j][k]] = Wanted(j)' + k - 1
    BY <1>2 DEF QueueInv
  <2>1. j - 1 \in Threads /\ j - 1 # i
    BY Indices, StepsAssumption DEF Steps
  <2>2. Sent(j - 1)' = Sent(j - 1)
    BY <1>9, <2>1
  <2> QED
    BY <1>1, <1>2, <1>5, <1>10, <2>2 DEF QueueInv
<1>14. ChainInv'
  <2> SUFFICES ASSUME NEW m \in Threads, NEW j \in Steps, m < j
               PROVE  Wanted(j)' <= Sent(m)'
    BY DEF ChainInv
  <2>1. m # i
    BY StepsAssumption DEF Steps
  <2> QED
    BY <1>1, <1>9, <1>10, <2>1 DEF ChainInv
<1>15. FinishedInv'
  <2> DEFINE q == queue[NumSteps + 1]
  <2>1. /\ \A k \in 1..Len(q) : q[k] \in heap /\ txNum[q[k]] < Sent(i)
        /\ \A k, l \in 1..Len(q) : k < l => txNum[q[k]] < txNum[q[l]]
    BY <1>1 DEF FinishedInv
  <2>2. \A k \in 1..Len(q) : txNum[q[k]] \in Nat
    BY <2>1 DEF TypeInv, TypeOK
  <2>3. \A k \in 1..Len(q) : q[k] \in heap' /\ txNum[q[k]] < Sent(i)'
    <3> TAKE k \in 1..Len(q)
    <3>1. txNum[q[k]] < Sent(i) /\ q[k] \in heap /\ txNum[q[k]] \in Nat
      BY <2>1, <2>2
    <3>2. q[k] # o
      BY <1>4, <1>7, <3>1
    <3> QED
      BY <1>2, <1>4, <1>7, <3>1, <3>2
  <2> HIDE DEF q
  <2>4. q' = q
    BY <1>2 DEF q
  <2> QED
    BY <1>2, <1>3, <2>1, <2>3, <2>4 DEF FinishedInv, q
<1>16. FreshInv'
  <2>1. pc'[0] = pc[0] /\ held'[0] = held[0]
    BY <1>2, <1>3, Indices
  <2> QED
    BY <1>1, <1>2, <1>3, <2>1, Indices DEF FreshInv
<1> QED
  BY <1>11, <1>12, <1>13, <1>14, <1>15, <1>16 DEF OrderInv

(* The importer takes an object that a step has finished with.             *)
LEMMA OrderRecycle ==
  ASSUME TypeInv, OrderInv, Recycle
  PROVE  OrderInv'
<1> DEFINE q == queue[NumSteps + 1]
           r == queue'[NumSteps + 1]
           o == q[1]
<1>0. /\ o \in Obj
      /\ \A j \in 1..(NumSteps + 1) : j # NumSteps + 1 => queue'[j] = queue[j]
      /\ Len(q) \in Nat \ {0}
      /\ Len(q) <= QueueSize
      /\ Len(r) = Len(q) - 1
      /\ \A k \in 1..Len(r) : r[k] = q[k + 1]
      /\ Head(q) = o
  <2>1. /\ NumSteps + 1 \in 1..(NumSteps + 1) /\ queue[NumSteps + 1] # << >>
        /\ queue' = [queue EXCEPT ![NumSteps + 1] = Tail(@)]
    BY Indices DEF Recycle
  <2> QED
    BY <2>1, TailEffect
<1>1. HeldInv /\ QueueInv /\ ChainInv /\ FinishedInv /\ FreshInv /\ InOrder
  BY DEF OrderInv
<1>2. UNCHANGED <<heap, txNum, out, nextTx>> /\ pc[0] = "load"
  BY DEF Recycle, importVars
<1>3. /\ pc'[0] = "parse" /\ held'[0] = o
      /\ \A j \in Threads : j # 0 => pc'[j] = pc[j] /\ held'[j] = held[j]
  BY <1>0, Indices DEF Recycle, TypeInv, TypeOK
<1>4. \A j \in Steps : queue'[j] = queue[j] /\ pc'[j] = pc[j] /\ held'[j] = held[j] /\ out'[j] = out[j]
  <2>1. \A j \in Steps : j # NumSteps + 1
    BY StepsAssumption DEF Steps
  <2> QED
    BY <1>0, <1>2, <1>3, <2>1, Indices
<1>5. \A j \in Steps : Todo(j)' = Todo(j) /\ Wanted(j)' = Wanted(j) /\ Sent(j)' = Sent(j)
  BY <1>4, Indices DEF Todo, Wanted, Sent, Unsent, Unprocessed
<1>6. \A j \in Threads : Sent(j)' = Sent(j)
  BY <1>2, <1>5, Indices DEF Sent
<1>7. o \in heap /\ txNum[o] < Sent(NumSteps) /\ o # None
  <2>1. 1 \in 1..Len(q)
    BY <1>0
  <2> QED
    BY <1>0, <1>1, <2>1, ObjAssumption DEF FinishedInv
<1>8. /\ \A j \in Steps : \A k \in 1..Len(queue[j]) : queue[j][k] # o
      /\ \A j \in Steps : held[j] # None => held[j] # o
  BY <1>0, <1>7, FinishedApart
<1>9. /\ \A k \in 1..Len(r) : k + 1 \in 1..Len(q) /\ 1 \in 1..Len(q) /\ k \in Nat /\ 1 < k + 1
      /\ \A k \in 1..Len(q) : txNum[q[k]] \in Nat
  <2>1. \A k \in 1..Len(r) : k + 1 \in 1..Len(q) /\ 1 \in 1..Len(q) /\ k \in Nat /\ 1 < k + 1
    BY <1>0
  <2>2. \A k \in 1..Len(q) : txNum[q[k]] \in Nat
    BY <1>1 DEF FinishedInv, TypeInv, TypeOK
  <2> QED
    BY <2>1, <2>2
<1>10. InOrder'
  BY <1>1, <1>2 DEF InOrder
<1>11. HeldInv'
  <2>1. ASSUME NEW j \in Steps PROVE held'[j] # None <=> (Unprocessed(j)' \/ Unsent(j)')
    <3>1. held[j] # None <=> (Unprocessed(j) \/ Unsent(j))
      BY <1>1 DEF HeldInv
    <3>2. held'[j] = held[j] /\ pc'[j] = pc[j]
      BY <1>4
    <3> QED
      BY <3>1, <3>2 DEF Unprocessed, Unsent
  <2> USE <1>1, <1>2, <1>3, <1>4, <1>5, <1>7, Indices DEF HeldInv, Unprocessed, Unsent
  <2>2. \A j \in Steps : Unprocessed(j)' => txNum'[held'[j]] = Todo(j)'
    OBVIOUS
  <2>3. \A j \in Steps : Unsent(j)' => txNum'[held'[j]] = Todo(j)' - 1 /\ out'[j] # << >>
    OBVIOUS
  <2>4. /\ pc'[0] \in {"block", "load", "returned"} => held'[0] = None
        /\ pc'[0] \in {"parse", "push", "blocked", "gaveUp"} => held'[0] # None
    OBVIOUS
  <2>5. Unsent(0)' => txNum'[held'[0]] = nextTx'
    OBVIOUS
  <2>6. \A j \in Threads : held'[j] # None => held'[j] \in heap'
    OBVIOUS
  <2> QED
    BY <2>1, <2>2, <2>3, <2>4, <2>5, <2>6
<1>12. QueueInv'
  <2>1. \A j \in Steps : \A k \in 1..Len(queue[j]) :
          queue[j][k] \in heap' /\ txNum'[queue[j][k]] = txNum[queue[j][k]]
    BY <1>1, <1>2 DEF QueueInv
  <2> QED
    BY <1>1, <1>4, <1>5, <1>6, <2>1, QueueFrame
<1>13. ChainInv'
  BY <1>1, <1>5, <1>6 DEF ChainInv
<1>14. FinishedInv'
  <2>1. /\ \A k \in 1..Len(q) : q[k] \in heap /\ txNum[q[k]] < Sent(NumSteps)
        /\ \A k, l \in 1..Len(q) : k < l => txNum[q[k]] < txNum[q[l]]
        /\ pc[NumSteps] # "blocked"
    BY <1>1 DEF FinishedInv
  <2>2. \A k \in 1..Len(r) : r[k] \in heap' /\ txNum'[r[k]] < Sent(NumSteps)'
    BY <1>0, <1>2, <1>5, <1>9, <2>1, Indices
  <2>3. \A k, l \in 1..Len(r) : k < l => txNum'[r[k]] < txNum'[r[l]]
    <3> SUFFICES ASSUME NEW k \in 1..Len(r), NEW l \in 1..Len(r), k < l
                 PROVE  txNum[r[k]] < txNum[r[l]]
      BY <1>2
    <3>1. k + 1 \in 1..Len(q) /\ l + 1 \in 1..Len(q) /\ k + 1 < l + 1
      BY <1>9
    <3>2. r[k] = q[k + 1] /\ r[l] = q[l + 1]
      BY <1>0
    <3> HIDE DEF q, r
    <3> QED
      BY <2>1, <3>1, <3>2
  <2>4. Len(r) < QueueSize /\ pc'[NumSteps] = pc[NumSteps]
    <3>1. Len(r) < QueueSize
      <4> HIDE DEF q, r
      <4> QED
        BY <1>0, QueueAssumption
    <3> QED
      BY <3>1, <1>4, Indices
  <2> QED
    BY <2>1, <2>2, <2>3, <2>4 DEF FinishedInv
<1>15. FreshInv'
  <2>1. \A k \in 1..Len(r) : r[k] # o
    <3> TAKE k \in 1..Len(r)
    <3>1. txNum[q[1]] < txNum[q[k + 1]] /\ txNum[q[1]] \in Nat
      <4>1. k + 1 \in 1..Len(q) /\ 1 \in 1..Len(q) /\ 1 < k + 1 /\ txNum[q[1]] \in Nat
        BY <1>9
      <4>2. \A m, l \in 1..Len(q) : m < l => txNum[q[m]] < txNum[q[l]]
        BY <1>1 DEF FinishedInv
      <4> HIDE DEF q, r
      <4> QED
        BY <4>1, <4>2
    <3>2. r[k] = q[k + 1]
      BY <1>0
    <3> HIDE DEF q, r
    <3> QED
      BY <3>1, <3>2
  <2>2. \A j \in 1..(NumSteps + 1) : j \in Steps \/ j = NumSteps + 1
    BY StepsAssumption DEF Steps
  <2>3. \A j \in 1..(NumSteps + 1) : \A k \in 1..Len(queue'[j]) : queue'[j][k] # o
    BY <1>4, <1>8, <2>1, <2>2
  <2>4. \A j \in Steps : held'[j] # o
    BY <1>4, <1>7, <1>8
  <2> HIDE DEF o
  <2> QED
    BY <1>3, <2>3, <2>4 DEF FreshInv
<1> QED
  BY <1>10, <1>11, <1>12, <1>13, <1>14, <1>15 DEF OrderInv

(* The importer allocates an object.                                       *)
LEMMA OrderAllocate ==
  ASSUME TypeInv, OrderInv, Allocate
  PROVE  OrderInv'
<1>1. HeldInv /\ QueueInv /\ ChainInv /\ FinishedInv /\ FreshInv /\ InOrder
  BY DEF OrderInv
<1>2. UNCHANGED <<queue, txNum, out, nextTx>> /\ pc[0] = "load"
  BY DEF Allocate, importVars
<1>3. PICK o \in Obj \ heap : held' = [held EXCEPT ![0] = o] /\ heap' = heap \cup {o}
  BY DEF Allocate
<1>4. /\ pc'[0] = "parse" /\ held'[0] = o
      /\ \A j \in Threads : j # 0 => pc'[j] = pc[j] /\ held'[j] = held[j]
  BY <1>3, Indices DEF Allocate, TypeInv, TypeOK
<1>5. \A j \in Steps : pc'[j] = pc[j] /\ held'[j] = held[j]
  BY <1>4, Indices
<1>6. \A j \in Steps : Todo(j)' = Todo(j) /\ Wanted(j)' = Wanted(j) /\ Sent(j)' = Sent(j)
  BY <1>2, <1>5, Indices DEF Todo, Wanted, Sent, Unsent, Unprocessed
<1>7. \A j \in Threads : Sent(j)' = Sent(j)
  BY <1>2, <1>6, Indices DEF Sent
<1>8. o # None /\ heap \subseteq heap' /\ o \in heap'
  BY <1>3, ObjAssumption
<1>9. InOrder'
  BY <1>1, <1>2 DEF InOrder
<1>10. HeldInv'
  <2> USE <1>1, <1>2, <1>4, <1>5, <1>6, <1>8, Indices DEF HeldInv, Unprocessed, Unsent
  <2>1. \A j \in Steps : held'[j] # None <=> (Unprocessed(j)' \/ Unsent(j)')
    OBVIOUS
  <2>2. \A j \in Steps : Unprocessed(j)' => txNum'[held'[j]] = Todo(j)'
    OBVIOUS
  <2>3. \A j \in Steps : Unsent(j)' => txNum'[held'[j]] = Todo(j)' - 1 /\ out'[j] # << >>
    OBVIOUS
  <2>4. /\ pc'[0] \in {"block", "load", "returned"} => held'[0] = None
        /\ pc'[0] \in {"parse", "push", "blocked", "gaveUp"} => held'[0] # None
    OBVIOUS
  <2>5. Unsent(0)' => txNum'[held'[0]] = nextTx'
    OBVIOUS
  <2>6. \A j \in Threads : held'[j] # None => held'[j] \in heap'
    OBVIOUS
  <2> QED
    BY <2>1, <2>2, <2>3, <2>4, <2>5, <2>6
<1>11. QueueInv'
  BY <1>1, <1>2, <1>6, <1>7, <1>8, Indices DEF QueueInv
<1>12. ChainInv'
  BY <1>1, <1>6, <1>7 DEF ChainInv
<1>13. FinishedInv'
  BY <1>1, <1>2, <1>5, <1>6, <1>8, Indices DEF FinishedInv
<1>14. FreshInv'
  <2>1. \A j \in 1..(NumSteps + 1) : j \in Steps \/ j = NumSteps + 1
    BY StepsAssumption DEF Steps
  <2>2. \A j \in 1..(NumSteps + 1) : \A k \in 1..Len(queue[j]) : queue[j][k] \in heap
    BY <1>1, <2>1 DEF QueueInv, FinishedInv
  <2>3. \A j \in Steps : held[j] # o
    BY <1>1, <1>3, <1>8, Indices DEF HeldInv
  <2> QED
    BY <1>2, <1>3, <1>4, <1>5, <2>2, <2>3 DEF FreshInv
<1> QED
  BY <1>9, <1>10, <1>11, <1>12, <1>13, <1>14 DEF OrderInv

(* The importer overwrites an object that nobody else has.                 *)
LEMMA OrderParse ==
  ASSUME TypeInv, OrderInv, Parse
  PROVE  OrderInv'
<1> DEFINE o == held[0]
<1>1. HeldInv /\ QueueInv /\ ChainInv /\ FinishedInv /\ FreshInv /\ InOrder
  BY DEF OrderInv
<1>2. UNCHANGED <<queue, held, heap, out, nextTx>> /\ pc[0] = "parse"
  BY DEF Parse, importVars
<1>3. /\ pc'[0] = "push"
      /\ \A j \in Threads : j # 0 => pc'[j] = pc[j]
  BY Indices DEF Parse, TypeInv, TypeOK
<1>4. o \in Obj /\ o # None
  BY <1>2, Indices, ObjAssumption DEF TypeInv, InHand
<1>5. txNum'[o] = nextTx /\ \A p \in Obj : p # o => txNum'[p] = txNum[p]
  BY <1>4 DEF Parse, TypeInv, TypeOK
<1>6. /\ \A j \in 1..(NumSteps + 1) : \A k \in 1..Len(queue[j]) :
           queue[j][k] # o /\ queue[j][k] \in Obj
      /\ \A j \in Steps : held[j] # o /\ (held[j] # None => held[j] \in Obj)
  <2>1. \A j \in 1..(NumSteps + 1) : \A k \in 1..Len(queue[j]) : queue[j][k] \in Obj
    BY ElementOfSeq DEF TypeInv, TypeOK
  <2>2. \A j \in Steps : held[j] # None => held[j] \in Obj
    BY Indices DEF TypeInv, TypeOK
  <2> QED
    BY <1>1, <1>2, <1>4, <2>1, <2>2 DEF FreshInv
<1>7. \A j \in 1..(NumSteps + 1) : \A k \in 1..Len(queue[j]) :
        txNum'[queue[j][k]] = txNum[queue[j][k]]
  BY <1>5, <1>6
<1>8. \A j \in Steps : held[j] # None => txNum'[held[j]] = txNum[held[j]]
  BY <1>5, <1>6
<1> HIDE DEF o
<1>9. \A j \in Steps : pc'[j] = pc[j]
  BY <1>3, Indices
<1>10. \A j \in Steps : Todo(j)' = Todo(j) /\ Wanted(j)' = Wanted(j) /\ Sent(j)' = Sent(j)
  BY <1>2, <1>9, Indices DEF Todo, Wanted, Sent, Unsent, Unprocessed
<1>11. \A j \in Threads : Sent(j)' = Sent(j)
  BY <1>2, <1>10, Indices DEF Sent
<1>12. InOrder'
  BY <1>1, <1>2 DEF InOrder
<1>13. HeldInv'
  <2> USE <1>1, <1>2, <1>3, <1>8, <1>9, <1>10, Indices DEF HeldInv, Unprocessed, Unsent
  <2>1. \A j \in Steps : held'[j] # None <=> (Unprocessed(j)' \/ Unsent(j)')
    OBVIOUS
  <2>2. \A j \in Steps : Unprocessed(j)' => txNum'[held'[j]] = Todo(j)'
    OBVIOUS
  <2>3. \A j \in Steps : Unsent(j)' => txNum'[held'[j]] = Todo(j)' - 1 /\ out'[j] # << >>
    OBVIOUS
  <2>4. /\ pc'[0] \in {"block", "load", "returned"} => held'[0] = None
        /\ pc'[0] \in {"parse", "push", "blocked", "gaveUp"} => held'[0] # None
    BY <1>4 DEF o
  <2>5. Unsent(0)' => txNum'[held'[0]] = nextTx'
    BY <1>5 DEF o
  <2>6. \A j \in Threads : held'[j] # None => held'[j] \in heap'
    OBVIOUS
  <2> QED
    BY <2>1, <2>2, <2>3, <2>4, <2>5, <2>6
<1>14. QueueInv'
  <2>1. \A j \in Steps : \A k \in 1..Len(queue[j]) :
          queue[j][k] \in heap' /\ txNum'[queue[j][k]] = txNum[queue[j][k]]
    BY <1>1, <1>2, <1>7, Indices DEF QueueInv
  <2> QED
    BY <1>1, <1>2, <1>10, <1>11, <2>1, QueueFrame
<1>15. ChainInv'
  BY <1>1, <1>10, <1>11 DEF ChainInv
<1>16. FinishedInv'
  <2> DEFINE q == queue[NumSteps + 1]
  <2>1. /\ \A k \in 1..Len(q) : txNum'[q[k]] = txNum[q[k]]
        /\ pc'[NumSteps] = pc[NumSteps] /\ Sent(NumSteps)' = Sent(NumSteps)
        /\ queue'[NumSteps + 1] = q /\ heap' = heap
    BY <1>2, <1>7, <1>9, <1>10, Indices
  <2>2. /\ \A k \in 1..Len(q) : q[k] \in heap /\ txNum[q[k]] < Sent(NumSteps)
        /\ \A k, l \in 1..Len(q) : k < l => txNum[q[k]] < txNum[q[l]]
        /\ pc[NumSteps] = "push" => Len(q) < QueueSize
        /\ pc[NumSteps] # "blocked"
    BY <1>1 DEF FinishedInv
  <2> HIDE DEF q
  <2>3. /\ \A k \in 1..Len(q) : q[k] \in heap' /\ txNum'[q[k]] < Sent(NumSteps)'
        /\ \A k, l \in 1..Len(q) : k < l => txNum'[q[k]] < txNum'[q[l]]
        /\ pc'[NumSteps] = "push" => Len(q) < QueueSize
        /\ pc'[NumSteps] # "blocked"
    BY <2>1, <2>2
  <2> QED
    BY <2>1, <2>3 DEF FinishedInv
<1>17. FreshInv'
  BY <1>3 DEF FreshInv
<1> QED
  BY <1>12, <1>13, <1>14, <1>15, <1>16, <1>17 DEF OrderInv

(* The caller deletes the objects left in finished_transaction_queue.      *)
LEMMA OrderReturn ==
  ASSUME TypeInv, OrderInv, Return
  PROVE  OrderInv'
<1> DEFINE q == queue[NumSteps + 1]
           R == {q[k] : k \in 1..Len(q)}
<1>1. HeldInv /\ QueueInv /\ ChainInv /\ FinishedInv /\ FreshInv /\ InOrder
  BY DEF OrderInv
<1>2. /\ UNCHANGED <<pc, held, txNum, out, nextTx>>
      /\ heap' = heap \ R
  BY DEF Return, importVars
<1>3. /\ queue'[NumSteps + 1] = << >>
      /\ \A j \in Steps : queue'[j] = queue[j]
  BY Indices DEF Return, TypeInv, TypeOK, Threads
<1>4. \A j \in Steps : Todo(j)' = Todo(j) /\ Wanted(j)' = Wanted(j)
  BY <1>2 DEF Todo, Wanted, Unprocessed
<1>5. \A j \in Threads : Sent(j)' = Sent(j)
  BY <1>2 DEF Todo, Sent, Unsent
<1>6. ASSUME NEW o \in R
      PROVE  /\ \A j \in Steps : \A k \in 1..Len(queue[j]) : queue[j][k] # o
             /\ \A j \in Threads : held[j] # None => held[j] # o
  <2>1. PICK k \in 1..Len(q) : o = q[k]
    OBVIOUS
  <2>2. o \in Obj /\ txNum[o] < Sent(NumSteps)
    BY <1>1, <2>1 DEF FinishedInv, TypeInv, TypeOK
  <2>3. /\ \A j \in Steps : \A l \in 1..Len(queue[j]) : queue[j][l] # o
        /\ \A j \in Steps : held[j] # None => held[j] # o
        /\ Unsent(0) => held[0] # o
    BY <2>2, FinishedApart
  <2>4. pc[0] \in {"parse", "failed"} /\ held[0] # None => held[0] # o
    BY <1>1, <2>1, Indices DEF FreshInv
  <2>5. pc[0] \in ImportPc
    BY DEF TypeInv, TypeOK
  <2>6. held[0] # None => held[0] # o
    BY <1>1, <2>3, <2>4, <2>5 DEF HeldInv, Unsent, ImportPc, ExitPc, ThrewPc
  <2> QED
    BY <2>3, <2>6, Indices
<1> HIDE DEF R
<1>7. InOrder'
  BY <1>1, <1>2 DEF InOrder
<1>8. HeldInv'
  <2> USE <1>1, <1>2, <1>4, Indices DEF HeldInv, Unprocessed, Unsent
  <2>1. \A j \in Steps : held'[j] # None <=> (Unprocessed(j)' \/ Unsent(j)')
    OBVIOUS
  <2>2. \A j \in Steps : Unprocessed(j)' => txNum'[held'[j]] = Todo(j)'
    OBVIOUS
  <2>3. \A j \in Steps : Unsent(j)' => txNum'[held'[j]] = Todo(j)' - 1 /\ out'[j] # << >>
    OBVIOUS
  <2>4. /\ pc'[0] \in {"block", "load", "returned"} => held'[0] = None
        /\ pc'[0] \in {"parse", "push", "blocked", "gaveUp"} => held'[0] # None
        /\ Unsent(0)' => txNum'[held'[0]] = nextTx'
    OBVIOUS
  <2>5. \A j \in Threads : held'[j] # None => held'[j] \in heap'
    BY <1>6
  <2> QED
    BY <2>1, <2>2, <2>3, <2>4, <2>5
<1>9. QueueInv'
  <2>1. \A j \in Steps : \A k \in 1..Len(queue[j]) : queue[j][k] \in heap'
    BY <1>1, <1>2, <1>6 DEF QueueInv
  <2> QED
    BY <1>1, <1>2, <1>3, <1>4, <1>5, <2>1, QueueFrame
<1>10. ChainInv'
  BY <1>1, <1>4, <1>5 DEF ChainInv
<1>11. FinishedInv'
  BY <1>1, <1>2, <1>3, QueueAssumption DEF FinishedInv
<1>12. FreshInv'
  <2>1. \A j \in 1..(NumSteps + 1) : j \in Steps \/ j = NumSteps + 1
    BY StepsAssumption DEF Steps
  <2>2. \A j \in 1..(NumSteps + 1) : queue'[j] = queue[j] \/ queue'[j] = << >>
    BY <1>3, <2>1
  <2> QED
    BY <1>1, <1>2, <2>2 DEF FreshInv
<1> QED
  BY <1>7, <1>8, <1>9, <1>10, <1>11, <1>12 DEF OrderInv

(* The remaining actions are quiet.                                        *)
LEMMA OrderRest ==
  ASSUME TypeInv, OrderInv,
         \/ \E i \in Threads : PushFull(i) \/ Retry(i) \/ GiveUp(i)
         \/ \E i \in Steps : CheckPrevDone(i) \/ QueueEmpty(i) \/ StepFails(i)
         \/ NextBlock \/ EndBlock \/ ImportDone \/ ImportFails
         \/ GetFuture \/ Rethrow
         \/ UNCHANGED vars
  PROVE  OrderInv'
<1> SUFFICES Quiet
  BY OrderQuiet
<1>0. pc \in [Threads -> ImportPc \cup StepPc]
  BY DEF TypeInv, TypeOK
<1>1. pc[NumSteps] # "blocked" /\ (pc[NumSteps] = "push" => ~Full(queue[NumSteps + 1]))
  BY Indices, QueueAssumption DEF OrderInv, FinishedInv, Full, TypeInv, TypeOK
<1> USE Indices DEF Quiet, importVars, mainVars
<1>2. CASE \E i \in Threads : PushFull(i) \/ Retry(i) \/ GiveUp(i)
  <2>1. PICK i \in Threads : PushFull(i) \/ Retry(i) \/ GiveUp(i)
    BY <1>2
  <2>2. i # NumSteps
    BY <2>1, <1>1 DEF PushFull, Retry, GiveUp
  <2>3. /\ pc[i] \in {"push", "blocked"}
        /\ \E p \in {"push", "blocked", "gaveUp"} : pc' = [pc EXCEPT ![i] = p]
        /\ UNCHANGED <<queue, held, heap, txNum, out, nextTx>>
    BY <2>1 DEF PushFull, Retry, GiveUp, Exit
  <2> QED
    BY <1>0, <2>2, <2>3
<1>3. CASE \E i \in Steps : CheckPrevDone(i) \/ QueueEmpty(i) \/ StepFails(i)
  <2>1. PICK i \in Steps : CheckPrevDone(i) \/ QueueEmpty(i) \/ StepFails(i)
    BY <1>3
  <2>2. /\ \/ pc[i] \in {"loop", "consume"} /\
              \E p \in {"loop", "consume", "returned"} : pc' = [pc EXCEPT ![i] = p]
           \/ pc[i] = "func" /\ pc' = [pc EXCEPT ![i] = "failed"]
        /\ UNCHANGED <<queue, held, heap, txNum, out, nextTx>>
    BY <2>1 DEF CheckPrevDone, QueueEmpty, StepFails, Exit
  <2> QED
    BY <1>0, <2>2
<1>4. CASE NextBlock \/ EndBlock \/ ImportDone \/ ImportFails
  <2>1. /\ \/ pc[0] \in {"block", "load"} /\
              \E p \in {"block", "load", "returned", "failed"} : pc' = [pc EXCEPT ![0] = p]
           \/ pc[0] = "parse" /\ pc' = [pc EXCEPT ![0] = "failed"]
        /\ UNCHANGED <<queue, held, heap, txNum, out, nextTx>>
    BY <1>4 DEF NextBlock, EndBlock, ImportDone, ImportFails, Exit
  <2> QED
    BY <1>0, <2>1
<1>5. CASE GetFuture \/ Rethrow \/ UNCHANGED vars
  BY <1>5 DEF GetFuture, Rethrow, vars
<1> QED
  BY <1>2, <1>3, <1>4, <1>5

(* The inductive invariant of the order: the transactions read so far are  *)
(* cut into consecutive intervals, one per thread and queue.               *)
THEOREM OrderInvariance == Spec => []OrderInv
<1>1. TypeInv /\ OrderInv /\ [Next]_vars => OrderInv'
  <2> SUFFICES ASSUME TypeInv, OrderInv, [Next]_vars PROVE OrderInv'
    OBVIOUS
  <2>1. CASE \E i \in Threads : ThreadAct(i)
    BY <2>1, OrderPush, OrderRest DEF ThreadAct
  <2>2. CASE \E i \in Steps : StepAct(i)
    <3>1. PICK i \in Steps : StepAct(i)
      BY <2>2
    <3>2. CASE Process(i)
      <4>1. /\ pc[i] = "func" /\ Record(i) /\ pc' = [pc EXCEPT ![i] = "push"]
            /\ i = NumSteps => FinishedQueueHasRoom
            /\ UNCHANGED <<queue, held, heap, txNum, nextTx>>
        BY <3>2, StepsAssumption DEF Process, importVars
      <4> QED
        BY <4>1, OrderProcess
    <3> QED
      BY <3>1, <3>2, OrderPop, OrderRest DEF StepAct
  <2>3. CASE ImportAct
    BY <2>3, OrderRecycle, OrderAllocate, OrderParse, OrderRest DEF ImportAct
  <2>4. CASE LastAct
    <3>1. CASE ProcessAndKeep
      <4>1. /\ pc[NumSteps] = "func" /\ Record(NumSteps)
            /\ pc' = [pc EXCEPT ![NumSteps] = "push"] /\ FinishedQueueHasRoom
            /\ UNCHANGED <<queue, held, heap, txNum, nextTx>>
        BY <3>1 DEF ProcessAndKeep, importVars
      <4> QED
        BY <4>1, OrderProcess, Indices
    <3> QED
      BY <2>4, <3>1, OrderDelete DEF LastAct
  <2>5. CASE MainAct \/ UNCHANGED vars
    BY <2>5, OrderReturn, OrderRest DEF MainAct
  <2> QED
    BY <2>1, <2>2, <2>3, <2>4, <2>5, NextSplit
<1> QED
  BY OrderInit, TypeInvariance, <1>1, PTL DEF Spec

(* The k-th record of every step is that of the k-th new transaction, in   *)
(* any interleaving and whichever threads fail.                            *)
THEOREM RecordsInOrder == Spec => []InOrder
<1>1. OrderInv => InOrder
  BY DEF OrderInv
<1> QED
  BY OrderInvariance, <1>1, PTL

(* The last step never reads its uninitialised nextDone pointer.           *)
THEOREM LastStepNeverBlocked == Spec => []NextDoneOfLastStepUnread
<1>1. OrderInv => NextDoneOfLastStepUnread
  BY DEF OrderInv, FinishedInv, NextDoneOfLastStepUnread
<1> QED
  BY OrderInvariance, <1>1, PTL
=============================================================================
