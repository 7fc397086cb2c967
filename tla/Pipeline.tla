------------------------------ MODULE Pipeline ------------------------------
(***************************************************************************)
(* BlockProcessor::addNewBlocks (src/parser/block_processor.cpp): an       *)
(* importer thread reads the transactions of the new blocks out of memory  *)
(* mapped block files and feeds a chain of ProcessStep threads joined by   *)
(* bounded single-producer single-consumer queues.  The last step sends    *)
(* the RawTransaction objects back to the importer, which reuses them and  *)
(* unmaps the files that no transaction needs any more.  Any thread may    *)
(* end with an exception; the caller joins the threads in order.           *)
(*                                                                         *)
(* Thread 0 is the importer, thread i \in 1..NumSteps the i-th step, and   *)
(* queue[i] the input queue of step i; queue[NumSteps + 1] is              *)
(* finished_transaction_queue.                                             *)
(***************************************************************************)
EXTENDS Integers, Sequences, FiniteSets

CONSTANTS
  NumSteps,   \* number of ProcessSteps (8 in the code)
  QueueSize,  \* capacity of every queue (10000 in the code)
  NumBlocks,  \* number of blocks to add
  FirstTx,    \* FirstTx[b]: number of the first transaction of block b;
              \* FirstTx[NumBlocks + 1] is one past the last transaction
  NFile,      \* NFile[b]: the block file that holds block b
  Obj,        \* addresses of RawTransaction objects
  None,       \* nullptr
  MayThrow    \* the threads whose own work may throw

Blocks  == 1..NumBlocks
Steps   == 1..NumSteps
Threads == 0..NumSteps
Files   == {NFile[b] : b \in Blocks}

StartTx == FirstTx[1]
EndTx   == FirstTx[NumBlocks + 1]

ASSUME StepsAssumption == NumSteps \in Nat \ {0}
ASSUME QueueAssumption == QueueSize \in Nat \ {0}
ASSUME BlocksAssumption ==
  /\ NumBlocks \in Nat \ {0}
  /\ FirstTx \in [1..(NumBlocks + 1) -> Nat]
  /\ \A b, c \in 1..(NumBlocks + 1) : b <= c => FirstTx[b] <= FirstTx[c]
  /\ DOMAIN NFile = Blocks
ASSUME ObjAssumption == None \notin Obj
ASSUME ThrowAssumption == MayThrow \subseteq Threads

VARIABLES
  queue,      \* the input queues and finished_transaction_queue
  pc,         \* where each thread is
  held,       \* the RawTransaction each thread has in hand
  last,       \* step i is in the consumeAll that follows its while loop
  done,       \* done[0] = rawDone, done[i] = isDone of step i
  heap,       \* the objects allocated
  txNum,      \* the field of that name of each object
  block,      \* the block the importer is at
  nextTx,     \* the number of the transaction it reads next
  mapped,     \* the block files it has mapped into memory
  blockFile,  \* the blocks it has written to the block file
  out,        \* out[i]: the transactions step i has processed, in order:
              \* the records of the files and maps that step maintains
  joined,     \* the next future the caller gets
  main        \* the caller: "joining", "unwinding", "returned", "threw"

importVars == <<block, nextTx, blockFile>>
mainVars   == <<joined, main>>
vars == <<queue, pc, held, last, done, heap, txNum, block, nextTx, mapped,
          blockFile, out, joined, main>>

ThrewPc  == {"failed", "gaveUp"}
ExitPc   == {"returned"} \cup ThrewPc
ImportPc == {"block", "load", "parse", "push", "blocked"} \cup ExitPc
StepPc   == {"loop", "consume", "func", "push", "blocked"} \cup ExitPc

Threw(i)  == pc[i] \in ThrewPc
Exited(i) == pc[i] \in ExitPc

Init ==
  /\ queue = [i \in 1..(NumSteps + 1) |-> << >>]
  /\ pc = [i \in Threads |-> IF i = 0 THEN "block" ELSE "loop"]
  /\ held = [i \in Threads |-> None]
  /\ last = [i \in Steps |-> FALSE]
  /\ done = [i \in Threads |-> FALSE]
  /\ heap = {}
  /\ txNum = [o \in Obj |-> 0]
  /\ block = 1
  /\ nextTx = StartTx
  /\ mapped = {}
  /\ blockFile = << >>
  /\ out = [i \in Steps |-> << >>]
  /\ joined = 0
  /\ main = "joining"

-----------------------------------------------------------------------------
(* Every thread owns a CompletionGuard that sets its flag however the      *)
(* thread ends.  When the importer throws, its BlockFileReader is          *)
(* destroyed with all its mappings; when it returns, the reader moves into *)
(* the future.                                                             *)
Exit(i, how) ==
  /\ pc' = [pc EXCEPT ![i] = how]
  /\ done' = [done EXCEPT ![i] = TRUE]
  /\ mapped' = IF i = 0 /\ how \in ThrewPc THEN {} ELSE mapped

Full_OffByOne(q) == Len(q) = QueueSize + 1   \* mutant: one slot too many

Full(q) == Len(q) = QueueSize

(* nextQueue->push, of an object in hand, by the importer and the steps.   *)
Push(i) ==
  /\ pc[i] = "push"
  /\ ~Full(queue[i + 1])
  /\ queue' = [queue EXCEPT ![i + 1] = Append(@, held[i])]
  /\ held' = [held EXCEPT ![i] = None]
  /\ pc' = [pc EXCEPT ![i] = IF i = 0 THEN "load" ELSE "consume"]
  /\ nextTx' = IF i = 0 THEN nextTx + 1 ELSE nextTx
  /\ UNCHANGED <<last, done, heap, txNum, block, mapped, blockFile, out, mainVars>>

PushFull(i) ==
  /\ pc[i] = "push"
  /\ Full(queue[i + 1])
  /\ pc' = [pc EXCEPT ![i] = "blocked"]
  /\ UNCHANGED <<queue, held, last, done, heap, txNum, mapped, importVars, out, mainVars>>

(* What a thread whose push failed can read of the flag of its consumer.   *)
(* The constructor of the next ProcessStep sets nextDone; nobody sets that *)
(* of the last step, so reading it yields anything.                        *)
NextDone_Unchecked(i) == {FALSE}     \* mutant: the producer never looks

NextDone(i) == IF i < NumSteps THEN {done[i + 1]} ELSE BOOLEAN

Retry_Drop(i) ==                      \* mutant: the transaction is dropped
  /\ pc[i] = "blocked"
  /\ pc' = [pc EXCEPT ![i] = IF i = 0 THEN "load" ELSE "consume"]
  /\ held' = [held EXCEPT ![i] = None]
  /\ nextTx' = IF i = 0 THEN nextTx + 1 ELSE nextTx
  /\ UNCHANGED <<queue, last, done, heap, txNum, block, mapped, blockFile, out, mainVars>>

Retry(i) ==
  /\ pc[i] = "blocked"
  /\ FALSE \in NextDone(i)
  /\ pc' = [pc EXCEPT ![i] = "push"]
  /\ UNCHANGED <<queue, held, last, done, heap, txNum, mapped, importVars, out, mainVars>>

(* NextQueueFinishedEarlyException                                         *)
GiveUp(i) ==
  /\ pc[i] = "blocked"
  /\ TRUE \in NextDone(i)
  /\ Exit(i, "gaveUp")
  /\ UNCHANGED <<queue, held, last, heap, txNum, importVars, out, mainVars>>

-----------------------------------------------------------------------------
(* The importer.                                                           *)

(* BlockFileReader::nextBlock maps the file unless it is mapped already.   *)
NextBlock ==
  /\ pc[0] = "block"
  /\ block <= NumBlocks
  /\ mapped' = mapped \cup {NFile[block]}
  /\ pc' = [pc EXCEPT ![0] = "load"]
  /\ UNCHANGED <<queue, held, last, done, heap, txNum, importVars, out, mainVars>>

(* lastTxRequired[f] is one past the last transaction of the last block of *)
(* file f, so it is below n exactly when the end of every block of f is.   *)
LastTxRequiredBelow_First(f, n) ==    \* mutant: the first block of the file kept
  \E b \in Blocks : NFile[b] = f /\ FirstTx[b + 1] < n

LastTxRequiredBelow(f, n) ==
  \A b \in Blocks : NFile[b] = f => FirstTx[b + 1] < n

(* receivedFinishedTx: the mappings left when transaction n came back.     *)
KeptFiles(n) == {f \in mapped : ~LastTxRequiredBelow(f, n)}

(* loadFinishedTx: reuse a finished object, and drop the files it proves   *)
(* no longer needed, ...                                                   *)
Recycle ==
  /\ pc[0] = "load"
  /\ nextTx < FirstTx[block + 1]
  /\ queue[NumSteps + 1] # << >>
  /\ LET o == Head(queue[NumSteps + 1]) IN
       /\ held' = [held EXCEPT ![0] = o]
       /\ mapped' = KeptFiles(txNum[o])
  /\ queue' = [queue EXCEPT ![NumSteps + 1] = Tail(@)]
  /\ pc' = [pc EXCEPT ![0] = "parse"]
  /\ UNCHANGED <<last, done, heap, txNum, importVars, out, mainVars>>

(* ... or allocate one.                                                    *)
Allocate ==
  /\ pc[0] = "load"
  /\ nextTx < FirstTx[block + 1]
  /\ queue[NumSteps + 1] = << >>
  /\ \E o \in Obj \ heap :
       /\ held' = [held EXCEPT ![0] = o]
       /\ heap' = heap \cup {o}
  /\ pc' = [pc EXCEPT ![0] = "parse"]
  /\ UNCHANGED <<queue, last, done, txNum, mapped, importVars, out, mainVars>>

(* BlockFileReader::nextTx overwrites the object with the next transaction.*)
Parse ==
  /\ pc[0] = "parse"
  /\ txNum' = [txNum EXCEPT ![held[0]] = nextTx]
  /\ pc' = [pc EXCEPT ![0] = "push"]
  /\ UNCHANGED <<queue, held, last, done, heap, mapped, importVars, out, mainVars>>

(* The end of readNewBlock: the block record is written.                   *)
EndBlock ==
  /\ pc[0] = "load"
  /\ nextTx = FirstTx[block + 1]
  /\ blockFile' = Append(blockFile, block)
  /\ block' = block + 1
  /\ pc' = [pc EXCEPT ![0] = "block"]
  /\ UNCHANGED <<queue, held, last, done, heap, txNum, nextTx, mapped, out, mainVars>>

ImportDone ==
  /\ pc[0] = "block"
  /\ block > NumBlocks
  /\ Exit(0, "returned")
  /\ UNCHANGED <<queue, held, last, heap, txNum, importVars, out, mainVars>>

(* A missing block file, or a transaction that cannot be read.             *)
ImportFails ==
  /\ 0 \in MayThrow
  /\ pc[0] \in {"block", "parse"}
  /\ block <= NumBlocks
  /\ Exit(0, "failed")
  /\ UNCHANGED <<queue, held, last, heap, txNum, importVars, out, mainVars>>

-----------------------------------------------------------------------------
(* ProcessStep::operator().                                                *)

(* while (!prevDone) { consumeAll(); } consumeAll();                       *)
CheckPrevDone_NoDrain(i) ==           \* mutant: no consumeAll after the loop
  /\ pc[i] = "loop"
  /\ IF done[i - 1]
       THEN Exit(i, "returned")
       ELSE pc' = [pc EXCEPT ![i] = "consume"] /\ UNCHANGED <<done, mapped>>
  /\ UNCHANGED <<queue, held, last, heap, txNum, importVars, out, mainVars>>

CheckPrevDone(i) ==
  /\ pc[i] = "loop"
  /\ last' = [last EXCEPT ![i] = done[i - 1]]
  /\ pc' = [pc EXCEPT ![i] = "consume"]
  /\ UNCHANGED <<queue, held, done, heap, txNum, mapped, importVars, out, mainVars>>

Pop(i) ==
  /\ pc[i] = "consume"
  /\ queue[i] # << >>
  /\ held' = [held EXCEPT ![i] = Head(queue[i])]
  /\ queue' = [queue EXCEPT ![i] = Tail(@)]
  /\ pc' = [pc EXCEPT ![i] = "func"]
  /\ UNCHANGED <<last, done, heap, txNum, mapped, importVars, out, mainVars>>

(* consumeAll found the queue empty.                                       *)
QueueEmpty(i) ==
  /\ pc[i] = "consume"
  /\ queue[i] = << >>
  /\ IF last[i]
       THEN Exit(i, "returned")
       ELSE /\ pc' = [pc EXCEPT ![i] = "loop"]
            /\ UNCHANGED <<done, mapped>>
  /\ UNCHANGED <<queue, held, last, heap, txNum, importVars, out, mainVars>>

Record(i) == out' = [out EXCEPT ![i] = Append(@, txNum[held[i]])]

(* func(rawTx) of a step whose advanceFunc always says yes ...             *)
Process(i) ==
  /\ pc[i] = "func"
  /\ i < NumSteps
  /\ Record(i)
  /\ pc' = [pc EXCEPT ![i] = "push"]
  /\ UNCHANGED <<queue, held, last, done, heap, txNum, mapped, importVars, mainVars>>

(* ... and of the last step, which sends a small transaction back if there *)
(* is room ...                                                             *)
FinishedQueueHasRoom_Unchecked == TRUE   \* mutant: write_available dropped

FinishedQueueHasRoom == ~Full(queue[NumSteps + 1])

ProcessAndKeep ==
  /\ pc[NumSteps] = "func"
  /\ FinishedQueueHasRoom
  /\ Record(NumSteps)
  /\ pc' = [pc EXCEPT ![NumSteps] = "push"]
  /\ UNCHANGED <<queue, held, last, done, heap, txNum, mapped, importVars, mainVars>>

(* ... and deletes any other.                                              *)
ProcessAndDelete_StillSends ==        \* mutant: deleted and sent back
  /\ pc[NumSteps] = "func"
  /\ Record(NumSteps)
  /\ heap' = heap \ {held[NumSteps]}
  /\ pc' = [pc EXCEPT ![NumSteps] = "push"]
  /\ UNCHANGED <<queue, held, last, done, txNum, mapped, importVars, mainVars>>

ProcessAndDelete ==
  /\ pc[NumSteps] = "func"
  /\ Record(NumSteps)
  /\ heap' = heap \ {held[NumSteps]}
  /\ held' = [held EXCEPT ![NumSteps] = None]
  /\ pc' = [pc EXCEPT ![NumSteps] = "consume"]
  /\ UNCHANGED <<queue, last, done, txNum, mapped, importVars, mainVars>>

(* func throws, as utxoState.erase does for a key it does not hold.        *)
StepFails(i) ==
  /\ i \in MayThrow
  /\ pc[i] = "func"
  /\ Exit(i, "failed")
  /\ UNCHANGED <<queue, held, last, heap, txNum, importVars, out, mainVars>>

-----------------------------------------------------------------------------
(* The caller gets the futures in order.  An exception leaves              *)
(* addNewBlocks at once: the reader that importer.get() returned is the    *)
(* first local to be destroyed, then the futures, which wait for their     *)
(* threads.                                                                *)
GetFuture_Wait ==                     \* mutant: wait() instead of get()
  /\ main = "joining"
  /\ joined <= NumSteps
  /\ Exited(joined)
  /\ joined' = joined + 1
  /\ UNCHANGED <<queue, pc, held, last, done, heap, txNum, mapped, importVars, out, main>>

GetFuture ==
  /\ main = "joining"
  /\ joined <= NumSteps
  /\ Exited(joined)
  /\ IF Threw(joined)
       THEN main' = "unwinding" /\ mapped' = {} /\ UNCHANGED joined
       ELSE joined' = joined + 1 /\ UNCHANGED <<main, mapped>>
  /\ UNCHANGED <<queue, pc, held, last, done, heap, txNum, importVars, out>>

(* finished_transaction_queue.consume_all(delete), and the end of scope.   *)
Return_KeepFinished ==                \* mutant: no consume_all
  /\ main = "joining"
  /\ joined = NumSteps + 1
  /\ mapped' = {}
  /\ main' = "returned"
  /\ UNCHANGED <<queue, pc, held, last, done, heap, txNum, importVars, out, joined>>

Return ==
  /\ main = "joining"
  /\ joined = NumSteps + 1
  /\ heap' = heap \ {queue[NumSteps + 1][k] : k \in 1..Len(queue[NumSteps + 1])}
  /\ queue' = [queue EXCEPT ![NumSteps + 1] = << >>]
  /\ mapped' = {}
  /\ main' = "returned"
  /\ UNCHANGED <<pc, held, last, done, txNum, importVars, out, joined>>

Rethrow ==
  /\ main = "unwinding"
  /\ \A i \in Threads : Exited(i)
  /\ main' = "threw"
  /\ UNCHANGED <<queue, pc, held, last, done, heap, txNum, mapped, importVars, out, joined>>

Over == main \in {"returned", "threw"}

Finished == Over /\ UNCHANGED vars

-----------------------------------------------------------------------------
PushStep(i) == Push(i) \/ PushFull(i) \/ Retry(i) \/ GiveUp(i)

Importer ==
  \/ NextBlock \/ Recycle \/ Allocate \/ Parse \/ EndBlock
  \/ ImportDone \/ ImportFails \/ PushStep(0)

Step(i) ==
  \/ CheckPrevDone(i) \/ Pop(i) \/ QueueEmpty(i) \/ Process(i) \/ StepFails(i)
  \/ i = NumSteps /\ (ProcessAndKeep \/ ProcessAndDelete)
  \/ PushStep(i)

Main == GetFuture \/ Return \/ Rethrow

Next == Importer \/ (\E i \in Steps : Step(i)) \/ Main \/ Finished

(* The threads are std::async threads and the caller blocks only on them:  *)
(* the scheduler runs each of them again and again.                        *)
Fairness ==
  /\ WF_vars(Importer)
  /\ \A i \in Steps : WF_vars(Step(i))
  /\ WF_vars(Main)

Spec == Init /\ [][Next]_vars
FairSpec == Spec /\ Fairness

-----------------------------------------------------------------------------
(* Type invariant. *)
TypeOK ==
  /\ queue \in [1..(NumSteps + 1) -> Seq(Obj)]
  /\ \A i \in 1..(NumSteps + 1) : Len(queue[i]) <= QueueSize
  /\ pc \in [Threads -> ImportPc \cup StepPc]
  /\ pc[0] \in ImportPc /\ \A i \in Steps : pc[i] \in StepPc
  /\ held \in [Threads -> Obj \cup {None}]
  /\ last \in [Steps -> BOOLEAN]
  /\ done \in [Threads -> BOOLEAN]
  /\ heap \subseteq Obj
  /\ txNum \in [Obj -> Nat]
  /\ block \in 1..(NumBlocks + 1)
  /\ nextTx \in Nat
  /\ mapped \subseteq Files
  /\ blockFile \in Seq(Blocks)
  /\ out \in [Steps -> Seq(Nat)]
  /\ joined \in 0..(NumSteps + 1)
  /\ main \in {"joining", "unwinding", "returned", "threw"}

(* Whatever the interleaving, and whichever threads fail, the k-th record  *)
(* of every step is that of the k-th new transaction.  The hash file and   *)
(* the transaction file have no transaction number in their records:       *)
(* position is identity.                                                   *)
InOrder ==
  \A i \in Steps : \A k \in 1..Len(out[i]) : out[i][k] = StartTx + k - 1

(* A normal return means that every step has processed every transaction   *)
(* and that every block is in the block file: no exception is swallowed    *)
(* and no transaction is left behind in a queue when its consumer stops.   *)
CompleteOnReturn ==
  main = "returned" =>
    /\ \A i \in Steps : StartTx + Len(out[i]) = EndTx
    /\ Len(blockFile) = NumBlocks

(* A normal return leaves no RawTransaction allocated, although the last   *)
(* step deletes some, the importer reuses some and some are still in       *)
(* finished_transaction_queue at the end.                                  *)
NoLeakOnReturn == main = "returned" => heap = {}

(* The last step never fails to push: it checked write_available and is    *)
(* the only producer.  If it could fail, it would read its nextDone        *)
(* pointer, which nobody has initialised.                                  *)
NextDoneOfLastStepUnread == pc[NumSteps] # "blocked"

QueueRange(i) == {queue[i][k] : k \in 1..Len(queue[i])}

(* The RawTransactions some step has still to work on.                     *)
InFlight ==
  (UNION {QueueRange(i) : i \in Steps}) \cup ({held[i] : i \in Steps} \ {None})

(* While no thread has failed, the scripts and witnesses of a transaction  *)
(* in flight, which are pointers into a mapped block file, stay readable,  *)
(* and so does the block the importer is reading: receivedFinishedTx never *)
(* unmaps a file too early.                                                *)
FilesStayMapped ==
  (main = "joining" /\ \A i \in Threads : ~Threw(i)) =>
    /\ \A o \in InFlight : \A b \in Blocks :
         (FirstTx[b] <= txNum[o] /\ txNum[o] < FirstTx[b + 1]) => NFile[b] \in mapped
    /\ pc[0] \in {"load", "parse", "push", "blocked"} => NFile[block] \in mapped

(* A RawTransaction has one owner: it is in one slot of one queue or in    *)
(* the hands of one thread, and it is allocated.  Otherwise the importer   *)
(* would overwrite an object that a step still reads, or a step would use  *)
(* one that was deleted.                                                   *)
SingleOwner ==
  /\ \A i, j \in 1..(NumSteps + 1) :
       \A k \in 1..Len(queue[i]), l \in 1..Len(queue[j]) :
         queue[i][k] = queue[j][l] => i = j /\ k = l
  /\ \A i \in Threads : held[i] # None =>
       /\ held[i] \in heap
       /\ \A j \in 1..(NumSteps + 1) : held[i] \notin QueueRange(j)
       /\ \A j \in Threads : held[j] = held[i] => i = j
  /\ \A i \in 1..(NumSteps + 1) : QueueRange(i) \subseteq heap

(* addNewBlocks always ends, even if threads fail while their neighbours   *)
(* wait for them on full or empty queues.                                  *)
Termination == <>Over

(* Eight threads and nine queues behave like one thread that takes the     *)
(* transactions in order.                                                  *)
Ordered == INSTANCE OrderedSteps
             WITH applied <- out,
                  outcome <- IF Over THEN main ELSE "running"
OrderedSpec == Ordered!Spec
=============================================================================
