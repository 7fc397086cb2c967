---------------------------- MODULE PipelineInv ----------------------------
(***************************************************************************)
(* The inductive invariant of Pipeline.  The transactions read so far are  *)
(* cut into consecutive intervals: those a step has finished with, the one *)
(* in its hands, those in its input queue, the one in the hands of the     *)
(* thread before it, and so on up to the importer.  A failed thread keeps  *)
(* what it had in hand, so that the cut survives failures.                 *)
(***************************************************************************)
EXTENDS Pipeline

(* Thread i has an object that its func has not seen, or not passed on.    *)
Unprocessed(i) == pc[i] \in {"func", "failed"}
Unsent(i) == pc[i] \in {"push", "blocked", "gaveUp"}

(* With the types: a thread about to use its object has one, and the       *)
(* importer is at a block that exists.                                     *)
InHand ==
  /\ \A i \in Threads : pc[i] \in {"func", "parse", "push", "blocked"} => held[i] \in Obj
  /\ pc[0] \in {"load", "parse", "push", "blocked"} => block \in Blocks

TypeInv == TypeOK /\ InHand

(* The first transaction that step i has not processed, that thread i has  *)
(* not passed on, and that step i has not popped.                          *)
Todo(i)   == StartTx + Len(out[i])
Sent(i)   == IF i = 0 THEN nextTx
             ELSE IF Unsent(i) THEN Todo(i) - 1 ELSE Todo(i)
Wanted(i) == IF Unprocessed(i) THEN Todo(i) + 1 ELSE Todo(i)

(* What a thread has in hand.                                              *)
HeldInv ==
  /\ \A i \in Steps : held[i] # None <=> (Unprocessed(i) \/ Unsent(i))
  /\ \A i \in Steps : Unprocessed(i) => txNum[held[i]] = Todo(i)
  /\ \A i \in Steps : Unsent(i) => txNum[held[i]] = Todo(i) - 1 /\ out[i] # << >>
  /\ pc[0] \in {"block", "load", "returned"} => held[0] = None
  /\ pc[0] \in {"parse", "push", "blocked", "gaveUp"} => held[0] # None
  /\ Unsent(0) => txNum[held[0]] = nextTx
  /\ \A i \in Threads : held[i] # None => held[i] \in heap

(* What is in the queues between the importer and the last step.           *)
QueueInv ==
  \A i \in Steps :
    /\ Len(queue[i]) = Sent(i - 1) - Wanted(i)
    /\ \A k \in 1..Len(queue[i]) : /\ queue[i][k] \in heap
                                   /\ txNum[queue[i][k]] = Wanted(i) + k - 1

(* A thread is never behind a later one.                                   *)
ChainInv ==
  \A i \in Threads, j \in Steps : i < j => Wanted(j) <= Sent(i)

(* What is in finished_transaction_queue.                                  *)
FinishedInv ==
  LET q == queue[NumSteps + 1] IN
    /\ \A k \in 1..Len(q) : q[k] \in heap /\ txNum[q[k]] < Sent(NumSteps)
    /\ \A k, l \in 1..Len(q) : k < l => txNum[q[k]] < txNum[q[l]]
    /\ pc[NumSteps] = "push" => Len(q) < QueueSize
    /\ pc[NumSteps] # "blocked"

(* The object the importer is about to overwrite is nobody else's.  (An    *)
(* object it has overwritten is told from others by its number.)           *)
FreshInv ==
  pc[0] \in {"parse", "failed"} /\ held[0] # None =>
    /\ \A i \in 1..(NumSteps + 1) : \A k \in 1..Len(queue[i]) : queue[i][k] # held[0]
    /\ \A i \in Steps : held[i] # held[0]

(* Where the importer is.                                                  *)
ImportInv ==
  /\ StartTx <= nextTx /\ nextTx <= EndTx
  /\ pc[0] = "block" => nextTx = FirstTx[block]
  /\ pc[0] \in {"load", "parse", "push", "blocked"} =>
       /\ block \in Blocks
       /\ FirstTx[block] <= nextTx /\ nextTx <= FirstTx[block + 1]
  /\ pc[0] \in {"parse", "push", "blocked"} => nextTx < FirstTx[block + 1]
  /\ pc[0] = "returned" => block = NumBlocks + 1 /\ nextTx = EndTx
  /\ Len(blockFile) = block - 1

(* A step returns only after its producer has ended and its queue is dry.  *)
ExitInv ==
  /\ \A i \in Threads : done[i] <=> Exited(i)
  /\ \A i \in Steps : last[i] => done[i - 1]
  /\ \A i \in Steps : pc[i] = "returned" => last[i] /\ queue[i] = << >>

(* So if all threads up to a step have returned, that step has seen all.   *)
CompleteInv ==
  \A i \in Steps :
    (\A j \in 0..i : pc[j] = "returned") => Todo(i) = EndTx

(* What the caller knows of the threads it has joined.                     *)
JoinInv ==
  /\ \A i \in Threads : i < joined => pc[i] = "returned"
  /\ main = "returned" => joined = NumSteps + 1 /\ queue[NumSteps + 1] = << >>
  /\ main = "threw" => \A i \in Threads : Exited(i)

(* No object is allocated and out of reach.                                *)
HeapInv ==
  \A o \in heap : \/ \E i \in Threads : held[i] = o
                  \/ \E i \in 1..(NumSteps + 1) : \E k \in 1..Len(queue[i]) : queue[i][k] = o

(* The files of the transactions on their way, and of the current block,   *)
(* are mapped.                                                             *)
MapInv ==
  (main = "joining" /\ \A i \in Threads : ~Threw(i)) =>
    /\ \A b \in Blocks : \A t \in StartTx..EndTx :
         /\ FirstTx[b] <= t /\ t < FirstTx[b + 1]
         /\ Sent(NumSteps) <= t /\ t < nextTx
         => NFile[b] \in mapped
    /\ pc[0] \in {"load", "parse", "push", "blocked"} => NFile[block] \in mapped

(* The parts that depend on each other.                                    *)
OrderInv == /\ InOrder /\ HeldInv /\ QueueInv /\ ChainInv
            /\ FinishedInv /\ FreshInv

IInv == /\ TypeInv /\ OrderInv /\ ImportInv /\ ExitInv /\ CompleteInv
        /\ JoinInv /\ HeapInv /\ MapInv
=============================================================================
