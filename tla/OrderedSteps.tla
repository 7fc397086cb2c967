---------------------------- MODULE OrderedSteps ----------------------------
(***************************************************************************)
(* What BlockProcessor::addNewBlocks promises its caller, updateChain: the *)
(* processing functions are applied to the new transactions as if one      *)
(* thread ran them in chain order.  Each of them sees every transaction    *)
(* once, in order of transaction number, and only after the function       *)
(* before it has seen that transaction; the call returns normally only     *)
(* when all of them have seen all transactions, and nothing is processed   *)
(* once it is over.                                                        *)
(***************************************************************************)
EXTENDS Naturals, Sequences

CONSTANTS
  NumSteps,   \* number of processing functions (8 in the code)
  StartTx,    \* number of the first new transaction
  EndTx       \* one past the number of the last one

VARIABLES
  applied,    \* applied[i]: the transactions function i has been applied to
  outcome     \* of the call: "running", "returned" or "threw"

avars == <<applied, outcome>>

Init ==
  /\ applied = [i \in 1..NumSteps |-> << >>]
  /\ outcome = "running"

(* Function i is applied to the next transaction it has not seen.          *)
Apply(i) ==
  /\ outcome = "running"
  /\ StartTx + Len(applied[i]) < EndTx
  /\ i > 1 => Len(applied[i]) < Len(applied[i - 1])
  /\ applied' = [applied EXCEPT ![i] = Append(@, StartTx + Len(@))]
  /\ UNCHANGED outcome

Return ==
  /\ outcome = "running"
  /\ \A i \in 1..NumSteps : StartTx + Len(applied[i]) = EndTx
  /\ outcome' = "returned"
  /\ UNCHANGED applied

Throw ==
  /\ outcome = "running"
  /\ outcome' = "threw"
  /\ UNCHANGED applied

Next == (\E i \in 1..NumSteps : Apply(i)) \/ Return \/ Throw

Spec == Init /\ [][Next]_avars
=============================================================================
