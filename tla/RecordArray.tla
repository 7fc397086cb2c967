---------------------------- MODULE RecordArray ----------------------------
(***************************************************************************)
(* What an IndexedFileMapper promises the parser: an array of records with *)
(* a first and an optional second element.  A killed process loses records *)
(* of its own run from some point on, and may leave elements of that run   *)
(* torn, but what was there when files were last closed stays.             *)
(***************************************************************************)
EXTENDS Naturals, Sequences

CONSTANTS Value,
          None,     \* the element was never written
          Torn      \* the element's offset does not lead to what was written

VARIABLES arr,      \* what reading the array gives
          saved     \* arr when the files were last closed

Init == arr = <<>> /\ saved = <<>>

AddRecord ==
  /\ \E v \in Value : arr' = Append(arr, [first |-> v, second |-> None])
  /\ UNCHANGED saved

Supply ==
  /\ \E i \in DOMAIN arr, v \in Value : arr' = [arr EXCEPT ![i].second = v]
  /\ UNCHANGED saved

Amend ==
  /\ \E i \in DOMAIN arr, v \in Value :
       arr[i].first # Torn /\ arr' = [arr EXCEPT ![i].first = v]
  /\ UNCHANGED saved

Settle == UNCHANGED arr /\ saved' = arr

(* A second element may lie behind the first element of the record at      *)
(* which the array is cut, and then it goes with it.                       *)
Cut ==
  /\ Len(arr') < Len(arr)
  /\ \A i \in DOMAIN arr' :
       arr'[i].first = arr[i].first /\ arr'[i].second \in {arr[i].second, Torn}
  /\ saved' = arr'

Lose ==
  /\ Len(arr') \in Len(saved)..Len(arr)
  /\ \A i \in DOMAIN arr' : \A e \in {"first", "second"} :
       /\ arr'[i][e] \in {arr[i][e], Torn}
       /\ i <= Len(saved) /\ saved[i][e] # None => arr'[i][e] = arr[i][e]
  /\ UNCHANGED saved

Next == AddRecord \/ Supply \/ Amend \/ Settle \/ Cut \/ Lose

Spec == Init /\ [][Next]_<<arr, saved>>
=============================================================================
