---------------------------- MODULE AddressBook ----------------------------
(***************************************************************************)
(* What AddressState promises to the rest of the parser: an address of a   *)
(* kind that is deduplicated gets the next number of its kind when it is   *)
(* first met and the same number ever after, one of another kind always    *)
(* gets a new number, and a rollback forgets the numbers from some count   *)
(* on and gives them out again.                                            *)
(***************************************************************************)
EXTENDS Naturals

CONSTANTS Kind, Equived, Hash

VARIABLES
  book,    \* book[k]: the numbers of the addresses of kind k
  count,   \* count[k]: the next number of kind k
  answer   \* the last answer: kind, hash, num and isNew

vars == <<book, count, answer>>

NoAnswer == [kind |-> "none"]

Init ==
  /\ book = [k \in Equived |-> << >>]
  /\ count = [k \in Kind |-> 1]
  /\ answer = NoAnswer

Known(k, h) ==
  /\ h \in DOMAIN book[k]
  /\ answer' = [kind |-> k, hash |-> h, num |-> book[k][h], isNew |-> FALSE]
  /\ UNCHANGED <<book, count>>

Fresh(k, h) ==
  /\ answer' = [kind |-> k, hash |-> h, num |-> count[k], isNew |-> TRUE]
  /\ count' = [count EXCEPT ![k] = @ + 1]

New(k, h) ==
  /\ h \notin DOMAIN book[k]
  /\ Fresh(k, h)
  /\ book' = [book EXCEPT ![k] = [g \in DOMAIN @ \cup {h} |->
                                    IF g = h THEN count[k] ELSE @[g]]]

Forget ==
  /\ count' \in [Kind -> Nat]
  /\ book' = [k \in Equived |->
                [h \in {g \in DOMAIN book[k] : book[k][g] < count'[k]} |-> book[k][h]]]
  /\ answer' = NoAnswer

Next ==
  \/ \E k \in Equived, h \in Hash : Known(k, h) \/ New(k, h)
  \/ \E k \in Kind \ Equived, h \in Hash : Fresh(k, h) /\ UNCHANGED book
  \/ Forget

Spec == Init /\ [][Next]_vars
=============================================================================
