----------------------------- MODULE Heuristics -----------------------------
(***************************************************************************)
(* The heuristics: which output is the change, and which transactions mix. *)
(* An operator of a transaction t is the function of that name; n is the   *)
(* number of loaded blocks.  An unordered_map has no order, and            *)
(* max_element returns the first of the largest: the most frequent value   *)
(* is any of those that tie, so that a result that depends on it is a set. *)
(***************************************************************************)
EXTENDS Ledger, SequencesExt

CONSTANTS
  Word,    \* number of values of a uint64_t
  Dust     \* output values that isCoinjoin disregards: 546 and 2730

ASSUME WordAssumption == Word \in Nat \ {0} /\ Dust \subseteq Nat

Null == {}                       \* ranges::nullopt of an output or transaction
SingleOrNullptr(candidates) == IF Cardinality(candidates) = 1 THEN candidates ELSE Null
RemoveOpReturnOutputs(candidates) == {p \in candidates : IsSpendable(Output(p).address)}

InputAddresses(t) == {Input(p).address : p \in Inputs(t)}
SmallestInput(t) == Min({InputValue(p) : p \in Inputs(t)})
Fresh(t, p) == FirstTxIndex(Output(p).address) = t

-----------------------------------------------------------------------------
(* Change outputs.                                                         *)

LooksLikePeelingChain(t) == Len(Tx(t).outputs) = 2 /\ Len(Tx(t).inputs) = 1
IsPeelingChain(n, t) ==
  /\ LooksLikePeelingChain(t)
  /\ \/ LooksLikePeelingChain(Tx(t).inputs[1].linkedTxNum)
     \/ \E p \in Outputs(t) : IsSpent(n, p) /\ LooksLikePeelingChain(SpendingTxIndex(n, p))
UniqueChangeByPeelingChain(n, t) ==
  IF ~IsPeelingChain(n, t) THEN Null
  ELSE IF OutputValue(<<t, 1>>) > OutputValue(<<t, 2>>) THEN {<<t, 1>>} ELSE {<<t, 2>>}
ChangeByPeelingChain(n, t) == RemoveOpReturnOutputs(UniqueChangeByPeelingChain(n, t))

ChangeByPowerOfTenValue(t, digits) ==
  RemoveOpReturnOutputs({p \in Outputs(t) : OutputValue(p) % 10^digits # 0})

ChangeByOptimalChange(t) ==
  RemoveOpReturnOutputs({p \in Outputs(t) : OutputValue(p) < SmallestInput(t)})

ChangeByAddressType(t) ==
  RemoveOpReturnOutputs(
    {p \in Outputs(t) : \A q \in Inputs(t) : Input(q).address.type = Output(p).address.type})

ChangeByLocktime(n, t) ==
  RemoveOpReturnOutputs(
    {p \in Outputs(t) :
       IsSpent(n, p) => (Tx(SpendingTxIndex(n, p)).locktime > 0) = (Tx(t).locktime > 0)})

ChangeByAddressReuse(t) ==
  RemoveOpReturnOutputs({p \in Outputs(t) : Output(p).address \in InputAddresses(t)})

ChangeByClientChangeAddressBehavior(t) ==
  RemoveOpReturnOutputs({p \in Outputs(t) : IsSpendable(Output(p).address) /\ Fresh(t, p)})

-----------------------------------------------------------------------------
(* Coinjoin.                                                               *)

Count(t, v) == Cardinality({p \in Outputs(t) : OutputValue(p) = v})
\* the values that max_element may return, of a map from values to sizes
Largest(vals, size(_)) == {v \in vals : \A w \in vals : size(w) <= size(v)}
Participants(t) == (Len(Tx(t).outputs) + 1) \div 2

MayBeCoinjoin(t) ==
  /\ Len(Tx(t).inputs) >= 2 /\ Len(Tx(t).outputs) >= 3
  /\ Participants(t) <= Len(Tx(t).inputs)
  /\ Participants(t) <= Cardinality(InputAddresses(t))

\* the results that isCoinjoin may give
IsCoinjoin(t) ==
  IF ~MayBeCoinjoin(t) THEN {FALSE}
  ELSE {Count(t, v) = Participants(t) /\ v \notin Dust :
          v \in Largest({OutputValue(p) : p \in Outputs(t)}, LAMBDA v : Count(t, v))}

LegacyChange_FirstFound(t) ==     \* mutant: the second candidate does not count
  LET spendable == RemoveOpReturnOutputs(Outputs(t))
      change == {p \in spendable : OutputValue(p) < SmallestInput(t) /\ Fresh(t, p)}
  IN IF Cardinality(spendable) > 1 /\ change # {} THEN {CHOOSE p \in change : TRUE} ELSE Null

\* the loops of uniqueChangeByLegacyHeuristic, behind its test of isCoinjoin
LegacyChange(t) ==
  LET spendable == RemoveOpReturnOutputs(Outputs(t))
      change == {p \in spendable : OutputValue(p) < SmallestInput(t) /\ Fresh(t, p)}
  IN IF Cardinality(spendable) > 1 THEN SingleOrNullptr(change) ELSE Null
UniqueChangeByLegacyHeuristic(t) ==
  {IF mixed THEN Null ELSE LegacyChange(t) : mixed \in IsCoinjoin(t)}

Remaining_Unclamped(b) == b.goal - b.current        \* mutant
Remaining(b) == IF b.goal > b.current THEN b.goal - b.current ELSE 0

\* _getSumCount: values are taken from the end, the emptiest bucket first.
\* The result carries the depth reached, which the branches share.
RECURSIVE SumCount(_, _, _, _, _, _)
SumCount(values, buckets, totalRemaining, valueLeft, maxDepth, depth) ==
  LET open == SelectSeq(buckets, LAMBDA b : b.current < b.goal)
      sorted == SortSeq(open, LAMBDA a, b : Remaining(a) > Remaining(b))
      last == Last(values)
      RECURSIVE Try(_, _)
      Try(k, d) ==
        IF k > Len(sorted) THEN [result |-> "False", depth |-> d]
        ELSE LET filled == [sorted[k] EXCEPT !.current = @ + last]
                 res == SumCount(Front(values), [sorted EXCEPT ![k] = filled],
                          (totalRemaining - Remaining(sorted[k]) + Remaining(filled)) % Word,
                          valueLeft - last, maxDepth, d)
             IN IF res.result # "False" THEN res ELSE Try(k + 1, res.depth)
  IN CASE totalRemaining > valueLeft -> [result |-> "False", depth |-> depth]
       [] totalRemaining <= valueLeft /\ open = <<>> -> [result |-> "True", depth |-> depth]
       [] totalRemaining <= valueLeft /\ open # <<>> /\ values = <<>> ->
            [result |-> "False", depth |-> depth]
       [] OTHER -> IF maxDepth # 0 /\ depth + 1 > maxDepth
                   THEN [result |-> "Timeout", depth |-> depth + 1]
                   ELSE Try(1, depth + 1)

SumSeqOf(s) == FoldSeq(LAMBDA x, acc : x + acc, 0, s)
GetSumCount(values, goals, maxDepth) ==
  SumCount(SortSeq(values, LAMBDA a, b : a < b),
           [k \in DOMAIN goals |->
              [current |-> 0, goal |-> SortSeq(goals, LAMBDA a, b : a > b)[k]]],
           SumSeqOf(goals) % Word, SumSeqOf(values), maxDepth, 0).result

\* values per input address
InputValues(t) ==
  LET addresses == SetToSeq(InputAddresses(t))
  IN [k \in DOMAIN addresses |->
        Total({p \in Inputs(t) : Input(p).address = addresses[k]}, InputValue)]

MaxPossibleFee(minBaseFee, percentage, goal) == Max({minBaseFee, (goal * percentage) \div 100})

ExtraGoals(t, goal, fee) ==
  LET others == SelectSeq(Tx(t).outputs, LAMBDA o : o.value # goal)
      goals == [j \in 1 .. Participants(t) |->
                  goal + IF j \in DOMAIN others THEN others[j].value ELSE 0]
  IN [j \in DOMAIN goals |-> IF fee > goals[j] THEN 0 ELSE goals[j] - fee]

IsCoinjoinExtra(t, minBaseFee, percentage, maxDepth) ==
  LET vals == {OutputValue(p) : p \in Outputs(t)}
      paid(v) == Cardinality({Output(p).address : p \in {p \in Outputs(t) : OutputValue(p) = v}})
      result(v) ==
        IF paid(v) # Participants(t) \/ v \in Dust THEN "False"
        ELSE GetSumCount(InputValues(t),
               ExtraGoals(t, v, MaxPossibleFee(minBaseFee, percentage, v)), maxDepth)
  IN IF ~MayBeCoinjoin(t) THEN {"False"} ELSE {result(v) : v \in Largest(vals, paid)}

IsPossibleCoinjoin(t, minBaseFee, percentage, maxDepth) ==
  LET vals == {OutputValue(p) : p \in Outputs(t)}
      unknown == {p \in Outputs(t) : Output(p).address \notin InputAddresses(t)}
      count(v) == Cardinality({p \in unknown : OutputValue(p) = v})
      \* the goal is 0 only for the value 0: a larger fee wraps around
      goal(v) == IF v > 0 THEN (v - MaxPossibleFee(minBaseFee, percentage, v)) % Word ELSE 0
      result(v) ==
        IF count(v) = 1 THEN "False"
        ELSE GetSumCount(InputValues(t), <<goal(v), goal(v)>>, maxDepth)
  IN IF \/ Len(Tx(t).outputs) = 1 \/ Len(Tx(t).inputs) = 1
        \/ \A v \in vals : Count(t, v) = 1
        \/ Cardinality(InputAddresses(t)) = 1
        \/ Cardinality(unknown) <= 1
     THEN {"False"}
     ELSE {result(v) : v \in Largest({OutputValue(p) : p \in unknown}, count)}

-----------------------------------------------------------------------------
(* Transactions that tell something of their sender.                       *)

IsDeanonTx(t) ==
  LET types == {Input(p).address.type : p \in Inputs(t)} IN
  /\ ~IsCoinbase(t) /\ Len(Tx(t).outputs) # 1
  /\ Cardinality(types) = 1
  /\ Cardinality({p \in Outputs(t) : Output(p).address.type \in types}) = 1

RECURSIVE GetInsidePointer(_)
GetInsidePointer(a) ==
  IF a = None \/ a.type # "SCRIPTHASH" THEN a ELSE GetInsidePointer(Wrapped[a])

\* what DetailedType compares; NaN-like: no script hash of unknown content
\* equals anything, itself included
DetailedType(a) ==
  LET inside == GetInsidePointer(a) IN
  IF inside = None THEN [main |-> a.type, sub |-> "NONSTANDARD", known |-> FALSE, m |-> <<0, 0>>]
  ELSE [main |-> a.type, sub |-> inside.type, known |-> TRUE,
        m |-> IF inside.type = "MULTISIG"
              THEN <<Required[inside], Cardinality(Keys[inside])>> ELSE <<0, 0>>]
SameType(x, y) ==
  /\ x.main = y.main /\ x.sub = y.sub /\ x.m = y.m
  /\ x.main = "SCRIPTHASH" => x.known /\ y.known
\* all elements end up as one entry of the unordered_set
OneType(addrs) ==
  \A i, j \in DOMAIN addrs :
    i # j => SameType(DetailedType(addrs[i]), DetailedType(addrs[j]))

AddressesOf(inouts) == [k \in DOMAIN inouts |-> inouts[k].address]
IsChangeOverTx(t) ==
  /\ ~IsCoinbase(t)
  /\ OneType(AddressesOf(Tx(t).outputs)) /\ OneType(AddressesOf(Tx(t).inputs))
  /\ ~SameType(DetailedType(Tx(t).outputs[1].address), DetailedType(Tx(t).inputs[1].address))

Multisigs(inouts) ==
  {a \in {GetInsidePointer(inouts[k].address) : k \in DOMAIN inouts} \ {None} : a.type = "MULTISIG"}
ContainsKeysetChange(t) ==
  LET out == Multisigs(Tx(t).outputs)
      in == Multisigs(Tx(t).inputs) \ out
  IN ~IsCoinbase(t) /\ \E a \in in, b \in out : Keys[a] \cap Keys[b] # {}
-----------------------------------------------------------------------------
(* Properties, of every transaction that spends something.                 *)

Spends == {t \in AllTxs : ~IsCoinbase(t)}

\* The legacy heuristic (uniqueChangeByLegacyHeuristic) walks the outputs once
\* and gives up early; it names exactly the output that optimal change and
\* client behavior together leave over, in a transaction that pays more than
\* one spendable output and is not taken for a coinjoin.
LegacyChangeIsOptimalAndFresh ==
  \A t \in Spends :
    LET both == ChangeByOptimalChange(t) \cap ChangeByClientChangeAddressBehavior(t)
        many == Cardinality(RemoveOpReturnOutputs(Outputs(t))) > 1
    IN \A c \in UniqueChangeByLegacyHeuristic(t) :
         /\ c # Null => c = both /\ FALSE \in IsCoinjoin(t)
         /\ c = Null => TRUE \in IsCoinjoin(t) \/ ~many \/ Cardinality(both) # 1

\* isDeanonTx and the address type heuristic (changeByAddressType), two loops
\* over the same types, agree: a transaction with several outputs gives its
\* change away exactly if one output has the type of all inputs.
DeanonAgreesWithAddressType ==
  \A t \in Spends :
    IsDeanonTx(t) <=> Len(Tx(t).outputs) > 1 /\ SingleOrNullptr(ChangeByAddressType(t)) # Null

\* A peeling chain has at least two links: the neighbour that makes a
\* transaction one (isPeelingChain looks back and ahead) is one itself.
PeelingChainsAreLinked ==
  \A t \in Spends : IsPeelingChain(Len(blocks), t) =>
    \E u \in Spends \ {t} :
      /\ IsPeelingChain(Len(blocks), u)
      /\ \/ u = Tx(t).inputs[1].linkedTxNum \/ t = Tx(u).inputs[1].linkedTxNum

\* Heuristics that look at one thing in different loops (change_address.cpp,
\* tx_identification.cpp) agree with each other: also, an address of an input
\* is never fresh, an output ruled out by its value or by its spender's
\* locktime stays ruled out for more digits and blocks, a transaction that
\* changes over to another type keeps no change of its own, and one that
\* changes keys leaves some input's address.
ChangeHeuristicsAgree ==
  /\ LegacyChangeIsOptimalAndFresh /\ DeanonAgreesWithAddressType /\ PeelingChainsAreLinked
  /\ \A t \in Spends :
       /\ ChangeByAddressReuse(t) \cap ChangeByClientChangeAddressBehavior(t) = {}
       /\ \A d \in 0 .. 1 : ChangeByPowerOfTenValue(t, d) \subseteq ChangeByPowerOfTenValue(t, d + 1)
       /\ \A n \in 1 .. Len(blocks) - 1 : ChangeByLocktime(n + 1, t) \subseteq ChangeByLocktime(n, t)
       /\ ~(IsDeanonTx(t) /\ IsChangeOverTx(t))
       /\ ChangeByPeelingChain(Len(blocks), t) # {} => ~MayBeCoinjoin(t)
       /\ ContainsKeysetChange(t) =>
            ~ (InputAddresses(t) \subseteq {Output(p).address : p \in Outputs(t)})
=============================================================================
