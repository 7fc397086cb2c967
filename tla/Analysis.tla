------------------------------ MODULE Analysis -------------------------------
(***************************************************************************)
(* A chain that grows transaction by transaction, with the queries, the    *)
(* heuristics and the segments computed on every chain reached.            *)
(***************************************************************************)
EXTENDS Heuristics, Segments

\* getTransactionIncludingOutput, and the statistics of a block
GetTransactionIncludingOutput(first, segments, type) ==
  FilterTxs(first, segments, LAMBDA t : \E p \in Outputs(t) : Output(p).address.type = type)
TransactionStatistics(first, h) == Reduced(TxsOf(first, h), SummaryOf, NoTransactions, Plus)

Spec == LedgerInit /\ [][LedgerNext]_ledger

(***************************************************************************)
(* getSumCount is exact: the search, which drops a branch when too little  *)
(* value is left and fills the emptiest bucket first, finds a way to       *)
(* distribute the inputs such that every goal is reached exactly if there  *)
(* is one.  With a limit on its depth, isCoinjoinExtra and                 *)
(* isPossibleCoinjoin answer the same or that they gave up; and a fee that *)
(* isCoinjoinExtra allows for, which lowers the goals, loses no coinjoin.  *)
(***************************************************************************)
SumCountIsExact ==
  \A t \in Spends :
    /\ \A extra \in 0 .. 1 :
         LET values == [k \in DOMAIN Tx(t).inputs |-> Tx(t).inputs[k].value]
             goals == [k \in DOMAIN Tx(t).outputs |->
                         Tx(t).outputs[k].value + IF k = 1 THEN extra ELSE 0]
             reached(f, j) == Total({i \in DOMAIN values : f[i] = j}, LAMBDA i : values[i]) >= goals[j]
         IN GetSumCount(values, goals, 0) = "True"
            <=> \E f \in [DOMAIN values -> DOMAIN goals] : \A j \in DOMAIN goals : reached(f, j)
    /\ \A fee \in 0 .. 1, depth \in 1 .. 2 :
         /\ IsCoinjoinExtra(t, fee, 0, depth) \subseteq IsCoinjoinExtra(t, fee, 0, 0) \cup {"Timeout"}
         /\ IsPossibleCoinjoin(t, fee, 0, depth)
              \subseteq IsPossibleCoinjoin(t, fee, 0, 0) \cup {"Timeout"}
    /\ "True" \in IsCoinjoinExtra(t, 0, 0, 0) => "True" \in IsCoinjoinExtra(t, 1, 0, 0)

(***************************************************************************)
(* Segments partition the chain: when segmentChain and segmentBlocks come  *)
(* to an end, their segments hold every block once, in order; those of     *)
(* segmentChain but the last have their share of the transactions (rounded *)
(* down: there may be more segments than asked for); and mapping, reducing *)
(* and filtering by segments, which puts the results together pairwise and *)
(* the later ones first, meets every block and transaction once.           *)
(***************************************************************************)
SegmentsPartitionTheChain ==
  LET first == [k \in 1 .. Len(blocks) |-> blocks[k].firstTxIndex] \o <<Len(txs)>>
      chain(start, end) == Heights(<<start, end>>)
      size(s) == first[s[2] + 1] - first[s[1] + 1]
      sorted(s) == SortSeq(s, LAMBDA x, y : x < y)
      odd(h) == h % 2 = 1
  IN \A start \in AllBlocks, count \in 1 .. 3 :
       LET byBlocks == SegmentBlocks(first, start, count)
       IN /\ byBlocks # <<>> => FlattenSeq(byBlocks) = chain(start, Len(blocks)) /\ Len(byBlocks) = count
          /\ \A end \in start + 1 .. Len(blocks) :
               LET segments == SegmentChain(first, start, end, count)
                   ts == first[start + 1] .. first[end + 1] - 1
                   data == {t \in ts : \E p \in Outputs(t) : Output(p).address.type = "NULL_DATA"}
               IN segments # <<>> =>
                    /\ FlattenSeq(segments) = chain(start, end)
                    /\ \A s \in ToSet(Front(SegmentChainIndexes(first, start, end, count))) :
                         size(s) >= size(<<start, end>>) \div count
                    /\ sorted(Filter(segments, odd)) = SelectSeq(chain(start, end), odd)
                    /\ sorted(MapBlocks(segments, LAMBDA h : h)) = chain(start, end)
                    /\ sorted(GetTransactionIncludingOutput(first, segments, "NULL_DATA"))
                         = sorted(SetToSeq(data))
                    /\ {MapReduceTxs(first, segments, SummaryOf, NoTransactions, Plus),
                        MapReduceBlocks(segments, LAMBDA h : TransactionStatistics(first, h),
                                        NoTransactions, Plus)}
                         = {TransactionSummary(InputCount(ts), OutputCount(ts), Cardinality(ts),
                              Total(UNION {Outputs(t) : t \in ts}, OutputValue))}
=============================================================================
