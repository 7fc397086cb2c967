------------------------------ MODULE Segments ------------------------------
(***************************************************************************)
(* How a range of blocks, or of numbers, is cut into segments for threads, *)
(* and how the results of the segments are put together.                   *)
(*                                                                         *)
(* first is the sequence of the blocks' first transactions, and of the end *)
(* of the last block: block h holds first[h + 1] .. first[h + 2] - 1.  A   *)
(* segment is a pair <<begin, end>> of heights, end excluded, or the       *)
(* sequence of its blocks.                                                 *)
(***************************************************************************)
EXTENDS Integers, Sequences, SequencesExt

BlockCount(first) == Len(first) - 1
\* the blocks of a segment, in the order of the cursor
Heights(s) == [k \in 1 .. s[2] - s[1] |-> s[1] + k - 1]

\* std::lower_bound of the blocks begin .. end - 1
LowerBound(first, begin, end, txNum) ==
  CHOOSE h \in begin .. end :
    /\ \A k \in begin .. h - 1 : first[k + 1] < txNum
    /\ h = end \/ first[h + 1] >= txNum

LastOfAll_Dropped(all, segmentCount) ==     \* mutant: the rest is left out
  IF Len(all) - 1 = segmentCount THEN SubSeq(all, 1, segmentCount) ELSE all
\* the rest goes to the last segment when there are enough already
LastOfAll(all, segmentCount) ==
  LET full == Len(all) - 1
  IN IF full # segmentCount THEN all
     ELSE SubSeq(all, 1, full - 1) \o << <<all[full][1], all[full + 1][2]>> >>

\* segmentChainIndexes: the segments of blocks start .. end - 1, none if it fails.
\* The loop reads the block it stands at, which may be the one past the chain;
\* a segment size below 1 keeps the loop where it is.
SegmentChainIndexes(first, start, end, segmentCount) ==
  LET lastTx == first[end + 1]
      total == lastTx - first[start + 1]
      more(h) == (lastTx - first[h + 1]) * segmentCount > total
      next(h) == LowerBound(first, h, end, first[h + 1] + total \div segmentCount)
      cut[h \in start .. end] ==
        IF h = BlockCount(first) \/ (more(h) /\ next(h) = h) THEN [ok |-> FALSE, heads |-> <<>>]
        ELSE IF ~more(h) THEN [ok |-> TRUE, heads |-> <<h>>]
        ELSE LET rest == cut[next(h)] IN [rest EXCEPT !.heads = <<h>> \o @]
      heads == cut[start].heads
      all == [k \in DOMAIN heads |-> <<heads[k], IF k = Len(heads) THEN end ELSE heads[k + 1]>>]
  IN IF cut[start].ok THEN LastOfAll(all, segmentCount) ELSE <<>>

\* segmentChain: the blocks of the same segments
SegmentChain(first, start, end, segmentCount) ==
  LET segments == SegmentChainIndexes(first, start, end, segmentCount)
  IN [k \in DOMAIN segments |-> Heights(segments[k])]

\* segmentBlocks: heights are looked up from transaction 0, whatever the first block
SegmentBlocks(first, start, segmentCount) ==
  LET end == BlockCount(first)
      size == (first[end + 1] - first[start + 1]) \div segmentCount
      at[i \in 0 .. segmentCount - 1] ==
        IF i = 0 THEN start
        ELSE LET from == IF i = 1 THEN 0 ELSE first[at[i - 1] + 1]
             IN LowerBound(first, at[i - 1], end, from + size)
  IN IF \E i \in 1 .. segmentCount - 1 : at[i] = end THEN <<>>   \* reads past the end
     ELSE [i \in 1 .. segmentCount |->
             Heights(<<at[i - 1], IF i = segmentCount THEN end ELSE at[i]>>)]

\* mapReduceBlocksImp: the second half is reduced first
MapReduce(segments, map(_), identity, reduce(_, _)) ==
  LET res[b \in 1 .. Len(segments), e \in 2 .. Len(segments) + 1] ==
        IF e - b = 1 THEN reduce(identity, map(segments[b]))
        ELSE LET mid == b + (e - b) \div 2
             IN reduce(reduce(identity, res[mid, e]), res[b, mid])
  IN res[1, Len(segments) + 1]

\* the transactions of a block
TxsOf(first, h) == [k \in 1 .. first[h + 2] - first[h + 1] |-> first[h + 1] + k - 1]
Concat(x, y) == x \o y

\* mapReduce of a function on blocks, and of one on transactions
Reduced(seq, map(_), identity, reduce(_, _)) ==
  FoldLeft(LAMBDA res, x : reduce(res, map(x)), identity, seq)
MapReduceBlocks(segments, map(_), identity, reduce(_, _)) ==
  MapReduce(segments, LAMBDA s : Reduced(s, map, identity, reduce), identity, reduce)
MapReduceTxs(first, segments, map(_), identity, reduce(_, _)) ==
  MapReduceBlocks(segments, LAMBDA h : Reduced(TxsOf(first, h), map, identity, reduce),
                  identity, reduce)

\* map and filter: what the segments give, one behind the other
MapBlocks(segments, map(_)) ==
  MapReduce(segments, LAMBDA s : [k \in DOMAIN s |-> map(s[k])], <<>>, Concat)
Filter(segments, test(_)) ==
  MapReduce(segments, LAMBDA s : SelectSeq(s, test), <<>>, Concat)
FilterTxs(first, segments, test(_)) ==
  MapReduce(segments,
            LAMBDA s : FlattenSeq([k \in DOMAIN s |-> SelectSeq(TxsOf(first, s[k]), test)]),
            <<>>, Concat)

\* segmentWork of the clusterer: numbers start .. end - 1, handed out per thread;
\* the end of a segment is counted from 0, its begin from start
SegmentWork(start, end, segmentCount) ==
  LET total == end - start
      size == total \div segmentCount
      extra == total % segmentCount
      begin[k \in 1 .. segmentCount + 1] ==
        IF k = 1 THEN 0 ELSE begin[k - 1] + size + (IF k - 1 <= extra THEN 1 ELSE 0)
  IN IF total < segmentCount THEN <<[i \in 1 .. total |-> start + i - 1]>>
     ELSE [k \in 1 .. segmentCount |->
             LET from == begin[k] + start
             IN [i \in 1 .. begin[k + 1] - from |-> from + i - 1]]
=============================================================================
