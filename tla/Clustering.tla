----------------------------- MODULE Clustering -----------------------------
(***************************************************************************)
(* The clusterer: threads link the scripts of script hashes and of         *)
(* transactions in one union-find structure, the sets become numbered      *)
(* clusters, three kinds of files record them, and ClusterManager answers  *)
(* from the files.                                                         *)
(*                                                                         *)
(* The union-find (dset, a submodule) is external: unite reads the roots   *)
(* of its two elements, then attaches one root to the other by a compare-  *)
(* and-swap that fails, and is retried, when it is no root any more.       *)
(***************************************************************************)
EXTENDS Heuristics, Segments

CONSTANTS
  Concurrency,  \* hardware_concurrency()
  WorkSegments, \* segments of segmentWork: 8
  SkippedBlocks \* last blocks of the chain left out: 10

ASSUME ClusterAssumption ==
  /\ Concurrency \in Nat \ {0} /\ WorkSegments \in Nat \ {0} /\ SkippedBlocks \in Nat

VARIABLES
  stage,    \* "chain", "scripthashes", "transactions", "done", "undefined"
  scriptCount, \* how many scripts of each type main finds
  queue,    \* queue[k]: pairs of elements that thread k has still to unite
  roots,    \* roots[k]: the roots that thread k has read, or None
  parent,   \* the union-find
  files     \* cluster_index per type, clusterAddresses, clusterOffsets

cvars == <<stage, scriptCount, queue, roots, parent, files>>
vars == <<ledger, cvars>>

-----------------------------------------------------------------------------
(* Numbering of the scripts.                                               *)

DedupTypes == <<"NONSTANDARD", "PUBKEY", "SCRIPTHASH", "MULTISIG", "NULL_DATA">>

\* a script has a number because the chain pays it, or a script hash or
\* multisig of the chain contains it
Contained ==
  LET paid == {Output(p).address : p \in UNION {Outputs(t) : t \in AllTxs}}
      inside == {Wrapped[a] : a \in paid} \ {None}
  IN paid \cup inside \cup UNION {Keys[a] : a \in paid \cup inside}
Scripts == UNION {{d} \X (1 .. scriptCount[d]) : d \in ToSet(DedupTypes)}
\* scriptStarts
ScriptStart ==
  [d \in ToSet(DedupTypes) |->
     Total({i \in DOMAIN DedupTypes : \E j \in DOMAIN DedupTypes : i < j /\ DedupTypes[j] = d},
           LAMBDA i : scriptCount[DedupTypes[i]])]
Elements == DOMAIN parent
\* link_addresses: the element of a script
Element(s) == ScriptStart[s[1]] + s[2] - 1

-----------------------------------------------------------------------------
(* The pairs to unite.                                                     *)

\* the wrapped address of the script hash with this number, if it is known
ScriptHashPairs(num) ==
  SetToSeq({<<Element(Script(a)), Element(Script(Wrapped[a]))>> :
    a \in {a \in Address : Script(a) = <<"SCRIPTHASH", num>> /\ Wrapped[a] # None}})

\* process_transaction, given what isCoinjoin answers
ProcessTransaction(t, coinjoin) ==
  LET of(inout) == Element(Script(inout.address))
      ins == Tx(t).inputs
      change == SetToSeq(LegacyChange(t))
  IN IF coinjoin \/ IsCoinbase(t) THEN <<>>
     ELSE [k \in 1 .. Len(ins) - 1 |-> <<of(ins[1]), of(ins[k + 1])>>]
          \o [k \in DOMAIN change |-> <<of(Output(change[k])), of(ins[1])>>]

Firsts == Append([h \in DOMAIN blocks |-> blocks[h].firstTxIndex], Len(txs))

ScriptHashQueues ==
  LET work == SegmentWork(1, scriptCount["SCRIPTHASH"] + 1, WorkSegments)
  IN [k \in DOMAIN work |-> FlattenSeq([i \in DOMAIN work[k] |-> ScriptHashPairs(work[k][i])])]

TransactionQueues(segments, coinjoin) ==
  [k \in DOMAIN segments |->
     LET ts == FlattenSeq([i \in DOMAIN segments[k] |-> TxsOf(Firsts, segments[k][i])])
     IN FlattenSeq([i \in DOMAIN ts |-> ProcessTransaction(ts[i], coinjoin[ts[i]])])]

-----------------------------------------------------------------------------
(* The union-find.                                                         *)

Root(x) == LET up[y \in Elements] == IF parent[y] = y THEN y ELSE up[parent[y]] IN up[x]

Idle == \A k \in DOMAIN queue : queue[k] = <<>>

\* unite: read the two roots; nothing is left to do when they are the same
Find(k) ==
  /\ roots[k] = None /\ queue[k] # <<>>
  /\ LET a == Root(Head(queue[k])[1])
         b == Root(Head(queue[k])[2])
     IN IF a = b THEN queue' = [queue EXCEPT ![k] = Tail(@)] /\ UNCHANGED roots
        ELSE roots' = [roots EXCEPT ![k] = <<a, b>>] /\ UNCHANGED queue
  /\ UNCHANGED <<ledger, stage, scriptCount, parent, files>>

Unite_Blind(k) ==
  /\ roots[k] # None
  /\ LET lo == Min(ToSet(roots[k]))
         hi == Max(ToSet(roots[k]))
     IN parent' = [parent EXCEPT ![hi] = lo] /\ queue' = [queue EXCEPT ![k] = Tail(@)]
  /\ roots' = [roots EXCEPT ![k] = None]
  /\ UNCHANGED <<ledger, stage, scriptCount, files>>

\* the compare-and-swap; roots keep an order, so that there is no cycle
Unite(k) ==
  /\ roots[k] # None
  /\ LET lo == Min(ToSet(roots[k]))
         hi == Max(ToSet(roots[k]))
     IN IF parent[hi] = hi
        THEN parent' = [parent EXCEPT ![hi] = lo] /\ queue' = [queue EXCEPT ![k] = Tail(@)]
        ELSE UNCHANGED <<parent, queue>>
  /\ roots' = [roots EXCEPT ![k] = None]
  /\ UNCHANGED <<ledger, stage, scriptCount, files>>

-----------------------------------------------------------------------------
(* The files.                                                              *)

\* remapClusterIds: clusters are numbered in the order they are first met
RemapClusterIds ==
  LET root == [x \in Elements |-> Root(x)]
      first == [x \in Elements |-> Min({y \in Elements : root[y] = root[x]})]
  IN [x \in Elements |-> Cardinality({y \in Elements : first[y] = y /\ y < first[x]})]
ClusterTotal(id) == Cardinality(Range(id))

\* recordOrderedAddresses: types that start at the same element share an
\* entry of typeIndexes, which keeps any one of them
TypeIndexes ==
  {f \in [{ScriptStart[d] : d \in ToSet(DedupTypes)} -> ToSet(DedupTypes)] :
     \A i \in DOMAIN f : ScriptStart[f[i]] = i}
DedupAddressOf(f, x) ==
  LET start == Max({i \in DOMAIN f : i <= x}) IN <<f[start], x - start + 1>>

\* clusterPositions: where a cluster begins in the ordered list; one more entry
Begin(id, c) == Cardinality({x \in Elements : id[x] < c})
Position(id, x) == Begin(id, id[x]) + Cardinality({y \in Elements : id[y] = id[x] /\ y < x})

ClusterOffsets_Begin(id) == [c \in 0 .. ClusterTotal(id) |-> Begin(id, c)]
\* recording advances the positions past their clusters before they are written
ClusterOffsets(id) ==
  [c \in 0 .. ClusterTotal(id) |-> Begin(id, IF c = ClusterTotal(id) THEN c ELSE c + 1)]

Files(f, id) ==
  [index |-> [d \in ToSet(DedupTypes) |->
                [k \in 0 .. scriptCount[d] - 1 |-> id[ScriptStart[d] + k]]],
   addresses |-> [j \in Elements |->
                    DedupAddressOf(f, CHOOSE x \in Elements : Position(id, x) = j)],
   offsets |-> ClusterOffsets(id)]

-----------------------------------------------------------------------------
(* main.                                                                   *)

Init ==
  /\ LedgerInit
  /\ stage = "chain" /\ scriptCount = None /\ queue = <<>> /\ roots = <<>> /\ parent = <<>> /\ files = None

Grow == stage = "chain" /\ LedgerNext /\ UNCHANGED cvars

Start ==
  /\ stage = "chain" /\ Len(blocks) > SkippedBlocks
  /\ LET scripts == {Script(a) : a \in Contained}
     IN /\ scriptCount' = [d \in ToSet(DedupTypes) |-> Cardinality({s \in scripts : s[1] = d})]
        /\ scripts = Scripts' \* the numbers of a type have no gaps
        /\ parent' = [x \in 0 .. Cardinality(scripts) - 1 |-> x]
  /\ stage' = "scripthashes"
  /\ queue' = ScriptHashQueues'
  /\ roots' = [k \in DOMAIN queue' |-> None]
  /\ UNCHANGED <<ledger, files>>

LinkTransactions ==
  /\ stage = "scripthashes" /\ Idle
  /\ LET segments == SegmentChain(Firsts, 0, Len(blocks) - SkippedBlocks, Concurrency)
     IN IF segments = <<>>
        THEN stage' = "undefined" /\ UNCHANGED <<queue, roots>>
        ELSE /\ stage' = "transactions"
             /\ \E ties \in SUBSET {t \in AllTxs : IsCoinjoin(t) = BOOLEAN} :
                  queue' = TransactionQueues(segments,
                    [t \in AllTxs |-> IsCoinjoin(t) = {TRUE} \/ t \in ties])
             /\ roots' = [k \in DOMAIN segments |-> None]
  /\ UNCHANGED <<ledger, scriptCount, parent, files>>

WriteFiles ==
  /\ stage = "transactions" /\ Idle
  /\ stage' = "done"
  /\ LET id == RemapClusterIds IN \E f \in TypeIndexes : files' = Files(f, id)
  /\ UNCHANGED <<ledger, scriptCount, queue, roots, parent>>

Done == (stage \in {"done", "undefined"} \/ Len(txs) = MaxTxs) /\ UNCHANGED vars

Thread(k) == Find(k) \/ Unite(k)

Next ==
  \/ Grow \/ Start \/ LinkTransactions \/ WriteFiles \/ Done
  \/ \E k \in DOMAIN queue : Thread(k)

Spec == Init /\ [][Next]_vars

-----------------------------------------------------------------------------
(* ClusterManager.                                                         *)

GetClusterNum(s) == files.index[s[1]][s[2] - 1]
ClusterCount == Cardinality(DOMAIN files.offsets)
OffsetBefore(c) == IF c > 0 THEN files.offsets[c - 1] ELSE 0
GetClusterSize(c) == files.offsets[c] - OffsetBefore(c)
GetClusterScripts(c) == {files.addresses[j] : j \in OffsetBefore(c) .. files.offsets[c] - 1}
GetClusterSizes == [c \in DOMAIN files.offsets |-> GetClusterSize(c)]

\* Cluster: the addresses of its scripts that were paid, in each of their forms,
\* and what the outputs that paid them are worth
Exists(a) == OutputPointers(a) # {}
GetAddresses(c) == {a \in Address : Script(a) \in GetClusterScripts(c) /\ Exists(a)}
CountOfType(c, type) ==
  Cardinality({s \in GetClusterScripts(c) :
    /\ s[1] = DedupType(type)
    /\ \E a \in Address : a = [scriptNum |-> s[2], type |-> type] /\ Exists(a)})
ClusterOutputPointers(c) == UNION {OutputPointers(a) : a \in GetAddresses(c)}
ClusterBalance(c, height) == CalculateBalance(Len(blocks), ClusterOutputPointers(c), height)

-----------------------------------------------------------------------------
(* Properties.                                                             *)

\* links that the clusterer is meant to make; surely, or if a tie or a cut allows it
Pairs(sure) ==
  UNION {ToSet(ScriptHashPairs(s[2])) : s \in {s \in Scripts : s[1] = "SCRIPTHASH"
           /\ (sure => scriptCount["SCRIPTHASH"] < WorkSegments)}}
  \cup UNION {ToSet(ProcessTransaction(t, FALSE)) :
        t \in {t \in 0 .. Firsts[Len(blocks) - SkippedBlocks + 1] - 1 :
                 IF sure THEN TRUE \notin IsCoinjoin(t) ELSE FALSE \in IsCoinjoin(t)}}

G == INSTANCE Graphs
Connected(pairs) ==
  G!ConnectionsIn([node |-> Elements, edge |-> pairs \cup {<<p[2], p[1]>> : p \in pairs}])

\* Threads that unite concurrently (link_addresses from segmentWork and
\* mapReduce) lose no link and make none up: scripts share a cluster only if a
\* chain of script hashes and transactions links them, and all that are so
\* linked do, as long as the script hashes are too few for segmentWork to cut.
ClustersAreComponents ==
  stage = "done" =>
    LET may == Connected(Pairs(FALSE))
        must == Connected(Pairs(TRUE))
    IN \A s, u \in Scripts :
         /\ GetClusterNum(s) = GetClusterNum(u) => may[Element(s), Element(u)]
         /\ must[Element(s), Element(u)] => GetClusterNum(s) = GetClusterNum(u)

\* types that start at one element, where typeIndexes forgets one of them
Shared(d) ==
  \E e \in ToSet(DedupTypes) \ {d} :
    ScriptStart[e] = ScriptStart[d] /\ scriptCount[e] + scriptCount[d] > 0

\* What ClusterManager reads from three files agrees, for all clusters that
\* clusterCount() reports: the offsets give a cluster as many scripts as the
\* index files do, which is none for the last one (clusterPositions has one
\* entry more than there are clusters) and at least one for the others; the
\* scripts listed for a cluster are those whose index entry names it, for every
\* type that recordOrderedAddresses can tell from an empty one before it; and
\* if it can tell all types apart, the clusters share out all addresses and, at
\* every height, all the money.
ClusterFilesAgree ==
  stage = "done" =>
    LET clusters == 0 .. ClusterCount - 1
        all == UNION {OutputPointers(a) : a \in Address}
        told == {d \in ToSet(DedupTypes) : ~Shared(d)}
    IN /\ \A c \in clusters :
            /\ GetClusterSize(c) = Cardinality({s \in Scripts : GetClusterNum(s) = c})
            /\ GetClusterSize(c) = Cardinality(GetClusterScripts(c))
            /\ GetClusterSize(c) = 0 <=> c = ClusterCount - 1
            /\ {s \in GetClusterScripts(c) : s[1] \in told}
                 = {s \in Scripts : s[1] \in told /\ GetClusterNum(s) = c}
       /\ \A type \in {a.type : a \in {a \in Address : DedupType(a.type) \in told}} :
            Total(clusters, LAMBDA c : CountOfType(c, type))
              = Cardinality({a \in Address : a.type = type /\ Exists(a)})
       /\ told = ToSet(DedupTypes) =>
            \A height \in DOMAIN blocks :
              Total(clusters, LAMBDA c : ClusterBalance(c, height))
                = CalculateBalance(Len(blocks), all, height)
=============================================================================
