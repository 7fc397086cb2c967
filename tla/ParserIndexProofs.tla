-------------------------- MODULE ParserIndexProofs --------------------------
(***************************************************************************)
(* Proofs about the columns of the hash index and of the address index:    *)
(* what they have for transactions, witness scripts, outputs and nested    *)
(* scripts, while the chain grows, is rolled back, and updates are killed; *)
(* and about the equivalent addresses that are looked up in them.          *)
(***************************************************************************)
EXTENDS ParserIndex, TLAPS, SequenceTheorems, FiniteSetTheorems, WellFoundedInduction

RunFields == {"ix", "tx", "multisig", "txCount", "multisigs"}

TypeInv ==
  /\ chain \in Seq(Tx) /\ cut \in BOOLEAN
  /\ DOMAIN latest = Indexes /\ \A ix \in Indexes : latest[ix].txCount \in Nat

(* The chain stands still while an update runs.                            *)
RunInv ==
  run # Idle =>
    /\ DOMAIN run = RunFields /\ run.ix \in Indexes
    /\ run.tx \in Nat /\ run.txCount = Len(chain)

(* No transaction is in the chain twice.                                   *)
DistinctInv == \A i, j \in 1..Len(chain) : chain[i] = chain[j] => i = j

TxEntry(i) == <<chain[i], i - 1>>

(* The column has nothing but transactions of the chain ...                *)
UpperInv == \A e \in txs : \E i \in 1..Len(chain) : e = TxEntry(i)

(* ... and, until a rollback, all up to where the index is.                *)
LowerInv ==
  ~cut =>
    /\ latest["hash"].txCount <= Len(chain)
    /\ \A i \in 1..latest["hash"].txCount : TxEntry(i) \in txs
    /\ run # Idle /\ run.ix = "hash" =>
         run.tx <= Len(chain) /\ \A i \in 1..run.tx : TxEntry(i) \in txs

HashInv == TypeInv /\ RunInv /\ DistinctInv /\ UpperInv /\ LowerInv

-----------------------------------------------------------------------------
(* Putting one transaction under its hash loses no other.                  *)
LEMMA PutTx ==
  ASSUME TypeInv, DistinctInv, UpperInv, NEW i \in 1..Len(chain),
         txs' = Put(txs, TxOf(i)), chain' = chain
  PROVE  UpperInv' /\ txs \subseteq txs' /\ TxEntry(i) \in txs'
<1>1. TxOf(i) = {TxEntry(i)}
  BY DEF TxOf, TxEntry
<1>2. \A e : e \in txs' <=> (e \in txs /\ TxEntry(i)[1] # e[1]) \/ e = TxEntry(i)
  BY <1>1 DEF Put
<1>3. ASSUME NEW e \in txs, TxEntry(i)[1] = e[1]
      PROVE  e = TxEntry(i)
  <2>1. PICK j \in 1..Len(chain) : e = TxEntry(j)
    BY DEF UpperInv
  <2>2. chain[i] = chain[j]
    BY <1>3, <2>1 DEF TxEntry
  <2> QED
    BY <2>1, <2>2 DEF DistinctInv
<1> QED
  BY <1>2, <1>3 DEF UpperInv, TxEntry

(* The chain as a sequence of different transactions.                      *)
LEMMA ChainFacts ==
  ASSUME TypeInv
  PROVE  Len(chain) \in Nat /\ DOMAIN chain = 1..Len(chain)
BY LenProperties DEF TypeInv

(* The chain grows.                                                        *)
LEMMA AddTxStep ==
  ASSUME HashInv, NEW t \in Tx, AddTx(t)
  PROVE  HashInv'
<1>1. /\ TypeInv /\ RunInv /\ DistinctInv /\ UpperInv /\ LowerInv
      /\ Len(chain) \in Nat /\ DOMAIN chain = 1..Len(chain)
  BY ChainFacts DEF HashInv
<1>2. /\ run = Idle /\ t \notin Range(chain) /\ chain' = Append(chain, t)
      /\ UNCHANGED <<latest, run, txs, cut>>
  BY DEF AddTx, db
<1>3. /\ chain' \in Seq(Tx) /\ Len(chain') = Len(chain) + 1
      /\ (\A i \in 1..Len(chain) : chain'[i] = chain[i]) /\ chain'[Len(chain) + 1] = t
  BY <1>1, <1>2, AppendProperties DEF TypeInv
<1>4. \A i \in 1..Len(chain) : chain[i] # t
  BY <1>1, <1>2 DEF Range
<1>5. /\ \A i \in 1..Len(chain') : i \in 1..Len(chain) \/ i = Len(chain) + 1
      /\ \A i \in 1..Len(chain) : i \in 1..Len(chain') /\ TxEntry(i)' = TxEntry(i)
  BY <1>1, <1>3 DEF TxEntry
<1>6. TypeInv' /\ RunInv'
  BY <1>1, <1>2, <1>3 DEF TypeInv, RunInv
<1>7. DistinctInv'
  BY <1>1, <1>3, <1>4, <1>5 DEF DistinctInv
<1>8. UpperInv'
  BY <1>1, <1>2, <1>5 DEF UpperInv
<1>9. LowerInv'
  <2> SUFFICES ASSUME ~cut
               PROVE  /\ latest["hash"].txCount <= Len(chain')
                      /\ \A i \in 1..latest["hash"].txCount : TxEntry(i)' \in txs
    BY <1>2 DEF LowerInv
  <2>1. /\ latest["hash"].txCount <= Len(chain) /\ latest["hash"].txCount \in Nat
        /\ \A i \in 1..latest["hash"].txCount : TxEntry(i) \in txs
    BY <1>1 DEF LowerInv, TypeInv, Indexes
  <2>2. \A i \in 1..latest["hash"].txCount : i \in 1..Len(chain)
    BY <1>1, <2>1
  <2> QED
    BY <1>1, <1>3, <1>5, <2>1, <2>2
<1> QED
  BY <1>6, <1>7, <1>8, <1>9 DEF HashInv

(* A rollback deletes the transactions from number n on.                   *)
LEMMA RollbackStep ==
  ASSUME HashInv, NEW n \in 0..(Len(chain) - 1), Rollback(n)
  PROVE  HashInv'
<1>1. /\ TypeInv /\ RunInv /\ DistinctInv /\ UpperInv
      /\ Len(chain) \in Nat
  BY ChainFacts DEF HashInv
<1>2. /\ run = Idle /\ chain' = SubSeq(chain, 1, n) /\ txs' = txs \ DeletedTx(n)
      /\ cut' = TRUE /\ UNCHANGED <<latest, run>>
  BY DEF Rollback
<1>3. n \in Nat /\ n <= Len(chain) /\ \A i \in 1..n : i \in 1..Len(chain)
  BY <1>1
<1>4. /\ chain' \in Seq(Tx) /\ Len(chain') = n
      /\ \A i \in 1..n : chain'[i] = chain[i]
  <2>1. \A i \in 1..n : chain[i] \in Tx
    BY <1>1, <1>3, ElementOfSeq DEF TypeInv
  <2>2. /\ chain' \in Seq(Tx) /\ Len(chain') = IF 1 <= n THEN n - 1 + 1 ELSE 0
        /\ \A i \in 1..(n - 1 + 1) : chain'[i] = chain[1 + i - 1]
    BY <1>2, <1>3, <2>1, SubSeqProperties
  <2>3. n - 1 + 1 = n /\ \A i \in 1..n : 1 + i - 1 = i
    BY <1>3
  <2> QED
    BY <1>3, <2>2, <2>3
<1>5. TypeInv' /\ RunInv' /\ LowerInv'
  BY <1>1, <1>2, <1>4 DEF TypeInv, RunInv, LowerInv
<1>6. DistinctInv'
  BY <1>1, <1>3, <1>4 DEF DistinctInv
<1>7. UpperInv'
  <2> SUFFICES ASSUME NEW e \in txs' PROVE \E i \in 1..Len(chain') : e = TxEntry(i)'
    BY DEF UpperInv
  <2>1. e \in txs /\ ~(e[2] >= n)
    BY <1>2 DEF DeletedTx
  <2>2. PICK i \in 1..Len(chain) : e = TxEntry(i)
    BY <1>1, <2>1 DEF UpperInv
  <2>3. e[2] = i - 1
    BY <2>2 DEF TxEntry
  <2>4. i \in 1..n
    BY <1>1, <1>3, <2>1, <2>3
  <2> QED
    BY <1>4, <2>2, <2>4 DEF TxEntry
<1> QED
  BY <1>5, <1>6, <1>7 DEF HashInv

(* An update begins, ends or is killed.                                    *)
LEMMA UpdateStep ==
  ASSUME HashInv, (\E ix \in Indexes : StartUpdate(ix)) \/ FinishUpdate \/ Kill
                  \/ ProcessScript \/ UNCHANGED vars
  PROVE  HashInv'
<1>1. /\ TypeInv /\ RunInv /\ DistinctInv /\ UpperInv /\ LowerInv
      /\ Len(chain) \in Nat
  BY ChainFacts DEF HashInv
<1>2. UNCHANGED <<chain, txs, cut>>
  BY DEF StartUpdate, FinishUpdate, Kill, ProcessScript, vars, db
<1>3. DistinctInv' /\ UpperInv' /\ \A i : TxEntry(i)' = TxEntry(i)
  BY <1>1, <1>2 DEF DistinctInv, UpperInv, TxEntry
<1>4. TypeInv' /\ RunInv' /\ LowerInv'
  <2>1. ASSUME NEW ix \in Indexes, StartUpdate(ix)
        PROVE  TypeInv' /\ RunInv' /\ LowerInv'
    <3>1. /\ UNCHANGED latest
          /\ run' = [ix |-> ix, tx |-> latest[ix].txCount, multisig |-> latest[ix].multisigs,
                     txCount |-> Len(chain), multisigs |-> Len(scripts["MULTISIG"])]
      BY <2>1 DEF StartUpdate
    <3>2. TypeInv'
      BY <1>1, <1>2, <3>1 DEF TypeInv
    <3>3. RunInv'
      BY <1>1, <1>2, <3>1 DEF RunInv, RunFields, TypeInv
    <3>4. LowerInv'
      BY <1>1, <1>2, <1>3, <3>1 DEF LowerInv
    <3> QED
      BY <3>2, <3>3, <3>4
  <2>2. CASE FinishUpdate
    <3>1. /\ run # Idle /\ run.tx >= run.txCount /\ run' = Idle
          /\ latest' = [latest EXCEPT ![run.ix] =
               [txCount |-> run.txCount, multisigs |-> run.multisigs]]
      BY <2>2 DEF FinishUpdate
    <3>2. run.ix \in Indexes /\ run.tx \in Nat /\ run.txCount = Len(chain)
      BY <1>1, <3>1 DEF RunInv
    <3>3. /\ DOMAIN latest' = Indexes
          /\ \A ix \in Indexes : latest'[ix].txCount = IF ix = run.ix THEN Len(chain)
                                                       ELSE latest[ix].txCount
      BY <1>1, <3>1, <3>2 DEF TypeInv
    <3>4. TypeInv' /\ RunInv'
      BY <1>1, <1>2, <3>1, <3>3 DEF TypeInv, RunInv
    <3>5. LowerInv'
      <4>1. CASE run.ix = "hash"
        <5>1. ~cut => run.tx = Len(chain)
          BY <1>1, <3>1, <3>2, <4>1 DEF LowerInv
        <5>2. latest'["hash"].txCount = Len(chain)
          BY <3>3, <4>1 DEF Indexes
        <5> QED
          BY <1>1, <1>2, <1>3, <3>1, <4>1, <5>1, <5>2 DEF LowerInv
      <4>2. CASE run.ix # "hash"
        <5>1. latest'["hash"].txCount = latest["hash"].txCount
          BY <3>3, <4>2 DEF Indexes
        <5> QED
          BY <1>1, <1>2, <1>3, <3>1, <5>1 DEF LowerInv
      <4> QED
        BY <4>1, <4>2
    <3> QED
      BY <3>4, <3>5
  <2>3. CASE Kill
    BY <1>1, <1>2, <1>3, <2>3 DEF Kill, TypeInv, RunInv, LowerInv
  <2>4. CASE ProcessScript
    <3>1. /\ run # Idle /\ run.ix = "address" /\ UNCHANGED latest
          /\ run' = [run EXCEPT !.multisig = @ + 1]
      BY <2>4 DEF ProcessScript
    <3>2. DOMAIN run = RunFields /\ run.tx \in Nat /\ run.txCount = Len(chain)
      BY <1>1, <3>1 DEF RunInv
    <3>3. /\ DOMAIN run' = RunFields /\ run'.tx = run.tx /\ run'.txCount = run.txCount
          /\ run'.ix = run.ix
      BY <3>1, <3>2 DEF RunFields
    <3> QED
      BY <1>1, <1>2, <1>3, <3>1, <3>2, <3>3 DEF TypeInv, RunInv, LowerInv, Indexes
  <2>5. CASE UNCHANGED vars
    BY <1>1, <1>2, <1>3, <2>5 DEF vars, TypeInv, RunInv, LowerInv
  <2> QED
    BY <2>1, <2>2, <2>3, <2>4, <2>5
<1> QED
  BY <1>3, <1>4 DEF HashInv

(* One transaction is processed.                                           *)
LEMMA ProcessTxStep ==
  ASSUME HashInv, ProcessTx
  PROVE  HashInv'
<1>1. /\ TypeInv /\ RunInv /\ DistinctInv /\ UpperInv /\ LowerInv
      /\ Len(chain) \in Nat
  BY ChainFacts DEF HashInv
<1>2. /\ run # Idle /\ run.tx < run.txCount /\ run' = [run EXCEPT !.tx = @ + 1]
      /\ UNCHANGED <<chain, latest, cut>>
      /\ run.ix = "hash" => txs' = Put(txs, TxOf(run.tx + 1))
      /\ run.ix # "hash" => txs' = txs
  BY DEF ProcessTx
<1>3. /\ DOMAIN run = RunFields /\ run.ix \in Indexes
      /\ run.tx \in Nat /\ run.txCount = Len(chain)
  BY <1>1, <1>2 DEF RunInv
<1>4. /\ DOMAIN run' = RunFields /\ run'.tx = run.tx + 1 /\ run'.txCount = run.txCount
      /\ run'.ix = run.ix
  BY <1>2, <1>3 DEF RunFields
<1>5. TypeInv' /\ RunInv' /\ DistinctInv' /\ \A i : TxEntry(i)' = TxEntry(i)
  BY <1>1, <1>2, <1>3, <1>4 DEF TypeInv, RunInv, DistinctInv, TxEntry
<1>6. CASE run.ix = "hash"
  <2> DEFINE n == run.tx + 1
  <2>1. n \in 1..Len(chain)
    BY <1>1, <1>2, <1>3
  <2>2. txs' = Put(txs, TxOf(n))
    BY <1>2, <1>6
  <2>3. \A i \in 1..n : i \in 1..run.tx \/ i = n
    BY <1>3
  <2> HIDE DEF n
  <2>4. UpperInv' /\ txs \subseteq txs' /\ TxEntry(n) \in txs'
    BY <1>1, <1>2, <2>1, <2>2, PutTx
  <2>5. LowerInv'
    <3>1. run'.tx = n
      BY <1>4 DEF n
    <3>2. ~cut => \A i \in 1..n : TxEntry(i) \in txs'
      BY <1>1, <1>2, <1>6, <2>3, <2>4 DEF LowerInv
    <3>3. n <= Len(chain)
      BY <1>1, <2>1
    <3> QED
      BY <1>1, <1>2, <1>5, <2>4, <3>1, <3>2, <3>3 DEF LowerInv
  <2> QED
    BY <1>5, <2>4, <2>5 DEF HashInv
<1>7. CASE run.ix # "hash"
  BY <1>1, <1>2, <1>4, <1>5, <1>7 DEF HashInv, UpperInv, LowerInv
<1> QED
  BY <1>6, <1>7

(* The inductive invariant of the hash column.                             *)
THEOREM HashInvariance == Spec => []HashInv
<1>1. Init => HashInv
  <2> SUFFICES ASSUME Init PROVE HashInv
    OBVIOUS
  <2>1. chain = << >> /\ run = Idle /\ txs = {} /\ cut = FALSE
        /\ latest = [ix \in Indexes |-> [txCount |-> 0, multisigs |-> 0]]
    BY DEF Init
  <2>2. chain \in Seq(Tx) /\ Len(chain) = 0
    BY <2>1, EmptySeq
  <2>3. DOMAIN latest = Indexes /\ \A ix \in Indexes : latest[ix].txCount = 0
    BY <2>1
  <2>4. latest["hash"].txCount = 0
    BY <2>3 DEF Indexes
  <2>5. TypeInv
    BY <2>1, <2>2, <2>3 DEF TypeInv
  <2>6. RunInv
    BY <2>1 DEF RunInv
  <2>7. 1..0 = {}
    OBVIOUS
  <2>8. DistinctInv
    BY <2>2, <2>7, Zenon DEF DistinctInv
  <2>9. UpperInv
    BY <2>1, Zenon DEF UpperInv
  <2>10. LowerInv
    BY <2>1, <2>2, <2>4 DEF LowerInv
  <2> QED
    BY <2>5, <2>6, <2>8, <2>9, <2>10, Zenon DEF HashInv
<1>2. HashInv /\ [Next]_vars => HashInv'
  BY AddTxStep, RollbackStep, UpdateStep, ProcessTxStep DEF Next, Done
<1> QED
  BY <1>1, <1>2, PTL DEF Spec

(* A transaction hash that HashIndex finds leads to the transaction that   *)
(* has it, after a rollback too.                                           *)
THEOREM HashesLeadToTheirTx == Spec => []HashesNameTheirTx
<1>1. HashInv => HashesNameTheirTx
  <2> SUFFICES ASSUME HashInv, NEW e \in txs
               PROVE  e[2] + 1 \in DOMAIN chain /\ chain[e[2] + 1] = e[1]
    BY DEF HashesNameTheirTx
  <2>1. Len(chain) \in Nat /\ DOMAIN chain = 1..Len(chain)
    BY ChainFacts DEF HashInv
  <2>2. PICK i \in 1..Len(chain) : e = TxEntry(i)
    BY DEF HashInv, UpperInv
  <2>3. e[1] = chain[i] /\ e[2] + 1 = i
    BY <2>1, <2>2 DEF TxEntry
  <2> QED
    BY <2>1, <2>3
<1> QED
  BY HashInvariance, <1>1, PTL

(* While the chain only grows, the column has at least what a rebuild up   *)
(* to latestState would give and at most what one of the whole chain would *)
(* give: updates that were killed are made up for by the next one.         *)
THEOREM TxsAreRebuilt == Spec => []TxsMatchRebuild
<1>1. HashInv => TxsMatchRebuild
  <2> SUFFICES ASSUME HashInv, ~cut
               PROVE  Between(TxEntries(latest["hash"].txCount), txs, TxEntries(Len(chain)))
    BY DEF TxsMatchRebuild
  <2>1. \A n : TxEntries(n) = {TxEntry(i) : i \in 1..n}
    BY DEF TxEntries, TxOf, TxEntry
  <2>2. TxEntries(latest["hash"].txCount) \subseteq txs
    BY <2>1 DEF HashInv, LowerInv
  <2>3. txs \subseteq TxEntries(Len(chain))
    BY <2>1 DEF HashInv, UpperInv
  <2> QED
    BY <2>2, <2>3 DEF Between
<1> QED
  BY HashInvariance, <1>1, PTL

-----------------------------------------------------------------------------
(* Counting.  The elements of a finite set of numbers that are below one   *)
(* of them are fewer than all, and fewer below a smaller one.              *)
LEMMA RankFacts ==
  ASSUME NEW L \in Nat, NEW S, S \subseteq 1..L
  PROVE  /\ IsFiniteSet(S) /\ Cardinality(S) \in Nat
         /\ \A i \in S : LET r == Cardinality({j \in S : j < i})
                         IN  r \in Nat /\ r + 1 <= Cardinality(S)
         /\ \A i, k \in S :
              Cardinality({j \in S : j < i}) = Cardinality({j \in S : j < k}) => i = k
<1> DEFINE below(i) == {j \in S : j < i}
<1>1. IsFiniteSet(S) /\ Cardinality(S) \in Nat
  <2>1. IsFiniteSet(1..L)
    BY FS_Interval
  <2>2. IsFiniteSet(S)
    BY <2>1, FS_Subset
  <2> QED
    BY <2>2, FS_CardinalityType
<1>2. \A i : below(i) \in SUBSET S /\ IsFiniteSet(below(i)) /\ Cardinality(below(i)) \in Nat
  <2> TAKE i
  <2>1. below(i) \in SUBSET S
    OBVIOUS
  <2>2. IsFiniteSet(below(i))
    BY <1>1, <2>1, FS_Subset
  <2> QED
    BY <2>1, <2>2, FS_CardinalityType
<1>3. ASSUME NEW i \in S, NEW T, IsFiniteSet(T), Cardinality(T) \in Nat,
             below(i) \subseteq T, i \in T
      PROVE  Cardinality(below(i)) + 1 <= Cardinality(T)
  <2>1. i \notin below(i)
    <3>1. i \in Nat
      OBVIOUS
    <3> QED
      BY <3>1
  <2>2. below(i) \cup {i} \in SUBSET T
    BY <1>3
  <2> HIDE DEF below
  <2>3. Cardinality(below(i) \cup {i}) = Cardinality(below(i)) + 1
    BY <1>2, <2>1, FS_AddElement
  <2>4. Cardinality(below(i) \cup {i}) <= Cardinality(T)
    BY <1>3, <2>2, FS_Subset
  <2> QED
    BY <2>3, <2>4
<1>4. \A i \in S : Cardinality(below(i)) + 1 <= Cardinality(S)
  BY <1>1, <1>3
<1>5. ASSUME NEW i \in S, NEW k \in S, i < k
      PROVE  Cardinality(below(i)) # Cardinality(below(k))
  <2>1. i \in below(k) /\ below(i) \subseteq below(k)
    <3>1. i \in Nat /\ k \in Nat /\ \A j \in S : j \in Nat
      OBVIOUS
    <3>2. \A j \in S : j < i => j < k
      BY <1>5, <3>1
    <3> QED
      BY <1>5, <3>2
  <2>2. IsFiniteSet(below(k)) /\ Cardinality(below(k)) \in Nat /\ Cardinality(below(i)) \in Nat
    BY <1>2
  <2>3. Cardinality(below(i)) + 1 <= Cardinality(below(k))
    <3> HIDE DEF below
    <3> QED
      BY <1>3, <2>1, <2>2
  <2> HIDE DEF below
  <2> QED
    BY <2>2, <2>3
<1>6. ASSUME NEW i \in S, NEW k \in S, Cardinality(below(i)) = Cardinality(below(k))
      PROVE  i = k
  <2>1. i \in Nat /\ k \in Nat
    OBVIOUS
  <2>2. ~(i < k) /\ ~(k < i)
    <3> HIDE DEF below
    <3> QED
      BY <1>5, <1>6
  <2> QED
    BY <2>1, <2>2
<1> QED
  BY <1>1, <1>2, <1>4, <1>6

Less == {ss \in Nat \X Nat : ss[1] < ss[2]}

(* A set of natural numbers has a least one.                               *)
LEMMA LeastNumber ==
  ASSUME NEW T, T \subseteq Nat, T # {}
  PROVE  \E x \in T : \A y \in T : x <= y
<1>1. IsWellFoundedOn(Less, Nat)
  BY NatLessThanWellFounded, Zenon DEF OpToRel, Less
<1>2. PICK x \in T : \A y \in T : ~(<<y, x>> \in Less)
  BY <1>1, WFMin
<1>3. \A y \in T : x <= y
  <2> TAKE y \in T
  <2>1. x \in Nat /\ y \in Nat /\ ~(<<y, x>> \in Less)
    BY <1>2
  <2>2. ~(y < x)
    BY <2>1 DEF Less
  <2> QED
    BY <2>1, <2>2
<1> QED
  BY <1>3

-----------------------------------------------------------------------------
(* Sequences and what is in them.                                          *)
LEMMA RangeConcat ==
  ASSUME NEW S, NEW u \in Seq(S), NEW v \in Seq(S)
  PROVE  u \o v \in Seq(S) /\ Range(u \o v) = Range(u) \cup Range(v)
<1> DEFINE w == u \o v
           m == Len(u)
           n == Len(v)
<1>1. /\ w \in Seq(S) /\ Len(w) = m + n
      /\ \A i \in 1..(m + n) : w[i] = IF i <= m THEN u[i] ELSE v[i - m]
  BY ConcatProperties
<1>2. /\ m \in Nat /\ DOMAIN u = 1..m /\ n \in Nat /\ DOMAIN v = 1..n
      /\ DOMAIN w = 1..(m + n)
  BY <1>1, LenProperties
<1> HIDE DEF w, m, n
<1>3. ASSUME NEW i \in 1..(m + n)
      PROVE  w[i] \in Range(u) \cup Range(v)
  <2>1. CASE i <= m
    <3>1. i \in DOMAIN u /\ w[i] = u[i]
      BY <1>1, <1>2, <2>1
    <3> QED
      BY <3>1 DEF Range
  <2>2. CASE ~(i <= m)
    <3>1. i - m \in DOMAIN v /\ w[i] = v[i - m]
      BY <1>1, <1>2, <2>2
    <3> QED
      BY <3>1 DEF Range
  <2> QED
    BY <2>1, <2>2
<1>4. ASSUME NEW i \in 1..m PROVE u[i] \in Range(w)
  <2>1. i \in DOMAIN w /\ w[i] = u[i]
    BY <1>1, <1>2
  <2> QED
    BY <2>1 DEF Range
<1>5. ASSUME NEW i \in 1..n PROVE v[i] \in Range(w)
  <2>1. m + i \in 1..(m + n) /\ ~(m + i <= m) /\ (m + i) - m = i
    BY <1>2
  <2>2. m + i \in DOMAIN w /\ w[m + i] = v[i]
    BY <1>1, <1>2, <2>1
  <2> QED
    BY <2>2 DEF Range
<1>6. Range(w) = Range(u) \cup Range(v)
  BY <1>2, <1>3, <1>4, <1>5 DEF Range
<1> QED
  BY <1>1, <1>6 DEF w

(* SetToSeq lists a finite set.                                            *)
LEMMA SetToSeqFacts ==
  ASSUME NEW S, IsFiniteSet(S)
  PROVE  SetToSeq(S) \in Seq(S) /\ Range(SetToSeq(S)) = S /\ Len(SetToSeq(S)) = Cardinality(S)
<1> DEFINE n == Cardinality(S)
<1>1. n \in Nat /\ ExistsBijection(1..n, S)
  BY FS_CardinalityType
<1> HIDE DEF n
<1>2. \E f \in [1..n -> S] : IsInjective(f)
  <2>1. PICK f : f \in Bijection(1..n, S)
    BY <1>1, Zenon DEF ExistsBijection
  <2> QED
    BY <2>1, Zenon DEF Bijection, Injection
<1> DEFINE q == SetToSeq(S)
<1>3. q \in [1..n -> S] /\ IsInjective(q)
  BY <1>2, Zenon DEF SetToSeq, n
<1> HIDE DEF q
<1>4. q \in Injection(1..n, S)
  BY <1>3, Zenon DEF Injection
<1>5. Cardinality(1..n) = n
  <2>1. Cardinality(1..n) = IF 1 > n THEN 0 ELSE n - 1 + 1
    BY <1>1, FS_Interval
  <2> QED
    BY <1>1, <2>1
<1>6. q \in Surjection(1..n, S)
  BY <1>4, <1>5, FS_Injection DEF n
<1>7. q \in Seq(S) /\ Len(q) = n /\ DOMAIN q = 1..n
  BY <1>1, <1>3
<1>8. Range(q) = S
  BY <1>3, <1>6, <1>7 DEF Surjection, Range
<1> QED
  BY <1>7, <1>8 DEF q, n

(* What FlattenSeq computes, position by position.                         *)
Flattens(f, seqs, m) ==
  f = [i \in 1..m |-> IF i = 1 THEN seqs[i] ELSE f[i - 1] \o seqs[i]]

(* The recursion of FlattenSeq has a solution: a least length without one  *)
(* would have a solution one shorter, and one more step.                   *)
LEMMA FlattenExists ==
  ASSUME NEW seqs, NEW m \in Nat, 1 <= m
  PROVE  \E f : Flattens(f, seqs, m)
<1> DEFINE T == {k \in Nat : 1 <= k /\ ~\E f : Flattens(f, seqs, k)}
<1>1. T = {}
  <2> SUFFICES ASSUME T # {} PROVE FALSE
    OBVIOUS
  <2>1. PICK k \in T : \A y \in T : k <= y
    <3>1. T \subseteq Nat
      OBVIOUS
    <3> HIDE DEF T
    <3> QED
      BY <3>1, LeastNumber
  <2>2. k \in Nat /\ 1 <= k
    OBVIOUS
  <2>3. CASE k = 1
    <3> DEFINE f == [i \in 1..1 |-> seqs[1]]
    <3>1. Flattens(f, seqs, 1)
      BY DEF Flattens
    <3> QED
      BY <2>1, <2>3, <3>1
  <2>4. CASE k # 1
    <3>1. k - 1 \in Nat /\ 1 <= k - 1 /\ ~(k <= k - 1)
      BY <2>2, <2>4
    <3>2. k - 1 \notin T
      BY <2>1, <3>1
    <3>3. PICK g : Flattens(g, seqs, k - 1)
      BY <3>1, <3>2
    <3> DEFINE f == [i \in 1..k |-> IF i = k THEN g[k - 1] \o seqs[k] ELSE g[i]]
    <3>4. ASSUME NEW i \in 1..k
          PROVE  f[i] = IF i = 1 THEN seqs[i] ELSE f[i - 1] \o seqs[i]
      <4>1. CASE i = k
        <5>1. i # 1 /\ k - 1 \in 1..k /\ k - 1 # k
          BY <2>2, <2>4, <4>1
        <5> QED
          BY <4>1, <5>1, Zenon
      <4>2. CASE i # k
        <5>1. i \in 1..(k - 1)
          BY <2>2, <4>2
        <5>2. f[i] = g[i]
          BY <4>2
        <5>3. g[i] = IF i = 1 THEN seqs[i] ELSE g[i - 1] \o seqs[i]
          BY <3>3, <5>1 DEF Flattens
        <5>4. i # 1 => i - 1 \in 1..k /\ i - 1 # k
          BY <2>2, <4>2
        <5> QED
          BY <5>2, <5>3, <5>4
      <4> QED
        BY <4>1, <4>2
    <3>5. Flattens(f, seqs, k)
      <4>1. f = [i \in 1..k |-> f[i]]
        OBVIOUS
      <4> HIDE DEF f
      <4>2. [i \in 1..k |-> f[i]] = [i \in 1..k |-> IF i = 1 THEN seqs[i] ELSE f[i - 1] \o seqs[i]]
        BY <3>4
      <4> QED
        BY <4>1, <4>2 DEF Flattens
    <3> HIDE DEF f
    <3> QED
      BY <2>1, <3>5
  <2> QED
    BY <2>3, <2>4
<1> QED
  BY <1>1

(* A flattened sequence of sequences has just their elements.              *)
LEMMA FlattenFacts ==
  ASSUME NEW S, NEW seqs \in Seq(Seq(S))
  PROVE  /\ FlattenSeq(seqs) \in Seq(S)
         /\ Range(FlattenSeq(seqs)) = UNION {Range(seqs[i]) : i \in DOMAIN seqs}
<1> DEFINE L == Len(seqs)
<1>1. L \in Nat /\ DOMAIN seqs = 1..L /\ \A i \in 1..L : seqs[i] \in Seq(S)
  BY LenProperties, ElementOfSeq
<1>2. CASE L = 0
  <2>1. seqs = << >> /\ DOMAIN seqs = {}
    BY <1>1, <1>2, EmptySeq
  <2>2. FlattenSeq(seqs) = << >>
    BY <1>2, <2>1 DEF FlattenSeq
  <2>3. << >> \in Seq(S) /\ Range(<< >>) = {}
    BY EmptySeq, <2>1 DEF Range
  <2> QED
    BY <2>1, <2>2, <2>3
<1>3. CASE L # 0
  <2>1. 1 <= L /\ L \in 1..L
    BY <1>1, <1>3
  <2> DEFINE f == CHOOSE f : Flattens(f, seqs, L)
  <2>2. Flattens(f, seqs, L)
    BY <1>1, <2>1, FlattenExists
  <2>3. FlattenSeq(seqs) = f[L]
    BY <1>3, Zenon DEF FlattenSeq, Flattens
  <2> HIDE DEF f, L
  <2>4. \A i \in 1..L : f[i] = IF i = 1 THEN seqs[i] ELSE f[i - 1] \o seqs[i]
    BY <2>2 DEF Flattens
  <2> DEFINE Right(m) == /\ f[m] \in Seq(S)
                         /\ \A x : x \in Range(f[m]) <=> \E i \in 1..m : x \in Range(seqs[i])
             T == {m \in 1..L : ~Right(m)}
  <2>5. T = {}
    <3> SUFFICES ASSUME T # {} PROVE FALSE
      OBVIOUS
    <3>1. PICK m \in T : \A y \in T : m <= y
      <4>1. T \subseteq Nat
        OBVIOUS
      <4> HIDE DEF T
      <4> QED
        BY <4>1, LeastNumber
    <3>2. m \in 1..L /\ ~Right(m)
      OBVIOUS
    <3> HIDE DEF T
    <3>3. CASE m = 1
      <4>1. f[1] = seqs[1] /\ seqs[1] \in Seq(S)
        BY <1>1, <2>4, <3>2, <3>3
      <4>2. 1..1 = {1}
        OBVIOUS
      <4> QED
        BY <3>2, <3>3, <4>1, <4>2
    <3>4. CASE m # 1
      <4>1. m - 1 \in 1..L /\ ~(m <= m - 1) /\ 1..m = 1..(m - 1) \cup {m}
        BY <1>1, <3>2, <3>4
      <4>2. Right(m - 1)
        BY <3>1, <4>1 DEF T
      <4>3. f[m] = f[m - 1] \o seqs[m] /\ seqs[m] \in Seq(S)
        BY <1>1, <2>4, <3>2, <3>4
      <4>4. f[m] \in Seq(S) /\ Range(f[m]) = Range(f[m - 1]) \cup Range(seqs[m])
        BY <4>2, <4>3, RangeConcat
      <4>5. \A x : (\E i \in 1..m : x \in Range(seqs[i]))
                     <=> (\E i \in 1..(m - 1) : x \in Range(seqs[i])) \/ x \in Range(seqs[m])
        BY <4>1
      <4> QED
        BY <3>2, <4>2, <4>4, <4>5
    <3> QED
      BY <3>3, <3>4
  <2>6. Right(L)
    BY <2>1, <2>5
  <2> HIDE DEF T
  <2>7. Range(f[L]) = UNION {Range(seqs[i]) : i \in 1..L}
    BY <2>6
  <2> QED
    BY <1>1, <2>3, <2>6, <2>7
<1> QED
  BY <1>2, <1>3

-----------------------------------------------------------------------------
(* Scripts inside scripts.                                                 *)
LEMMA RangeCons ==
  ASSUME NEW S, NEW x \in S, NEW v \in Seq(S)
  PROVE  <<x>> \o v \in Seq(S) /\ Range(<<x>> \o v) = {x} \cup Range(v)
         /\ Len(<<x>> \o v) = Len(v) + 1
<1>1. <<x>> \in Seq(S) /\ Len(<<x>>) = 1
  OBVIOUS
<1>2. Range(<<x>>) = {x}
  BY DEF Range
<1>3. Len(<<x>> \o v) = 1 + Len(v) /\ Len(v) \in Nat
  BY <1>1, ConcatProperties, LenProperties
<1>4. <<x>> \o v \in Seq(S) /\ Range(<<x>> \o v) = Range(<<x>>) \cup Range(v)
  BY <1>1, RangeConcat
<1> QED
  BY <1>2, <1>3, <1>4

(* The kind of an address's script is that of its type.                    *)
LEMMA AddressKind ==
  ASSUME NEW a, IsAddress(a)
  PROVE  a.script \in Script /\ Kind[a.script] = EquivType(a.type)
BY ScriptAssumption DEF IsAddress, EquivType, EquivAddressTypes, Kinds

(* What is inside a script: scripts, and one unfolding of the recursion.   *)
LEMMA InsideFacts ==
  ASSUME NEW s \in Script
  PROVE  /\ Inside[s] \in Seq(Script) /\ Len(Inside[s]) \in Nat /\ Range(Inside[s]) \subseteq Script
         /\ Kind[s] \in Kinds
         /\ Kind[s] = "SCRIPTHASH" =>
              /\ Wrapped[s].script \in Script
              /\ Kind[Wrapped[s].script] = EquivType(Wrapped[s].type)
              /\ Range(Inside[s]) = {Wrapped[s].script} \cup Range(Inside[Wrapped[s].script])
              /\ Len(Inside[s]) = Len(Inside[Wrapped[s].script]) + 1
         /\ Kind[s] = "MULTISIG" =>
              Range(Inside[s]) = Keys[s] /\ \A k \in Keys[s] : k \in Script /\ Kind[k] = "PUBKEY"
         /\ Kind[s] = "PUBKEY" => Range(Inside[s]) = {}
<1>1. Inside[s] \in Seq(Script)
  BY InsideAssumption
<1>2. Len(Inside[s]) \in Nat /\ Range(Inside[s]) \subseteq Script
  BY <1>1, LenProperties, ElementOfSeq DEF Range
<1>3. Kind[s] \in Kinds
  BY ScriptAssumption
<1>4. ASSUME Kind[s] = "SCRIPTHASH"
      PROVE  /\ Wrapped[s].script \in Script
             /\ Kind[Wrapped[s].script] = EquivType(Wrapped[s].type)
             /\ Range(Inside[s]) = {Wrapped[s].script} \cup Range(Inside[Wrapped[s].script])
             /\ Len(Inside[s]) = Len(Inside[Wrapped[s].script]) + 1
  <2>1. /\ Wrapped[s].script \in Script
        /\ Kind[Wrapped[s].script] = EquivType(Wrapped[s].type)
    BY <1>4, ScriptAssumption, AddressKind
  <2>2. /\ Inside[s] = <<Wrapped[s].script>> \o Inside[Wrapped[s].script]
        /\ Inside[Wrapped[s].script] \in Seq(Script)
    BY <1>4, <2>1, InsideAssumption
  <2> QED
    BY <2>1, <2>2, RangeCons
<1>5. ASSUME Kind[s] = "MULTISIG"
      PROVE  Range(Inside[s]) = Keys[s] /\ \A k \in Keys[s] : k \in Script /\ Kind[k] = "PUBKEY"
  <2>1. Inside[s] = SetToSeq(Keys[s]) /\ IsFiniteSet(Keys[s])
    BY <1>5, InsideAssumption, ScriptAssumption
  <2>2. Range(Inside[s]) = Keys[s]
    BY <2>1, SetToSeqFacts
  <2> QED
    BY <1>5, <2>2, ScriptAssumption
<1>6. ASSUME Kind[s] = "PUBKEY" PROVE Range(Inside[s]) = {}
  <2>1. Inside[s] = << >>
    BY <1>6, InsideAssumption
  <2> QED
    BY <2>1 DEF Range
<1> QED
  BY <1>1, <1>2, <1>3, <1>4, <1>5, <1>6

(* What is inside a script that is inside s is inside s.                   *)
Closed(s) ==
  \A r \in {s} \cup Range(Inside[s]) :
    /\ Kind[r] = "SCRIPTHASH" => Wrapped[r].script \in Range(Inside[s])
    /\ Kind[r] = "MULTISIG" => Keys[r] \subseteq Range(Inside[s])

(* The scripts inside a script are closed under wrapping and under keys: a *)
(* script for which they are not would have a shorter such one inside.     *)
LEMMA InsideClosed ==
  ASSUME NEW s \in Script
  PROVE  Closed(s)
<1> DEFINE T == {Len(Inside[r]) : r \in {r \in Script : ~Closed(r)}}
<1>1. T = {}
  <2> SUFFICES ASSUME T # {} PROVE FALSE
    OBVIOUS
  <2>1. T \subseteq Nat
    BY InsideFacts
  <2>2. PICK n \in T : \A y \in T : n <= y
    <3> HIDE DEF T
    <3> QED
      BY <2>1, LeastNumber
  <2>3. PICK q \in Script : n = Len(Inside[q]) /\ ~Closed(q)
    OBVIOUS
  <2>4. \A r \in Script : ~Closed(r) => Len(Inside[q]) <= Len(Inside[r])
    BY <2>2, <2>3
  <2> HIDE DEF T
  <2>5. CASE Kind[q] = "SCRIPTHASH"
    <3> DEFINE p == Wrapped[q].script
    <3>1. /\ p \in Script /\ Range(Inside[q]) = {p} \cup Range(Inside[p])
          /\ Len(Inside[q]) = Len(Inside[p]) + 1
      BY <2>5, InsideFacts
    <3>2. Len(Inside[p]) \in Nat /\ Len(Inside[q]) \in Nat
      BY <3>1, InsideFacts
    <3> HIDE DEF p
    <3>3. Closed(p)
      BY <2>4, <3>1, <3>2
    <3>4. Closed(q)
      <4> SUFFICES ASSUME NEW r \in {q} \cup Range(Inside[q])
                   PROVE  /\ Kind[r] = "SCRIPTHASH" => Wrapped[r].script \in Range(Inside[q])
                          /\ Kind[r] = "MULTISIG" => Keys[r] \subseteq Range(Inside[q])
        BY DEF Closed
      <4>1. CASE r = q
        BY <2>5, <3>1, <4>1 DEF p
      <4>2. CASE r \in {p} \cup Range(Inside[p])
        BY <3>1, <3>3, <4>2 DEF Closed
      <4> QED
        BY <3>1, <4>1, <4>2
    <3> QED
      BY <2>3, <3>4
  <2>6. CASE Kind[q] = "MULTISIG"
    <3>1. Range(Inside[q]) = Keys[q] /\ \A k \in Keys[q] : k \in Script /\ Kind[k] = "PUBKEY"
      BY <2>6, InsideFacts
    <3> QED
      BY <2>3, <2>6, <3>1 DEF Closed
  <2>7. CASE Kind[q] = "PUBKEY"
    <3>1. Range(Inside[q]) = {}
      BY <2>7, InsideFacts
    <3> QED
      BY <2>3, <2>7, <3>1 DEF Closed
  <2> QED
    BY <2>5, <2>6, <2>7, InsideFacts DEF Kinds
<1> QED
  BY <1>1

(* The scripts a transaction meets: those inside the ones it spends, those *)
(* of its outputs, and what is inside of them unless it is hidden.         *)
LEMMA MetFacts ==
  ASSUME NEW t \in Tx
  PROVE  /\ Met(t) \in Seq(Script)
         /\ \A s : s \in Range(Met(t)) <=>
              \/ \E a \in Spends[t] : s \in Range(Inside[a.script])
              \/ \E o \in Range(Outs[t]) :
                   s = o.script \/ (Kind[o.script] # "SCRIPTHASH" /\ s \in Range(Inside[o.script]))
<1> DEFINE C == Cardinality(Spends[t])
           q == SetToSeq(Spends[t])
           ins == [i \in 1..C |-> Inside[q[i].script]]
           outs == [i \in DOMAIN Outs[t] |->
                      IF Kind[Outs[t][i].script] = "SCRIPTHASH" THEN <<Outs[t][i].script>>
                      ELSE <<Outs[t][i].script>> \o Inside[Outs[t][i].script]]
<1>1. Met(t) = FlattenSeq(ins) \o FlattenSeq(outs)
  BY DEF Met
<1>2. /\ IsFiniteSet(Spends[t]) /\ \A a \in Spends[t] : IsAddress(a)
      /\ Outs[t] \in Seq(Range(Outs[t])) /\ \A a \in Range(Outs[t]) : IsAddress(a)
  BY TxAssumption
<1>3. /\ q \in Seq(Spends[t]) /\ Range(q) = Spends[t] /\ Len(q) = C
  BY <1>2, SetToSeqFacts
<1>4. C \in Nat /\ DOMAIN q = 1..C
  BY <1>3, LenProperties
<1> HIDE DEF C, q
<1>5. \A i \in 1..C : q[i] \in Spends[t] /\ q[i].script \in Script
  BY <1>2, <1>3, <1>4 DEF Range, IsAddress
<1>6. ins \in Seq(Seq(Script))
  <2>1. \A i \in 1..C : Inside[q[i].script] \in Seq(Script)
    BY <1>5, InsideFacts
  <2> QED
    BY <1>4, <2>1, IsASeq
<1>7. /\ FlattenSeq(ins) \in Seq(Script)
      /\ \A s : s \in Range(FlattenSeq(ins)) <=> \E a \in Spends[t] : s \in Range(Inside[a.script])
  <2>1. /\ FlattenSeq(ins) \in Seq(Script)
        /\ Range(FlattenSeq(ins)) = UNION {Range(ins[i]) : i \in DOMAIN ins}
    BY <1>6, FlattenFacts
  <2>2. DOMAIN ins = 1..C /\ \A i \in 1..C : ins[i] = Inside[q[i].script]
    OBVIOUS
  <2> HIDE DEF ins
  <2>3. \A s : s \in Range(FlattenSeq(ins)) <=> \E i \in 1..C : s \in Range(Inside[q[i].script])
    BY <2>1, <2>2
  <2>4. \A a : a \in Spends[t] <=> \E i \in 1..C : a = q[i]
    BY <1>3, <1>4 DEF Range
  <2> QED
    BY <2>1, <2>3, <2>4
<1>8. DOMAIN Outs[t] = 1..Len(Outs[t]) /\ Len(Outs[t]) \in Nat
  BY <1>2, LenProperties
<1>9. ASSUME NEW i \in DOMAIN Outs[t]
      PROVE  /\ outs[i] \in Seq(Script)
             /\ \A s : s \in Range(outs[i]) <=>
                  \/ s = Outs[t][i].script
                  \/ Kind[Outs[t][i].script] # "SCRIPTHASH" /\ s \in Range(Inside[Outs[t][i].script])
  <2> DEFINE o == Outs[t][i].script
  <2>1. o \in Script
    BY <1>2 DEF Range, IsAddress
  <2>2. outs[i] = IF Kind[o] = "SCRIPTHASH" THEN <<o>> ELSE <<o>> \o Inside[o]
    OBVIOUS
  <2> HIDE DEF o, outs
  <2>3. /\ <<o>> \in Seq(Script) /\ Range(<<o>>) = {o}
        /\ <<o>> \o Inside[o] \in Seq(Script) /\ Range(<<o>> \o Inside[o]) = {o} \cup Range(Inside[o])
    <3>1. Inside[o] \in Seq(Script)
      BY <2>1, InsideFacts
    <3>2. <<o>> \in Seq(Script)
      BY <2>1
    <3>3. Range(<<o>>) = {o}
      BY DEF Range
    <3> QED
      BY <2>1, <3>1, <3>2, <3>3, RangeCons
  <2>4. CASE Kind[o] = "SCRIPTHASH"
    BY <2>2, <2>3, <2>4 DEF o
  <2>5. CASE Kind[o] # "SCRIPTHASH"
    BY <2>2, <2>3, <2>5 DEF o
  <2> QED
    BY <2>4, <2>5
<1>10. outs \in Seq(Seq(Script)) /\ DOMAIN outs = DOMAIN Outs[t]
  <2>1. DOMAIN outs = DOMAIN Outs[t] /\ outs = [i \in 1..Len(Outs[t]) |-> outs[i]]
    BY <1>8
  <2> HIDE DEF outs
  <2>2. [i \in 1..Len(Outs[t]) |-> outs[i]] \in Seq(Seq(Script))
    BY <1>8, <1>9, IsASeq
  <2> QED
    BY <2>1, <2>2
<1> HIDE DEF outs, ins
<1>11. /\ FlattenSeq(outs) \in Seq(Script)
       /\ \A s : s \in Range(FlattenSeq(outs)) <=>
            \E o \in Range(Outs[t]) :
               s = o.script \/ (Kind[o.script] # "SCRIPTHASH" /\ s \in Range(Inside[o.script]))
  <2>1. /\ FlattenSeq(outs) \in Seq(Script)
        /\ Range(FlattenSeq(outs)) = UNION {Range(outs[i]) : i \in DOMAIN outs}
    BY <1>10, FlattenFacts
  <2>2. \A s : s \in Range(FlattenSeq(outs)) <=> \E i \in DOMAIN Outs[t] : s \in Range(outs[i])
    BY <1>10, <2>1
  <2>3. \A a : a \in Range(Outs[t]) <=> \E i \in DOMAIN Outs[t] : a = Outs[t][i]
    BY DEF Range
  <2>4. ASSUME NEW s, s \in Range(FlattenSeq(outs))
        PROVE  \E o \in Range(Outs[t]) :
                 s = o.script \/ (Kind[o.script] # "SCRIPTHASH" /\ s \in Range(Inside[o.script]))
    <3>1. PICK i \in DOMAIN Outs[t] : s \in Range(outs[i])
      BY <2>2, <2>4
    <3>2. Outs[t][i] \in Range(Outs[t])
      BY <2>3
    <3> QED
      BY <1>9, <3>1, <3>2
  <2>5. ASSUME NEW s, NEW o \in Range(Outs[t]),
               s = o.script \/ (Kind[o.script] # "SCRIPTHASH" /\ s \in Range(Inside[o.script]))
        PROVE  s \in Range(FlattenSeq(outs))
    <3>1. PICK i \in DOMAIN Outs[t] : o = Outs[t][i]
      BY <2>3
    <3>2. s \in Range(outs[i])
      BY <1>9, <2>5, <3>1
    <3> QED
      BY <2>2, <3>2
  <2> QED
    BY <2>1, <2>4, <2>5
<1>12. /\ Met(t) \in Seq(Script)
       /\ Range(Met(t)) = Range(FlattenSeq(ins)) \cup Range(FlattenSeq(outs))
  BY <1>1, <1>7, <1>11, RangeConcat
<1> QED
  BY <1>7, <1>11, <1>12

(* Every rank is taken.                                                    *)
AllRanks(S) == \A n \in 1..Cardinality(S) : \E i \in S : Cardinality({j \in S : j < i}) = n - 1
LEMMA RankOnto ==
  ASSUME NEW L \in Nat, NEW S, S \subseteq 1..L
  PROVE  AllRanks(S)
<1> SUFFICES ASSUME NEW n \in 1..Cardinality(S)
             PROVE  \E i \in S : Cardinality({j \in S : j < i}) = n - 1
  BY Zenon DEF AllRanks
<1> DEFINE C == Cardinality(S)
           rank(i) == Cardinality({j \in S : j < i})
           f == [i \in S |-> rank(i) + 1]
<1>1. /\ IsFiniteSet(S) /\ C \in Nat
      /\ \A i \in S : rank(i) \in Nat /\ rank(i) + 1 <= C
      /\ \A i, k \in S : rank(i) = rank(k) => i = k
  BY RankFacts
<1>2. n \in 1..C
  OBVIOUS
<1> HIDE DEF C, rank
<1>3. f \in [S -> 1..C] /\ \A i, k \in S : f[i] = f[k] => i = k
  BY <1>1
<1>4. DOMAIN f = S /\ \A i \in S : f[i] = rank(i) + 1
  OBVIOUS
<1> HIDE DEF f
<1>5. f \in Injection(S, 1..C)
  BY <1>3, <1>4, Zenon DEF Injection, IsInjective
<1>6. IsFiniteSet(1..C) /\ Cardinality(1..C) = C
  <2>1. Cardinality(1..C) = IF 1 > C THEN 0 ELSE C - 1 + 1
    BY <1>1, FS_Interval
  <2>2. IsFiniteSet(1..C)
    BY <1>1, FS_Interval
  <2> QED
    BY <1>1, <2>1, <2>2
<1>7. f \in Surjection(S, 1..C)
  BY <1>5, <1>6, FS_Injection DEF C
<1>8. PICK i \in S : f[i] = n
  BY <1>2, <1>7 DEF Surjection
<1>9. rank(i) = n - 1
  BY <1>1, <1>2, <1>4, <1>8
<1> QED
  BY <1>9 DEF rank

-----------------------------------------------------------------------------
(* The script files: scripts of their kind, none twice.                    *)
Filed(files) ==
  /\ files \in [Kinds -> Seq(Script)]
  /\ \A k \in Kinds : \A n \in DOMAIN files[k] :
       /\ Kind[files[k][n]] = k
       /\ \A m \in DOMAIN files[k] : files[k][m] = files[k][n] => m = n

(* The second files go on where the first end.                             *)
Extends(files, more) ==
  \A k \in Kinds :
    /\ Len(files[k]) <= Len(more[k])
    /\ \A n \in DOMAIN files[k] : n \in DOMAIN more[k] /\ more[k][n] = files[k][n]

(* A file and the scripts that come up for the first time.                 *)
LEMMA NewScriptsFacts ==
  ASSUME NEW file \in Seq(Script), NEW k, NEW met \in Seq(Script),
         \A n \in DOMAIN file : /\ Kind[file[n]] = k
                                /\ \A m \in DOMAIN file : file[m] = file[n] => m = n
  PROVE  LET more == WithNew(file, k, met) IN
         /\ more \in Seq(Script) /\ Len(file) <= Len(more)
         /\ \A n \in DOMAIN file : n \in DOMAIN more /\ more[n] = file[n]
         /\ \A n \in DOMAIN more : /\ Kind[more[n]] = k
                                   /\ \A m \in DOMAIN more : more[m] = more[n] => m = n
         /\ \A s \in Range(met) : Kind[s] = k => s \in Range(more)
         /\ \A s \in Range(more) : s \in Range(file) \/ s \in Range(met)
<1> DEFINE more == WithNew(file, k, met)
           new == FirstMet(file, k, met)
           C == Cardinality(new)
           rank(i) == Cardinality({j \in new : j < i})
           at(n) == CHOOSE i \in new : rank(i) = n - 1
           tail == [n \in 1..C |-> met[at(n)]]
           L == Len(met)
           M == Len(file)
<1>1. /\ L \in Nat /\ DOMAIN met = 1..L /\ M \in Nat /\ DOMAIN file = 1..M
      /\ \A i \in 1..L : met[i] \in Script
  BY LenProperties, ElementOfSeq
<1>2. new \subseteq 1..L
  BY <1>1 DEF FirstMet
<1>3. \A i \in new : /\ i \in 1..L /\ Kind[met[i]] = k /\ met[i] \notin Range(file)
                     /\ \A j \in 1..(i - 1) : met[j] # met[i]
  BY <1>1 DEF FirstMet
<1>4. \A i \in 1..L : Kind[met[i]] = k /\ met[i] \notin Range(file)
                      /\ (\A j \in 1..(i - 1) : met[j] # met[i]) => i \in new
  BY <1>1 DEF FirstMet
<1>5. /\ C \in Nat
      /\ \A i \in new : rank(i) \in Nat /\ rank(i) + 1 <= C
      /\ \A i, j \in new : rank(i) = rank(j) => i = j
  BY <1>1, <1>2, RankFacts
<1>6. \A n \in 1..C : \E i \in new : rank(i) = n - 1
  <2>1. L \in Nat /\ new \subseteq 1..L
    BY <1>1, <1>2
  <2> HIDE DEF new, L
  <2>2. AllRanks(new)
    BY <2>1, RankOnto
  <2> QED
    BY <2>2, Zenon DEF AllRanks
<1>7. more = file \o tail
  BY DEF WithNew
<1> HIDE DEF more, new, C, rank, L, M
<1>8. \A n \in 1..C : at(n) \in new /\ rank(at(n)) = n - 1
  BY <1>6
<1>9. \A i \in new : rank(i) + 1 \in 1..C /\ at(rank(i) + 1) = i
  <2> TAKE i \in new
  <2>1. rank(i) + 1 \in 1..C /\ (rank(i) + 1) - 1 = rank(i)
    BY <1>5
  <2>2. at(rank(i) + 1) \in new /\ rank(at(rank(i) + 1)) = rank(i)
    BY <1>8, <2>1
  <2> HIDE DEF at
  <2> QED
    BY <1>5, <2>1, <2>2
<1>10. DOMAIN tail = 1..C /\ \A n \in 1..C : tail[n] = met[at(n)]
  OBVIOUS
<1> HIDE DEF at
<1>11. tail \in Seq(Script)
  <2>1. \A n \in 1..C : met[at(n)] \in Script
    BY <1>1, <1>3, <1>8
  <2> QED
    BY <1>5, <2>1, IsASeq
<1> HIDE DEF tail
<1>12. Len(tail) = C
  BY <1>5, <1>10, <1>11, LenProperties
<1>13. ASSUME NEW i \in new, NEW j \in new, met[i] = met[j]
       PROVE  i = j
  <2>1. i \in 1..L /\ j \in 1..L /\ ~(i \in 1..(j - 1)) /\ ~(j \in 1..(i - 1))
    BY <1>3, <1>13
  <2> QED
    BY <1>1, <2>1
<1>14. \A n \in 1..C : /\ Kind[tail[n]] = k /\ tail[n] \notin Range(file)
                       /\ \A m \in 1..C : tail[m] = tail[n] => m = n
  <2> TAKE n \in 1..C
  <2>1. at(n) \in new /\ rank(at(n)) = n - 1 /\ tail[n] = met[at(n)]
    BY <1>8, <1>10
  <2>2. ASSUME NEW m \in 1..C, tail[m] = tail[n]
        PROVE  m = n
    <3>1. at(m) \in new /\ rank(at(m)) = m - 1 /\ tail[m] = met[at(m)]
      BY <1>8, <1>10
    <3>2. at(m) = at(n)
      BY <1>13, <2>1, <2>2, <3>1
    <3> QED
      BY <1>5, <2>1, <3>1, <3>2
  <2> QED
    BY <1>3, <2>1, <2>2
<1>15. /\ more \in Seq(Script) /\ Len(more) = M + C /\ DOMAIN more = 1..(M + C)
       /\ Range(more) = Range(file) \cup Range(tail)
       /\ \A i \in 1..(M + C) : more[i] = IF i <= M THEN file[i] ELSE tail[i - M]
  <2>1. /\ more \in Seq(Script) /\ Len(more) = M + C
        /\ \A i \in 1..(M + C) : more[i] = IF i <= M THEN file[i] ELSE tail[i - M]
    <3>1. /\ file \o tail \in Seq(Script) /\ Len(file \o tail) = Len(file) + Len(tail)
          /\ \A i \in 1..(Len(file) + Len(tail)) :
               (file \o tail)[i] = IF i <= Len(file) THEN file[i] ELSE tail[i - Len(file)]
      BY <1>11, ConcatProperties
    <3> QED
      BY <1>7, <1>12, <3>1, Zenon DEF M
  <2>2. DOMAIN more = 1..(M + C)
    BY <2>1, LenProperties
  <2>3. Range(more) = Range(file) \cup Range(tail)
    BY <1>7, <1>11, RangeConcat
  <2> QED
    BY <2>1, <2>2, <2>3
<1>16. Len(file) <= Len(more)
  BY <1>1, <1>5, <1>15 DEF M
<1>17. \A n \in DOMAIN file : n \in DOMAIN more /\ more[n] = file[n]
  BY <1>1, <1>5, <1>15
<1>18. ASSUME NEW n \in DOMAIN more
       PROVE  IF n <= M THEN n \in DOMAIN file /\ more[n] = file[n]
              ELSE n - M \in 1..C /\ more[n] = tail[n - M]
  BY <1>1, <1>5, <1>15
<1>19. ASSUME NEW n \in DOMAIN more
       PROVE  /\ Kind[more[n]] = k
              /\ \A m \in DOMAIN more : more[m] = more[n] => m = n
  <2>1. Kind[more[n]] = k
    BY <1>14, <1>18
  <2>2. ASSUME NEW m \in DOMAIN more, more[m] = more[n]
        PROVE  m = n
    <3>1. m \in Nat /\ n \in Nat
      BY <1>15
    <3>2. CASE n <= M /\ m <= M
      BY <1>18, <2>2, <3>2
    <3>3. CASE ~(n <= M) /\ ~(m <= M)
      <4>1. n - M \in 1..C /\ m - M \in 1..C /\ tail[m - M] = tail[n - M]
        BY <1>18, <2>2, <3>3
      <4>2. m - M = n - M
        BY <1>14, <4>1
      <4> QED
        BY <1>1, <3>1, <4>2
    <3>4. ASSUME NEW x \in DOMAIN more, NEW y \in DOMAIN more, x <= M, ~(y <= M), more[x] = more[y]
          PROVE  FALSE
      <4>1. more[x] \in Range(file)
        BY <1>18, <3>4 DEF Range
      <4>2. more[y] \notin Range(file)
        BY <1>14, <1>18, <3>4
      <4> QED
        BY <3>4, <4>1, <4>2
    <3> QED
      BY <2>2, <3>2, <3>3, <3>4
  <2> QED
    BY <2>1, <2>2
<1>20. ASSUME NEW s \in Range(met), Kind[s] = k
       PROVE  s \in Range(more)
  <2>1. CASE s \in Range(file)
    BY <1>15, <2>1
  <2>2. CASE s \notin Range(file)
    <3> DEFINE T == {i \in 1..L : met[i] = s}
    <3>1. T # {} /\ T \subseteq Nat
      BY <1>1 DEF Range
    <3>2. PICK i \in T : \A y \in T : i <= y
      <4> HIDE DEF T
      <4> QED
        BY <3>1, LeastNumber
    <3>3. i \in 1..L /\ met[i] = s
      OBVIOUS
    <3>4. \A j \in 1..(i - 1) : met[j] # met[i]
      <4> SUFFICES ASSUME NEW j \in 1..(i - 1), met[j] = met[i] PROVE FALSE
        OBVIOUS
      <4>1. j \in 1..L /\ ~(i <= j)
        BY <1>1, <3>3
      <4> QED
        BY <3>2, <3>3, <4>1
    <3>5. i \in new
      BY <1>4, <1>20, <2>2, <3>3, <3>4
    <3> HIDE DEF T
    <3>6. rank(i) + 1 \in 1..C /\ tail[rank(i) + 1] = s
      BY <1>9, <1>10, <3>3, <3>5
    <3>7. s \in Range(tail)
      BY <1>10, <3>6 DEF Range
    <3> QED
      BY <1>15, <3>7
  <2> QED
    BY <2>1, <2>2
<1>21. ASSUME NEW s \in Range(more)
       PROVE  s \in Range(file) \/ s \in Range(met)
  <2>1. ASSUME NEW n \in 1..C PROVE tail[n] \in Range(met)
    BY <1>1, <1>3, <1>8, <1>10 DEF Range
  <2>2. ASSUME NEW r \in Range(tail) PROVE r \in Range(met)
    <3>1. PICK n \in 1..C : r = tail[n]
      BY <1>10 DEF Range
    <3> QED
      BY <2>1, <3>1
  <2> QED
    BY <1>15, <2>2
<1> QED
  BY <1>15, <1>16, <1>17, <1>19, <1>20, <1>21 DEF more

(* The script files after a transaction.                                   *)
LEMMA AfterTxFacts ==
  ASSUME NEW files, Filed(files), NEW t \in Tx
  PROVE  LET more == AfterTx(files, t) IN
         /\ Filed(more) /\ Extends(files, more)
         /\ \A s \in Range(Met(t)) : s \in Script /\ s \in Range(more[Kind[s]])
         /\ \A k \in Kinds : \A s \in Range(more[k]) : s \in Range(files[k]) \/ s \in Range(Met(t))
<1> DEFINE more == AfterTx(files, t)
<1>1. DOMAIN more = Kinds /\ \A k \in Kinds : more[k] = WithNew(files[k], k, Met(t))
  BY DEF AfterTx
<1>2. more = [k \in Kinds |-> more[k]]
  BY DEF AfterTx
<1> HIDE DEF more
<1>3. Met(t) \in Seq(Script)
  BY MetFacts
<1>4. \A s \in Range(Met(t)) : s \in Script /\ Kind[s] \in Kinds
  BY <1>3, LenProperties, ElementOfSeq, InsideFacts DEF Range
<1>5. ASSUME NEW k \in Kinds
      PROVE  /\ more[k] \in Seq(Script) /\ Len(files[k]) <= Len(more[k])
             /\ \A n \in DOMAIN files[k] : n \in DOMAIN more[k] /\ more[k][n] = files[k][n]
             /\ \A n \in DOMAIN more[k] :
                  /\ Kind[more[k][n]] = k
                  /\ \A m \in DOMAIN more[k] : more[k][m] = more[k][n] => m = n
             /\ \A s \in Range(Met(t)) : Kind[s] = k => s \in Range(more[k])
             /\ \A s \in Range(more[k]) : s \in Range(files[k]) \/ s \in Range(Met(t))
  <2>1. /\ files[k] \in Seq(Script)
        /\ \A n \in DOMAIN files[k] : /\ Kind[files[k][n]] = k
                                      /\ \A m \in DOMAIN files[k] : files[k][m] = files[k][n] => m = n
    BY DEF Filed
  <2>2. more[k] = WithNew(files[k], k, Met(t))
    BY <1>1
  <2> QED
    BY <1>3, <2>1, <2>2, NewScriptsFacts
<1>6. more \in [Kinds -> Seq(Script)]
  BY <1>2, <1>5
<1>7. Filed(more)
  BY <1>5, <1>6 DEF Filed
<1>8. Extends(files, more)
  BY <1>5 DEF Extends
<1> QED
  BY <1>4, <1>5, <1>7, <1>8 DEF more

-----------------------------------------------------------------------------
(* What a transaction adds to the columns, given the script files and the  *)
(* chain.                                                                  *)
NumIn(files, s) == CHOOSE n \in DOMAIN files[Kind[s]] : files[Kind[s]][n] = s
AddressIn(files, a) == <<a.type, NumIn(files, a.script)>>
OutputsIn(files, t, i) == {<<AddressIn(files, Outs[t][k]), i, k>> : k \in DOMAIN Outs[t]}
WitnessesIn(files, t) == {<<s, NumIn(files, s)>> : s \in WitnessScripts(t)}
MultisigIn(files, n) ==
  {<<<<"MULTISIG_PUBKEY", NumIn(files, k)>>, "MULTISIG", n>> : k \in Keys[files["MULTISIG"][n]]}
FirstIn(c, s) == CHOOSE i \in DOMAIN c : s \in Reveals(c[i])
                   /\ \A j \in 1..(i - 1) : s \notin Reveals(c[j])
VisitedIn(c, i, s) ==
  LET path == <<s>> \o Inside[s]
      visited(r) == Kind[r] = "SCRIPTHASH" /\ FirstIn(c, r) = i
  IN  {path[j] : j \in {j \in DOMAIN path : \A l \in 1..j : visited(path[l])}}
Visits(c, i) == UNION {VisitedIn(c, i, a.script) : a \in Spends[c[i]]}
NestedIn(files, c, i) ==
  {<<AddressIn(files, Wrapped[s]), "SCRIPTHASH", NumIn(files, s)>> : s \in Visits(c, i)}

(* The columns, written over the script files and the chain.               *)
LEMMA ColumnForms ==
  /\ \A i : OutputsOf(i) = OutputsIn(scripts, chain[i], i)
  /\ \A i : WitnessesOf(i) = WitnessesIn(scripts, chain[i])
  /\ \A i : NestedOf(i) = NestedIn(scripts, chain, i)
  /\ \A n : MultisigOf(n) = MultisigIn(scripts, n)
<1>1. \A s : Num(s) = NumIn(scripts, s)
  BY Zenon DEF Num, NumIn
<1>2. \A a : Address(a) = AddressIn(scripts, a)
  BY <1>1, Zenon DEF Address, AddressIn
<1>3. \A i : OutputsOf(i) = OutputsIn(scripts, chain[i], i)
  BY <1>2 DEF OutputsOf, OutputsIn
<1>4. \A i : WitnessesOf(i) = WitnessesIn(scripts, chain[i])
  BY <1>1 DEF WitnessesOf, WitnessesIn
<1>5. \A s : TxRevealed(s) = FirstIn(chain, s)
  BY Zenon DEF TxRevealed, FirstIn
<1>6. \A i, s : VisitedFrom(i, s) = VisitedIn(chain, i, s)
  BY <1>5 DEF VisitedFrom, VisitedIn
<1>7. \A i : NestedOf(i) = NestedIn(scripts, chain, i)
  BY <1>1, <1>2, <1>6 DEF NestedOf, NestedIn, Visits
<1>8. \A n : MultisigOf(n) = MultisigIn(scripts, n)
  BY <1>1 DEF MultisigOf, MultisigIn
<1> QED
  BY <1>3, <1>4, <1>7, <1>8

(* The same of the next state.                                             *)
LEMMA ColumnFormsNext ==
  /\ \A i : OutputsOf(i)' = OutputsIn(scripts', chain'[i], i)
  /\ \A i : WitnessesOf(i)' = WitnessesIn(scripts', chain'[i])
  /\ \A i : NestedOf(i)' = NestedIn(scripts', chain', i)
  /\ \A n : MultisigOf(n)' = MultisigIn(scripts', n)
<1>1. \A s : Num(s)' = NumIn(scripts', s)
  BY Zenon DEF Num, NumIn
<1>2. \A a : Address(a)' = AddressIn(scripts', a)
  BY <1>1, Zenon DEF Address, AddressIn
<1>3. \A i : OutputsOf(i)' = OutputsIn(scripts', chain'[i], i)
  BY DEF OutputsOf, OutputsIn, Address, AddressIn, Num, NumIn
<1>4. \A i : WitnessesOf(i)' = WitnessesIn(scripts', chain'[i])
  BY DEF WitnessesOf, WitnessesIn, Num, NumIn
<1>5. \A s : TxRevealed(s)' = FirstIn(chain', s)
  BY Zenon DEF TxRevealed, FirstIn
<1>6. \A i, s : VisitedFrom(i, s)' = VisitedIn(chain', i, s)
  BY DEF VisitedFrom, VisitedIn, TxRevealed, FirstIn
<1>7. \A i : NestedOf(i)' = NestedIn(scripts', chain', i)
  BY <1>6 DEF NestedOf, NestedIn, Visits, Address, AddressIn, Num, NumIn
<1>8. \A n : MultisigOf(n)' = MultisigIn(scripts', n)
  BY DEF MultisigOf, MultisigIn, Num, NumIn
<1> QED
  BY <1>3, <1>4, <1>7, <1>8

-----------------------------------------------------------------------------
(* Numbers and entries stay what they are when the files and the chain     *)
(* grow.                                                                   *)
Has(files, s) == s \in Range(files[Kind[s]])

(* A script that is in the files keeps its number when they grow.          *)
LEMMA NumKept ==
  ASSUME NEW f, NEW g, Filed(f), Filed(g), Extends(f, g), NEW s \in Script, Has(f, s)
  PROVE  Has(g, s) /\ NumIn(g, s) = NumIn(f, s) /\ NumIn(f, s) \in DOMAIN f[Kind[s]]
         /\ f[Kind[s]][NumIn(f, s)] = s
<1> DEFINE k == Kind[s]
<1>1. k \in Kinds
  BY InsideFacts
<1>2. PICK n \in DOMAIN f[k] : f[k][n] = s
  BY DEF Has, Range
<1>3. n \in DOMAIN g[k] /\ g[k][n] = s
  BY <1>1, <1>2 DEF Extends
<1>4. /\ \A m \in DOMAIN f[k] : f[k][m] = s => m = n
      /\ \A m \in DOMAIN g[k] : g[k][m] = s => m = n
  BY <1>1, <1>2, <1>3 DEF Filed
<1>5. NumIn(f, s) = n /\ NumIn(g, s) = n
  BY <1>2, <1>3, <1>4 DEF NumIn
<1> QED
  BY <1>2, <1>3, <1>5 DEF Has, Range

(* The scripts that a transaction is about are in the files.               *)
HasTx(files, t) ==
  /\ \A o \in Range(Outs[t]) : Has(files, o.script)
  /\ \A a \in Spends[t] : \A r \in {a.script} \cup Range(Inside[a.script]) : Has(files, r)

(* The addresses of a transaction have scripts of their types' kinds, and  *)
(* what is inside a spent one is closed under wrapping and under keys.     *)
LEMMA TxScripts ==
  ASSUME NEW t \in Tx
  PROVE  /\ \A o \in Range(Outs[t]) : o.script \in Script /\ Kind[o.script] = EquivType(o.type)
         /\ \A a \in Spends[t] :
              /\ a.script \in Script /\ Kind[a.script] = EquivType(a.type)
              /\ \A r \in {a.script} \cup Range(Inside[a.script]) :
                   /\ r \in Script
                   /\ Kind[r] = "SCRIPTHASH" => Wrapped[r].script \in Range(Inside[a.script])
                   /\ Kind[r] = "MULTISIG" => Keys[r] \subseteq Range(Inside[a.script])
<1>1. \A o \in Range(Outs[t]) : o.script \in Script /\ Kind[o.script] = EquivType(o.type)
  BY TxAssumption, AddressKind
<1>2. ASSUME NEW a \in Spends[t]
      PROVE  /\ a.script \in Script /\ Kind[a.script] = EquivType(a.type)
             /\ \A r \in {a.script} \cup Range(Inside[a.script]) :
                  /\ r \in Script
                  /\ Kind[r] = "SCRIPTHASH" => Wrapped[r].script \in Range(Inside[a.script])
                  /\ Kind[r] = "MULTISIG" => Keys[r] \subseteq Range(Inside[a.script])
  <2>1. a.script \in Script /\ Kind[a.script] = EquivType(a.type)
    BY TxAssumption, AddressKind
  <2>2. Range(Inside[a.script]) \subseteq Script
    BY <2>1, InsideFacts
  <2>3. Closed(a.script)
    BY <2>1, InsideClosed
  <2> QED
    BY <2>1, <2>2, <2>3 DEF Closed
<1> QED
  BY <1>1, <1>2

(* What a transaction adds to a column stays when the files grow.          *)
LEMMA TxKept ==
  ASSUME NEW f, NEW g, Filed(f), Filed(g), Extends(f, g), NEW t \in Tx, HasTx(f, t)
  PROVE  /\ HasTx(g, t)
         /\ \A i : OutputsIn(g, t, i) = OutputsIn(f, t, i)
         /\ WitnessesIn(g, t) = WitnessesIn(f, t)
<1>1. HasTx(g, t)
  BY NumKept, TxScripts DEF HasTx
<1>2. \A k \in DOMAIN Outs[t] : AddressIn(g, Outs[t][k]) = AddressIn(f, Outs[t][k])
  <2> TAKE k \in DOMAIN Outs[t]
  <2>1. Outs[t][k] \in Range(Outs[t])
    BY DEF Range
  <2>2. Outs[t][k].script \in Script /\ Has(f, Outs[t][k].script)
    BY <2>1, TxScripts DEF HasTx
  <2>3. NumIn(g, Outs[t][k].script) = NumIn(f, Outs[t][k].script)
    BY <2>2, NumKept
  <2> QED
    BY <2>3 DEF AddressIn
<1>3. \A i : OutputsIn(g, t, i) = OutputsIn(f, t, i)
  BY <1>2 DEF OutputsIn
<1>4. ASSUME NEW s \in WitnessScripts(t)
      PROVE  s \in Script /\ Has(f, s)
  <2>1. CASE \E o \in Range(Outs[t]) : s = o.script
    BY <2>1, TxScripts DEF HasTx
  <2>2. ASSUME NEW a \in Spends[t], NEW b \in VisitedInside(a), s = b.script
        PROVE  s \in Script /\ Has(f, s)
    <3> DEFINE path == <<a.script>> \o Inside[a.script]
    <3>1. PICK j \in DOMAIN path : Kind[path[j]] = "SCRIPTHASH" /\ b = Wrapped[path[j]]
      BY <2>2 DEF VisitedInside
    <3>2. Range(path) = {a.script} \cup Range(Inside[a.script])
      BY TxScripts, InsideFacts, RangeCons
    <3>3. path[j] \in {a.script} \cup Range(Inside[a.script])
      BY <3>1, <3>2 DEF Range
    <3>4. s \in Range(Inside[a.script])
      BY <2>2, <3>1, <3>3, TxScripts
    <3> QED
      BY <3>4, TxScripts DEF HasTx
  <2>3. PICK b \in (UNION {VisitedInside(c) : c \in Spends[t]}) \cup Range(Outs[t]) : s = b.script
    BY <1>4, Zenon DEF WitnessScripts
  <2>4. CASE b \in Range(Outs[t])
    BY <2>1, <2>3, <2>4
  <2>5. CASE b \in UNION {VisitedInside(c) : c \in Spends[t]}
    <3>1. PICK a \in Spends[t] : b \in VisitedInside(a)
      BY <2>5, Zenon
    <3> QED
      BY <2>2, <2>3, <3>1
  <2> QED
    BY <2>3, <2>4, <2>5
<1>5. \A s \in WitnessScripts(t) : NumIn(g, s) = NumIn(f, s)
  BY <1>4, NumKept
<1>6. WitnessesIn(g, t) = WitnessesIn(f, t)
  BY <1>5 DEF WitnessesIn
<1> QED
  BY <1>1, <1>3, <1>6

(* The keys of the multisig scripts in the files are there, too.           *)
HasKeys(files) ==
  \A n \in DOMAIN files["MULTISIG"] : \A k \in Keys[files["MULTISIG"][n]] :
    k \in Script /\ Has(files, k)

(* ... and so does what a multisig script adds.                            *)
LEMMA MultisigKept ==
  ASSUME NEW f, NEW g, Filed(f), Filed(g), Extends(f, g), HasKeys(f),
         NEW n \in DOMAIN f["MULTISIG"]
  PROVE  MultisigIn(g, n) = MultisigIn(f, n)
<1>1. g["MULTISIG"][n] = f["MULTISIG"][n]
  BY DEF Extends, Kinds
<1>2. \A k \in Keys[f["MULTISIG"][n]] : NumIn(g, k) = NumIn(f, k)
  BY NumKept DEF HasKeys
<1> QED
  BY <1>1, <1>2 DEF MultisigIn

(* Who reveals a script first.                                             *)
LEMMA FirstKept ==
  ASSUME NEW c \in Seq(Tx), NEW t \in Tx, NEW i \in DOMAIN c, NEW s, s \in Reveals(c[i])
  PROVE  FirstIn(Append(c, t), s) = FirstIn(c, s)
<1> DEFINE d == Append(c, t)
           L == Len(c)
<1>1. L \in Nat /\ DOMAIN c = 1..L
  BY LenProperties
<1>2. DOMAIN d = 1..(L + 1) /\ \A j \in 1..L : d[j] = c[j]
  <2>1. d \in Seq(Tx) /\ Len(d) = L + 1 /\ \A j \in 1..L : d[j] = c[j]
    BY AppendProperties
  <2> QED
    BY <2>1, LenProperties
<1> DEFINE T == {j \in 1..L : s \in Reveals(c[j])}
<1>3. T # {} /\ T \subseteq Nat
  BY <1>1
<1>4. PICK m \in T : \A y \in T : m <= y
  <2> HIDE DEF T
  <2> QED
    BY <1>3, LeastNumber
<1>5. m \in 1..L /\ s \in Reveals(c[m]) /\ \A j \in 1..L : s \in Reveals(c[j]) => m <= j
  BY <1>4
<1> HIDE DEF L, T, d
<1>6. \A j \in 1..(m - 1) : s \notin Reveals(c[j]) /\ d[j] = c[j]
  BY <1>1, <1>2, <1>5
<1>7. ASSUME NEW j \in DOMAIN c, s \in Reveals(c[j]), \A l \in 1..(j - 1) : s \notin Reveals(c[l])
      PROVE  j = m
  <2>1. m <= j /\ ~(m \in 1..(j - 1)) /\ j \in 1..L
    BY <1>1, <1>5, <1>7
  <2> QED
    BY <1>1, <1>5, <2>1
<1>8. ASSUME NEW j \in DOMAIN d, s \in Reveals(d[j]), \A l \in 1..(j - 1) : s \notin Reveals(d[l])
      PROVE  j = m
  <2>1. ~(m \in 1..(j - 1)) /\ j \in 1..(L + 1)
    BY <1>2, <1>5, <1>8
  <2>2. j <= m
    BY <1>1, <1>5, <2>1
  <2>3. j \in 1..L
    BY <1>1, <1>5, <2>1, <2>2
  <2>4. m <= j
    BY <1>2, <1>5, <1>8, <2>3
  <2> QED
    BY <1>1, <1>5, <2>2, <2>3, <2>4
<1>9. FirstIn(c, s) = m
  BY <1>1, <1>5, <1>6, <1>7 DEF FirstIn
<1>10. m \in DOMAIN d /\ s \in Reveals(d[m]) /\ \A j \in 1..(m - 1) : s \notin Reveals(d[j])
  BY <1>1, <1>2, <1>5, <1>6
<1>11. FirstIn(d, s) = m
  BY <1>8, <1>10 DEF FirstIn
<1> QED
  BY <1>9, <1>11 DEF d

(* The scripts that visit reaches from a spent one.                        *)
LEMMA VisitsKept ==
  ASSUME NEW c \in Seq(Tx), NEW t \in Tx, NEW i \in DOMAIN c
  PROVE  /\ Visits(Append(c, t), i) = Visits(c, i)
         /\ \A s \in Visits(c, i) :
              /\ Kind[s] = "SCRIPTHASH" /\ FirstIn(c, s) = i
              /\ \E a \in Spends[c[i]] : s \in {a.script} \cup Range(Inside[a.script])
<1>1. c[i] \in Tx /\ Append(c, t)[i] = c[i]
  BY LenProperties, ElementOfSeq, AppendProperties
<1>2. ASSUME NEW a \in Spends[c[i]], NEW path, path = <<a.script>> \o Inside[a.script]
      PROVE  /\ \A j \in DOMAIN path : FirstIn(Append(c, t), path[j]) = FirstIn(c, path[j])
             /\ \A j \in DOMAIN path : path[j] \in {a.script} \cup Range(Inside[a.script])
             /\ DOMAIN path = 1..Len(path) /\ Len(path) \in Nat
  <2>1. a.script \in Script /\ Inside[a.script] \in Seq(Script)
    BY <1>1, TxScripts, InsideFacts
  <2>2. path \in Seq(Script) /\ Range(path) = {a.script} \cup Range(Inside[a.script])
    BY <1>2, <2>1, RangeCons
  <2>3. \A j \in DOMAIN path : path[j] \in {a.script} \cup Range(Inside[a.script])
    BY <2>2 DEF Range
  <2>4. \A r \in {a.script} \cup Range(Inside[a.script]) : r \in Reveals(c[i])
    BY DEF Reveals
  <2>5. \A j \in DOMAIN path : FirstIn(Append(c, t), path[j]) = FirstIn(c, path[j])
    BY <2>3, <2>4, FirstKept
  <2>6. DOMAIN path = 1..Len(path) /\ Len(path) \in Nat
    BY <2>2, LenProperties
  <2> QED
    BY <2>3, <2>5, <2>6
<1>3. ASSUME NEW a \in Spends[c[i]]
      PROVE  /\ VisitedIn(Append(c, t), i, a.script) = VisitedIn(c, i, a.script)
             /\ \A s \in VisitedIn(c, i, a.script) :
                  /\ Kind[s] = "SCRIPTHASH" /\ FirstIn(c, s) = i
                  /\ s \in {a.script} \cup Range(Inside[a.script])
  <2> DEFINE path == <<a.script>> \o Inside[a.script]
             old(j) == \A l \in 1..j : Kind[path[l]] = "SCRIPTHASH" /\ FirstIn(c, path[l]) = i
             new(j) == \A l \in 1..j :
                         Kind[path[l]] = "SCRIPTHASH" /\ FirstIn(Append(c, t), path[l]) = i
  <2>1. /\ \A j \in DOMAIN path : FirstIn(Append(c, t), path[j]) = FirstIn(c, path[j])
        /\ \A j \in DOMAIN path : path[j] \in {a.script} \cup Range(Inside[a.script])
        /\ DOMAIN path = 1..Len(path) /\ Len(path) \in Nat
    BY <1>2
  <2>2. /\ VisitedIn(c, i, a.script) = {path[j] : j \in {j \in DOMAIN path : old(j)}}
        /\ VisitedIn(Append(c, t), i, a.script) = {path[j] : j \in {j \in DOMAIN path : new(j)}}
    BY Zenon DEF VisitedIn
  <2> HIDE DEF path
  <2>3. \A j \in DOMAIN path : j \in 1..j /\ \A l \in 1..j : l \in DOMAIN path
    BY <2>1
  <2>4. \A j \in DOMAIN path : old(j) <=> new(j)
    BY <2>1, <2>3
  <2>5. \A j \in DOMAIN path : old(j) => Kind[path[j]] = "SCRIPTHASH" /\ FirstIn(c, path[j]) = i
    BY <2>3
  <2> HIDE DEF old, new
  <2> QED
    BY <2>1, <2>2, <2>4, <2>5
<1>4. Visits(Append(c, t), i) = Visits(c, i)
  BY <1>1, <1>3 DEF Visits
<1> QED
  BY <1>3, <1>4 DEF Visits

(* ... and what the spent script hashes of a transaction add.              *)
LEMMA NestedKept ==
  ASSUME NEW f, NEW g, Filed(f), Filed(g), Extends(f, g),
         NEW c \in Seq(Tx), NEW t \in Tx, NEW i \in DOMAIN c, HasTx(f, c[i])
  PROVE  NestedIn(g, Append(c, t), i) = NestedIn(f, c, i)
<1>1. c[i] \in Tx
  BY LenProperties, ElementOfSeq
<1>2. ASSUME NEW s \in Visits(c, i)
      PROVE  NumIn(g, s) = NumIn(f, s) /\ AddressIn(g, Wrapped[s]) = AddressIn(f, Wrapped[s])
  <2>1. PICK a \in Spends[c[i]] : s \in {a.script} \cup Range(Inside[a.script])
    BY <1>2, VisitsKept
  <2>2. Kind[s] = "SCRIPTHASH"
    BY <1>2, VisitsKept
  <2>3. s \in Script /\ Wrapped[s].script \in Range(Inside[a.script]) /\ Has(f, s)
    BY <1>1, <2>1, <2>2, TxScripts DEF HasTx
  <2>4. Wrapped[s].script \in Script /\ Has(f, Wrapped[s].script)
    BY <1>1, <2>3, TxScripts DEF HasTx
  <2> QED
    BY <2>3, <2>4, NumKept DEF AddressIn
<1>3. Visits(Append(c, t), i) = Visits(c, i)
  BY VisitsKept
<1> QED
  BY <1>2, <1>3 DEF NestedIn

-----------------------------------------------------------------------------
(* The invariant of the other columns, until a rollback.  The scripts of   *)
(* the chain are in the files.                                             *)
FilesInv ==
  /\ Filed(scripts) /\ HasKeys(scripts)
  /\ \A i \in 1..Len(chain) : HasTx(scripts, chain[i])

CountInv ==
  /\ latest["address"].txCount <= Len(chain)
  /\ latest["address"].multisigs \in Nat
  /\ latest["address"].multisigs <= Len(scripts["MULTISIG"])
  /\ run # Idle => run.multisigs = Len(scripts["MULTISIG"])
  /\ run # Idle /\ run.ix = "address" =>
       /\ run.tx <= Len(chain)
       /\ run.multisig \in Nat /\ run.multisig <= Len(scripts["MULTISIG"])

(* Each column has what a rebuild up to latestState gives, and what the    *)
(* running update has added since, and nothing that is not of the chain.   *)
WitnessInv ==
  /\ \A i \in 1..latest["hash"].txCount : WitnessesOf(i) \subseteq wsh
  /\ run # Idle /\ run.ix = "hash" => \A i \in 1..run.tx : WitnessesOf(i) \subseteq wsh
  /\ \A e \in wsh : \E i \in 1..Len(chain) : e \in WitnessesOf(i)

OutputInv ==
  /\ \A i \in 1..latest["address"].txCount : OutputsOf(i) \subseteq outputs
  /\ run # Idle /\ run.ix = "address" => \A i \in 1..run.tx : OutputsOf(i) \subseteq outputs
  /\ \A e \in outputs : \E i \in 1..Len(chain) : e \in OutputsOf(i)

NestedInv ==
  /\ \A i \in 1..latest["address"].txCount : NestedOf(i) \subseteq nested
  /\ \A n \in 1..latest["address"].multisigs : MultisigOf(n) \subseteq nested
  /\ run # Idle /\ run.ix = "address" =>
       /\ \A i \in 1..run.tx : NestedOf(i) \subseteq nested
       /\ \A n \in 1..run.multisig : MultisigOf(n) \subseteq nested
  /\ \A e \in nested :
       \/ \E i \in 1..Len(chain) : e \in NestedOf(i)
       \/ \E n \in 1..Len(scripts["MULTISIG"]) : e \in MultisigOf(n)

ColumnInv == ~cut => FilesInv /\ CountInv /\ WitnessInv /\ OutputInv /\ NestedInv

(* The number of multisig scripts.                                         *)
LEMMA MultisigLen ==
  ASSUME NEW files, Filed(files)
  PROVE  Len(files["MULTISIG"]) \in Nat /\ DOMAIN files["MULTISIG"] = 1..Len(files["MULTISIG"])
<1>1. files["MULTISIG"] \in Seq(Script)
  BY DEF Filed, Kinds
<1> QED
  BY <1>1, LenProperties

(* A multisig script that comes up, comes up with its keys.                *)
LEMMA MetKeys ==
  ASSUME NEW t \in Tx, NEW m \in Range(Met(t)), Kind[m] = "MULTISIG", NEW k \in Keys[m]
  PROVE  k \in Script /\ k \in Range(Met(t))
<1>1. CASE \E a \in Spends[t] : m \in Range(Inside[a.script])
  <2>1. PICK a \in Spends[t] : m \in Range(Inside[a.script])
    BY <1>1
  <2>2. k \in Range(Inside[a.script]) /\ a.script \in Script
    BY <2>1, TxScripts
  <2>3. k \in Script
    BY <2>2, InsideFacts
  <2> QED
    BY <2>2, <2>3, MetFacts
<1>2. ASSUME NEW o \in Range(Outs[t]),
             m = o.script \/ (Kind[o.script] # "SCRIPTHASH" /\ m \in Range(Inside[o.script]))
      PROVE  k \in Script /\ k \in Range(Met(t))
  <2>1. o.script \in Script
    BY TxScripts
  <2>2. m = o.script
    <3>1. /\ Kind[o.script] \in Kinds
          /\ Kind[o.script] = "MULTISIG" => \A r \in Range(Inside[o.script]) : Kind[r] = "PUBKEY"
          /\ Kind[o.script] = "PUBKEY" => Range(Inside[o.script]) = {}
      <4>1. /\ Kind[o.script] \in Kinds
            /\ Kind[o.script] = "MULTISIG" =>
                 /\ Range(Inside[o.script]) = Keys[o.script]
                 /\ \A r \in Keys[o.script] : Kind[r] = "PUBKEY"
            /\ Kind[o.script] = "PUBKEY" => Range(Inside[o.script]) = {}
        BY <2>1, InsideFacts, Zenon
      <4> QED
        BY <4>1, Zenon
    <3> QED
      BY <1>2, <3>1 DEF Kinds
  <2>3. k \in Range(Inside[o.script]) /\ k \in Script
    BY <2>1, <2>2, InsideFacts
  <2> QED
    BY <2>2, <2>3, MetFacts
<1> QED
  BY <1>1, <1>2, MetFacts

(* One more transaction: its scripts get into the files, and what the      *)
(* earlier ones add to the columns stays the same.                         *)
LEMMA ChainGrows ==
  ASSUME HashInv, FilesInv, NEW t \in Tx, AddTx(t)
  PROVE  /\ FilesInv'
         /\ Len(scripts["MULTISIG"]) \in Nat /\ Len(scripts'["MULTISIG"]) \in Nat
         /\ Len(scripts["MULTISIG"]) <= Len(scripts'["MULTISIG"])
         /\ Len(chain) \in Nat /\ Len(chain') = Len(chain) + 1
         /\ \A i \in 1..Len(chain) :
              /\ WitnessesOf(i)' = WitnessesOf(i) /\ OutputsOf(i)' = OutputsOf(i)
              /\ NestedOf(i)' = NestedOf(i)
         /\ \A n \in 1..Len(scripts["MULTISIG"]) : MultisigOf(n)' = MultisigOf(n)
<1>1. /\ chain \in Seq(Tx) /\ Len(chain) \in Nat /\ DOMAIN chain = 1..Len(chain)
  BY ChainFacts DEF HashInv, TypeInv
<1>2. /\ chain' = Append(chain, t) /\ scripts' = AfterTx(scripts, t)
      /\ \A a \in Spends[t] : \E i \in DOMAIN chain : a \in Range(Outs[chain[i]])
  BY DEF AddTx
<1>3. /\ Len(chain') = Len(chain) + 1 /\ chain'[Len(chain) + 1] = t
      /\ \A i \in 1..Len(chain) : chain'[i] = chain[i] /\ chain[i] \in Tx
  BY <1>1, <1>2, AppendProperties, ElementOfSeq
<1>4. Filed(scripts) /\ HasKeys(scripts) /\ \A i \in 1..Len(chain) : HasTx(scripts, chain[i])
  BY DEF FilesInv
<1>5. /\ Filed(scripts') /\ Extends(scripts, scripts')
      /\ \A s \in Range(Met(t)) : s \in Script /\ Has(scripts', s)
      /\ \A k \in Kinds : \A s \in Range(scripts'[k]) : s \in Range(scripts[k]) \/ s \in Range(Met(t))
  BY <1>2, <1>4, AfterTxFacts DEF Has
<1>6. /\ Len(scripts["MULTISIG"]) \in Nat /\ DOMAIN scripts["MULTISIG"] = 1..Len(scripts["MULTISIG"])
      /\ Len(scripts'["MULTISIG"]) \in Nat
  BY <1>4, <1>5, MultisigLen
<1>7. Len(scripts["MULTISIG"]) <= Len(scripts'["MULTISIG"])
  BY <1>5 DEF Extends, Kinds
<1>8. \A i \in 1..Len(chain) : HasTx(scripts', chain[i])
  BY <1>3, <1>4, <1>5, TxKept
<1>9. HasTx(scripts', t)
  <2>1. \A o \in Range(Outs[t]) : Has(scripts', o.script)
    <3> TAKE o \in Range(Outs[t])
    <3>1. o.script \in Range(Met(t))
      BY MetFacts
    <3> QED
      BY <1>5, <3>1
  <2>2. ASSUME NEW a \in Spends[t], NEW r \in {a.script} \cup Range(Inside[a.script])
        PROVE  Has(scripts', r)
    <3>1. CASE r = a.script
      <4>1. PICK i \in DOMAIN chain : a \in Range(Outs[chain[i]])
        BY <1>2
      <4>2. HasTx(scripts', chain[i])
        BY <1>1, <1>8, <4>1
      <4> QED
        BY <3>1, <4>1, <4>2 DEF HasTx
    <3>2. CASE r \in Range(Inside[a.script])
      <4>1. r \in Range(Met(t))
        BY <3>2, MetFacts
      <4> QED
        BY <1>5, <4>1
    <3> QED
      BY <3>1, <3>2
  <2> QED
    BY <2>1, <2>2 DEF HasTx
<1>10. HasKeys(scripts')
  <2> SUFFICES ASSUME NEW n \in DOMAIN scripts'["MULTISIG"], NEW m, m = scripts'["MULTISIG"][n],
                      NEW k \in Keys[m]
               PROVE  k \in Script /\ Has(scripts', k)
    BY DEF HasKeys
  <2>1. m \in Range(scripts'["MULTISIG"]) /\ Kind[m] = "MULTISIG"
    BY <1>5 DEF Range, Filed, Kinds
  <2>2. m \in Range(scripts["MULTISIG"]) \/ m \in Range(Met(t))
    BY <1>5, <2>1 DEF Kinds
  <2>3. CASE m \in Range(scripts["MULTISIG"])
    <3>1. k \in Script /\ Has(scripts, k)
      BY <1>4, <2>3 DEF HasKeys, Range
    <3> QED
      BY <1>4, <1>5, <3>1, NumKept
  <2>4. CASE m \in Range(Met(t))
    BY <1>5, <2>1, <2>4, MetKeys
  <2> QED
    BY <2>2, <2>3, <2>4
<1>11. FilesInv'
  <2>1. \A i \in 1..Len(chain') : HasTx(scripts', chain'[i])
    <3> TAKE i \in 1..Len(chain')
    <3>1. i \in 1..Len(chain) \/ i = Len(chain) + 1
      BY <1>1, <1>3
    <3> QED
      BY <1>3, <1>8, <1>9, <3>1
  <2> QED
    BY <1>5, <1>10, <2>1 DEF FilesInv
<1>12. ASSUME NEW i \in 1..Len(chain)
       PROVE  /\ WitnessesOf(i)' = WitnessesOf(i) /\ OutputsOf(i)' = OutputsOf(i)
              /\ NestedOf(i)' = NestedOf(i)
  <2>1. chain'[i] = chain[i] /\ chain[i] \in Tx /\ HasTx(scripts, chain[i]) /\ i \in DOMAIN chain
    BY <1>1, <1>3, <1>4
  <2>2. /\ OutputsIn(scripts', chain[i], i) = OutputsIn(scripts, chain[i], i)
        /\ WitnessesIn(scripts', chain[i]) = WitnessesIn(scripts, chain[i])
    BY <1>4, <1>5, <2>1, TxKept
  <2>3. NestedIn(scripts', chain', i) = NestedIn(scripts, chain, i)
    BY <1>1, <1>2, <1>4, <1>5, <2>1, NestedKept
  <2>4. /\ WitnessesOf(i)' = WitnessesIn(scripts', chain'[i]) /\ OutputsOf(i)' = OutputsIn(scripts', chain'[i], i)
        /\ NestedOf(i)' = NestedIn(scripts', chain', i)
    BY ColumnFormsNext
  <2>5. /\ WitnessesOf(i) = WitnessesIn(scripts, chain[i]) /\ OutputsOf(i) = OutputsIn(scripts, chain[i], i)
        /\ NestedOf(i) = NestedIn(scripts, chain, i)
    BY ColumnForms
  <2> QED
    BY <2>1, <2>2, <2>3, <2>4, <2>5
<1>13. ASSUME NEW n \in 1..Len(scripts["MULTISIG"])
       PROVE  MultisigOf(n)' = MultisigOf(n)
  <2>1. MultisigIn(scripts', n) = MultisigIn(scripts, n)
    BY <1>4, <1>5, <1>6, MultisigKept
  <2>2. MultisigOf(n) = MultisigIn(scripts, n)
    BY ColumnForms
  <2>3. MultisigOf(n)' = MultisigIn(scripts', n)
    BY ColumnFormsNext
  <2> QED
    BY <2>1, <2>2, <2>3
<1> QED
  BY <1>1, <1>3, <1>6, <1>7, <1>11, <1>12, <1>13

(* The chain grows by a transaction: the columns lose nothing.             *)
LEMMA AddTxColumns ==
  ASSUME HashInv, ColumnInv, NEW t \in Tx, AddTx(t)
  PROVE  ColumnInv'
<1>1. run = Idle /\ run' = Idle /\ UNCHANGED <<latest, wsh, outputs, nested, cut>>
  BY DEF AddTx, db
<1> SUFFICES ASSUME ~cut
             PROVE  FilesInv' /\ CountInv' /\ WitnessInv' /\ OutputInv' /\ NestedInv'
  BY <1>1 DEF ColumnInv
<1>2. FilesInv /\ CountInv /\ WitnessInv /\ OutputInv /\ NestedInv
  BY DEF ColumnInv
<1>3. /\ FilesInv'
      /\ Len(scripts["MULTISIG"]) \in Nat /\ Len(scripts'["MULTISIG"]) \in Nat
      /\ Len(scripts["MULTISIG"]) <= Len(scripts'["MULTISIG"])
      /\ Len(chain) \in Nat /\ Len(chain') = Len(chain) + 1
      /\ \A i \in 1..Len(chain) :
           /\ WitnessesOf(i)' = WitnessesOf(i) /\ OutputsOf(i)' = OutputsOf(i)
           /\ NestedOf(i)' = NestedOf(i)
      /\ \A n \in 1..Len(scripts["MULTISIG"]) : MultisigOf(n)' = MultisigOf(n)
  BY <1>2, ChainGrows
<1>4. /\ latest["hash"].txCount \in Nat /\ latest["hash"].txCount <= Len(chain)
      /\ latest["address"].txCount \in Nat /\ latest["address"].txCount <= Len(chain)
      /\ latest["address"].multisigs \in Nat
      /\ latest["address"].multisigs <= Len(scripts["MULTISIG"])
  BY <1>2 DEF HashInv, LowerInv, TypeInv, Indexes, CountInv
<1>5. ASSUME NEW a \in Nat, NEW b \in Nat, a <= b, NEW i \in 1..a PROVE i \in 1..b
  BY <1>5
<1>6. CountInv'
  <2>1. latest["address"].txCount <= Len(chain')
    BY <1>3, <1>4
  <2>2. latest["address"].multisigs <= Len(scripts'["MULTISIG"])
    BY <1>3, <1>4
  <2> QED
    BY <1>1, <1>4, <2>1, <2>2 DEF CountInv
<1>7. Len(chain) <= Len(chain') /\ Len(chain') \in Nat
  BY <1>3
<1>8. WitnessInv'
  <2>1. \A i \in 1..latest["hash"].txCount : WitnessesOf(i)' \subseteq wsh
    BY <1>2, <1>3, <1>4, <1>5 DEF WitnessInv
  <2>2. \A e \in wsh : \E i \in 1..Len(chain') : e \in WitnessesOf(i)'
    BY <1>2, <1>3, <1>5, <1>7 DEF WitnessInv
  <2> QED
    BY <1>1, <2>1, <2>2 DEF WitnessInv
<1>9. OutputInv'
  <2>1. \A i \in 1..latest["address"].txCount : OutputsOf(i)' \subseteq outputs
    BY <1>2, <1>3, <1>4, <1>5 DEF OutputInv
  <2>2. \A e \in outputs : \E i \in 1..Len(chain') : e \in OutputsOf(i)'
    BY <1>2, <1>3, <1>5, <1>7 DEF OutputInv
  <2> QED
    BY <1>1, <2>1, <2>2 DEF OutputInv
<1>10. NestedInv'
  <2>1. \A i \in 1..latest["address"].txCount : NestedOf(i)' \subseteq nested
    BY <1>2, <1>3, <1>4, <1>5 DEF NestedInv
  <2>2. \A n \in 1..latest["address"].multisigs : MultisigOf(n)' \subseteq nested
    BY <1>2, <1>3, <1>4, <1>5 DEF NestedInv
  <2>3. ASSUME NEW e \in nested
        PROVE  \/ \E i \in 1..Len(chain') : e \in NestedOf(i)'
               \/ \E n \in 1..Len(scripts'["MULTISIG"]) : e \in MultisigOf(n)'
    <3>1. CASE \E i \in 1..Len(chain) : e \in NestedOf(i)
      BY <1>3, <1>5, <1>7, <3>1
    <3>2. CASE \E n \in 1..Len(scripts["MULTISIG"]) : e \in MultisigOf(n)
      BY <1>3, <1>5, <3>2
    <3> QED
      BY <1>2, <3>1, <3>2 DEF NestedInv
  <2> QED
    BY <1>1, <2>1, <2>2, <2>3 DEF NestedInv
<1> QED
  BY <1>3, <1>6, <1>8, <1>9, <1>10

(* Nothing changes what the entries of a transaction are but the chain.    *)
LEMMA SameEntries ==
  ASSUME UNCHANGED <<chain, scripts>>
  PROVE  /\ \A i : WitnessesOf(i)' = WitnessesOf(i)
         /\ \A i : OutputsOf(i)' = OutputsOf(i)
         /\ \A i : NestedOf(i)' = NestedOf(i)
         /\ \A n : MultisigOf(n)' = MultisigOf(n)
<1>1. chain' = chain /\ scripts' = scripts
  OBVIOUS
<1>2. /\ \A i : OutputsOf(i)' = OutputsIn(scripts, chain[i], i)
      /\ \A i : WitnessesOf(i)' = WitnessesIn(scripts, chain[i])
      /\ \A i : NestedOf(i)' = NestedIn(scripts, chain, i)
      /\ \A n : MultisigOf(n)' = MultisigIn(scripts, n)
  BY <1>1, ColumnFormsNext
<1> QED
  BY <1>2, ColumnForms

(* An update starts, ends or is killed.                                    *)
LEMMA UpdateColumns ==
  ASSUME HashInv, ColumnInv,
         (\E ix \in Indexes : StartUpdate(ix)) \/ FinishUpdate \/ Kill \/ UNCHANGED vars
  PROVE  ColumnInv'
<1>1. UNCHANGED <<chain, scripts, wsh, outputs, nested, cut>>
  BY DEF StartUpdate, FinishUpdate, Kill, vars, db
<1> SUFFICES ASSUME ~cut
             PROVE  FilesInv' /\ CountInv' /\ WitnessInv' /\ OutputInv' /\ NestedInv'
  BY <1>1 DEF ColumnInv
<1>2. FilesInv /\ CountInv /\ WitnessInv /\ OutputInv /\ NestedInv
  BY DEF ColumnInv
<1>3. FilesInv'
  BY <1>1, <1>2 DEF FilesInv, Filed, HasKeys, HasTx, Has
<1>4. /\ \A i : WitnessesOf(i)' = WitnessesOf(i)
      /\ \A i : OutputsOf(i)' = OutputsOf(i)
      /\ \A i : NestedOf(i)' = NestedOf(i)
      /\ \A n : MultisigOf(n)' = MultisigOf(n)
  BY <1>1, SameEntries
<1>5. /\ TypeInv /\ RunInv /\ LowerInv /\ Len(chain) \in Nat
      /\ Len(scripts["MULTISIG"]) \in Nat
  BY <1>2, ChainFacts, MultisigLen DEF HashInv, FilesInv
<1>6. ASSUME NEW ix \in Indexes, StartUpdate(ix)
      PROVE  CountInv' /\ WitnessInv' /\ OutputInv' /\ NestedInv'
  <2>1. /\ run' = [ix |-> ix, tx |-> latest[ix].txCount, multisig |-> latest[ix].multisigs,
                   txCount |-> Len(chain), multisigs |-> Len(scripts["MULTISIG"])]
        /\ UNCHANGED latest
    BY <1>6 DEF StartUpdate
  <2>2. /\ run'.ix = ix /\ run'.tx = latest[ix].txCount /\ run'.multisig = latest[ix].multisigs
        /\ run'.multisigs = Len(scripts["MULTISIG"])
    BY <2>1
  <2> QED
    BY <1>1, <1>2, <1>4, <2>1, <2>2 DEF CountInv, WitnessInv, OutputInv, NestedInv
<1>7. ASSUME FinishUpdate
      PROVE  CountInv' /\ WitnessInv' /\ OutputInv' /\ NestedInv'
  <2>1. /\ run # Idle /\ run.tx >= run.txCount /\ run' = Idle
        /\ run.ix = "address" => run.multisig >= run.multisigs
        /\ latest' = [latest EXCEPT ![run.ix] =
             [txCount |-> run.txCount, multisigs |-> run.multisigs]]
    BY <1>7 DEF FinishUpdate
  <2>2. /\ run.ix \in Indexes /\ run.txCount = Len(chain) /\ run.tx \in Nat
        /\ run.multisigs = Len(scripts["MULTISIG"])
    BY <1>2, <1>5, <2>1 DEF RunInv, CountInv
  <2>3. /\ latest'[run.ix] = [txCount |-> Len(chain), multisigs |-> Len(scripts["MULTISIG"])]
        /\ \A ix \in Indexes : ix # run.ix => latest'[ix] = latest[ix]
    BY <1>5, <2>1, <2>2 DEF TypeInv
  <2>4. CASE run.ix = "hash"
    <3>1. run.tx = Len(chain)
      BY <1>5, <2>1, <2>2, <2>4 DEF LowerInv
    <3>2. latest'["hash"].txCount = Len(chain) /\ latest'["address"] = latest["address"]
      BY <2>3, <2>4 DEF Indexes
    <3> QED
      BY <1>1, <1>2, <1>4, <2>1, <2>4, <3>1, <3>2 DEF CountInv, WitnessInv, OutputInv, NestedInv
  <2>5. CASE run.ix = "address"
    <3>1. run.tx = Len(chain) /\ run.multisig = Len(scripts["MULTISIG"])
      BY <1>2, <1>5, <2>1, <2>2, <2>5 DEF CountInv
    <3>2. /\ latest'["hash"] = latest["hash"] /\ latest'["address"].txCount = Len(chain)
          /\ latest'["address"].multisigs = Len(scripts["MULTISIG"])
      BY <2>3, <2>5 DEF Indexes
    <3> QED
      BY <1>1, <1>2, <1>4, <1>5, <2>1, <2>5, <3>1, <3>2 DEF CountInv, WitnessInv, OutputInv, NestedInv
  <2> QED
    BY <2>2, <2>4, <2>5 DEF Indexes
<1>8. ASSUME Kill
      PROVE  CountInv' /\ WitnessInv' /\ OutputInv' /\ NestedInv'
  <2>1. run' = Idle /\ UNCHANGED latest
    BY <1>8 DEF Kill
  <2> QED
    BY <1>1, <1>2, <1>4, <2>1 DEF CountInv, WitnessInv, OutputInv, NestedInv
<1>9. ASSUME UNCHANGED vars
      PROVE  CountInv' /\ WitnessInv' /\ OutputInv' /\ NestedInv'
  <2>1. UNCHANGED <<run, latest>>
    BY <1>9 DEF vars
  <2> QED
    BY <1>1, <1>2, <1>4, <2>1 DEF CountInv, WitnessInv, OutputInv, NestedInv
<1> QED
  BY <1>3, <1>6, <1>7, <1>8, <1>9

(* A witness script hash that is put again has the number it had.          *)
LEMMA PutWitnesses ==
  ASSUME NEW i, \A e \in wsh : \E j \in 1..Len(chain) : e \in WitnessesOf(j),
         NEW map, map = Put(wsh, WitnessesOf(i))
  PROVE  map = wsh \cup WitnessesOf(i)
<1>1. ASSUME NEW e \in wsh, NEW f \in WitnessesOf(i), e[1] = f[1]
      PROVE  e = f
  <2>1. PICK j \in 1..Len(chain) : e \in WitnessesOf(j)
    OBVIOUS
  <2>2. e \in WitnessesIn(scripts, chain[j]) /\ f \in WitnessesIn(scripts, chain[i])
    BY <2>1, ColumnForms
  <2> QED
    BY <1>1, <2>2 DEF WitnessesIn
<1> QED
  BY <1>1 DEF Put

(* An update puts what one transaction or one multisig script adds.        *)
LEMMA ProcessColumns ==
  ASSUME HashInv, ColumnInv, ProcessTx \/ ProcessScript
  PROVE  ColumnInv'
<1>1. UNCHANGED <<chain, scripts, latest, cut>> /\ run # Idle
  BY DEF ProcessTx, ProcessScript
<1> SUFFICES ASSUME ~cut
             PROVE  FilesInv' /\ CountInv' /\ WitnessInv' /\ OutputInv' /\ NestedInv'
  BY <1>1 DEF ColumnInv
<1>2. FilesInv /\ CountInv /\ WitnessInv /\ OutputInv /\ NestedInv
  BY DEF ColumnInv
<1>3. FilesInv'
  BY <1>1, <1>2 DEF FilesInv, Filed, HasKeys, HasTx, Has
<1>4. /\ \A i : WitnessesOf(i)' = WitnessesOf(i)
      /\ \A i : OutputsOf(i)' = OutputsOf(i)
      /\ \A i : NestedOf(i)' = NestedOf(i)
      /\ \A n : MultisigOf(n)' = MultisigOf(n)
  BY <1>1, SameEntries
<1>5. /\ TypeInv /\ RunInv /\ LowerInv /\ Len(chain) \in Nat
      /\ Len(scripts["MULTISIG"]) \in Nat
  BY <1>2, ChainFacts, MultisigLen DEF HashInv, FilesInv
<1>6. /\ DOMAIN run = RunFields /\ run.ix \in Indexes /\ run.tx \in Nat /\ run.txCount = Len(chain)
      /\ run.multisigs = Len(scripts["MULTISIG"])
  BY <1>1, <1>2, <1>5 DEF RunInv, CountInv
<1>7. ASSUME ProcessTx, run.ix = "hash"
      PROVE  CountInv' /\ WitnessInv' /\ OutputInv' /\ NestedInv'
  <2>1. /\ run.tx < Len(chain) /\ run' = [run EXCEPT !.tx = @ + 1]
        /\ wsh' = Put(wsh, WitnessesOf(run.tx + 1)) /\ UNCHANGED <<outputs, nested>>
    BY <1>6, <1>7 DEF ProcessTx
  <2>2. run'.ix = "hash" /\ run'.tx = run.tx + 1 /\ run'.multisigs = run.multisigs
    BY <1>6, <1>7, <2>1 DEF RunFields
  <2>3. run.tx + 1 \in 1..Len(chain) /\ \A i \in 1..(run.tx + 1) : i \in 1..run.tx \/ i = run.tx + 1
    BY <1>5, <1>6, <2>1
  <2>4. wsh' = wsh \cup WitnessesOf(run.tx + 1)
    BY <1>2, <2>1, PutWitnesses DEF WitnessInv
  <2>5. WitnessInv'
    <3>1. \A i \in 1..(run.tx + 1) : WitnessesOf(i) \subseteq wsh'
      BY <1>1, <1>2, <1>7, <2>3, <2>4 DEF WitnessInv
    <3>2. \A i \in 1..latest["hash"].txCount : WitnessesOf(i) \subseteq wsh'
      BY <1>2, <2>4 DEF WitnessInv
    <3>3. \A e \in wsh' : \E i \in 1..Len(chain) : e \in WitnessesOf(i)
      BY <1>2, <2>3, <2>4 DEF WitnessInv
    <3> QED
      BY <1>1, <1>4, <2>2, <3>1, <3>2, <3>3 DEF WitnessInv
  <2>6. CountInv' /\ OutputInv' /\ NestedInv'
    BY <1>1, <1>2, <1>4, <1>6, <2>1, <2>2 DEF CountInv, OutputInv, NestedInv
  <2> QED
    BY <2>5, <2>6
<1>8. ASSUME ProcessTx, run.ix = "address"
      PROVE  CountInv' /\ WitnessInv' /\ OutputInv' /\ NestedInv'
  <2>1. /\ run.tx < Len(chain) /\ run' = [run EXCEPT !.tx = @ + 1] /\ UNCHANGED wsh
        /\ outputs' = outputs \cup OutputsOf(run.tx + 1)
        /\ nested' = nested \cup NestedOf(run.tx + 1)
    BY <1>6, <1>8 DEF ProcessTx
  <2>2. /\ run'.ix = "address" /\ run'.tx = run.tx + 1 /\ run'.multisigs = run.multisigs
        /\ run'.multisig = run.multisig
    BY <1>6, <1>8, <2>1 DEF RunFields
  <2>3. run.tx + 1 \in 1..Len(chain) /\ \A i \in 1..(run.tx + 1) : i \in 1..run.tx \/ i = run.tx + 1
    BY <1>5, <1>6, <2>1
  <2>4. CountInv'
    <3>1. run.tx + 1 <= Len(chain)
      BY <1>5, <1>6, <2>1
    <3> QED
      BY <1>1, <1>2, <1>8, <2>2, <3>1 DEF CountInv
  <2>5. OutputInv'
    <3>1. \A i \in 1..(run.tx + 1) : OutputsOf(i) \subseteq outputs'
      BY <1>1, <1>2, <1>8, <2>1, <2>3 DEF OutputInv
    <3>2. \A i \in 1..latest["address"].txCount : OutputsOf(i) \subseteq outputs'
      BY <1>2, <2>1 DEF OutputInv
    <3>3. \A e \in outputs' : \E i \in 1..Len(chain) : e \in OutputsOf(i)
      BY <1>2, <2>1, <2>3 DEF OutputInv
    <3> QED
      BY <1>1, <1>4, <2>2, <3>1, <3>2, <3>3 DEF OutputInv
  <2>6. NestedInv'
    <3>1. \A i \in 1..(run.tx + 1) : NestedOf(i) \subseteq nested'
      BY <1>1, <1>2, <1>8, <2>1, <2>3 DEF NestedInv
    <3>2. /\ \A i \in 1..latest["address"].txCount : NestedOf(i) \subseteq nested'
          /\ \A n \in 1..latest["address"].multisigs : MultisigOf(n) \subseteq nested'
          /\ \A n \in 1..run.multisig : MultisigOf(n) \subseteq nested'
      BY <1>1, <1>2, <1>8, <2>1 DEF NestedInv
    <3>3. \A e \in nested' : \/ \E i \in 1..Len(chain) : e \in NestedOf(i)
                             \/ \E n \in 1..Len(scripts["MULTISIG"]) : e \in MultisigOf(n)
      BY <1>2, <2>1, <2>3 DEF NestedInv
    <3> QED
      BY <1>1, <1>4, <2>2, <3>1, <3>2, <3>3 DEF NestedInv
  <2>7. WitnessInv'
    BY <1>1, <1>2, <1>4, <2>1, <2>2 DEF WitnessInv
  <2> QED
    BY <2>4, <2>5, <2>6, <2>7
<1>9. ASSUME ProcessScript
      PROVE  CountInv' /\ WitnessInv' /\ OutputInv' /\ NestedInv'
  <2>1. /\ run.ix = "address" /\ run.multisig < run.multisigs
        /\ run' = [run EXCEPT !.multisig = @ + 1] /\ UNCHANGED <<wsh, outputs>>
        /\ nested' = nested \cup MultisigOf(run.multisig + 1)
    BY <1>9 DEF ProcessScript
  <2>2. /\ run'.ix = "address" /\ run'.tx = run.tx /\ run'.multisigs = run.multisigs
        /\ run'.multisig = run.multisig + 1
    BY <1>6, <2>1 DEF RunFields
  <2>3. run.multisig \in Nat
    BY <1>1, <1>2, <2>1 DEF CountInv
  <2>4. /\ run.multisig + 1 \in 1..Len(scripts["MULTISIG"])
        /\ \A n \in 1..(run.multisig + 1) : n \in 1..run.multisig \/ n = run.multisig + 1
    BY <1>5, <1>6, <2>1, <2>3
  <2>5. CountInv'
    <3>1. run.multisig + 1 <= Len(scripts["MULTISIG"])
      BY <1>5, <1>6, <2>1, <2>3
    <3> QED
      BY <1>1, <1>2, <2>1, <2>2, <2>3, <3>1 DEF CountInv
  <2>6. NestedInv'
    <3>1. \A n \in 1..(run.multisig + 1) : MultisigOf(n) \subseteq nested'
      BY <1>1, <1>2, <2>1, <2>4 DEF NestedInv
    <3>2. /\ \A i \in 1..latest["address"].txCount : NestedOf(i) \subseteq nested'
          /\ \A n \in 1..latest["address"].multisigs : MultisigOf(n) \subseteq nested'
          /\ \A i \in 1..run.tx : NestedOf(i) \subseteq nested'
      BY <1>1, <1>2, <2>1 DEF NestedInv
    <3>3. \A e \in nested' : \/ \E i \in 1..Len(chain) : e \in NestedOf(i)
                             \/ \E n \in 1..Len(scripts["MULTISIG"]) : e \in MultisigOf(n)
      BY <1>2, <2>1, <2>4 DEF NestedInv
    <3> QED
      BY <1>1, <1>4, <2>2, <3>1, <3>2, <3>3 DEF NestedInv
  <2>7. WitnessInv' /\ OutputInv'
    BY <1>1, <1>2, <1>4, <2>1, <2>2 DEF WitnessInv, OutputInv
  <2> QED
    BY <2>5, <2>6, <2>7
<1> QED
  BY <1>3, <1>6, <1>7, <1>8, <1>9 DEF Indexes

(* The inductive invariant of all columns.                                 *)
THEOREM ColumnInvariance == Spec => []ColumnInv
<1>1. Init => ColumnInv
  <2> SUFFICES ASSUME Init
               PROVE  FilesInv /\ CountInv /\ WitnessInv /\ OutputInv /\ NestedInv
    BY DEF ColumnInv
  <2>1. /\ chain = << >> /\ run = Idle /\ wsh = {} /\ outputs = {} /\ nested = {}
        /\ scripts = [k \in Kinds |-> << >>]
        /\ latest = [ix \in Indexes |-> [txCount |-> 0, multisigs |-> 0]]
    BY DEF Init
  <2>2. Len(chain) = 0 /\ << >> \in Seq(Script) /\ DOMAIN << >> = {} /\ Len(<< >>) = 0
    BY <2>1, EmptySeq
  <2>3. \A k \in Kinds : scripts[k] = << >>
    BY <2>1
  <2>4. scripts["MULTISIG"] = << >>
    BY <2>3 DEF Kinds
  <2>5. \A ix \in Indexes : latest[ix].txCount = 0 /\ latest[ix].multisigs = 0
    BY <2>1
  <2>6. /\ latest["hash"].txCount = 0 /\ latest["address"].txCount = 0
        /\ latest["address"].multisigs = 0
    BY <2>5 DEF Indexes
  <2>7. 1..0 = {}
    OBVIOUS
  <2>8. scripts \in [Kinds -> Seq(Script)]
    BY <2>1, <2>2
  <2>9. Filed(scripts)
    BY <2>2, <2>3, <2>8 DEF Filed
  <2>10. FilesInv
    BY <2>2, <2>4, <2>7, <2>9 DEF FilesInv, HasKeys
  <2>11. CountInv
    BY <2>1, <2>2, <2>4, <2>6 DEF CountInv
  <2>12. WitnessInv /\ OutputInv
    BY <2>1, <2>6, <2>7, Zenon DEF WitnessInv, OutputInv
  <2>13. NestedInv
    BY <2>1, <2>6, <2>7, Zenon DEF NestedInv
  <2> QED
    BY <2>10, <2>11, <2>12, <2>13
<1>2. HashInv /\ ColumnInv /\ [Next]_vars => ColumnInv'
  <2> SUFFICES ASSUME HashInv, ColumnInv, [Next]_vars PROVE ColumnInv'
    OBVIOUS
  <2>1. ASSUME NEW n \in 0..(Len(chain) - 1), Rollback(n) PROVE ColumnInv'
    BY <2>1 DEF Rollback, ColumnInv
  <2> QED
    BY AddTxColumns, UpdateColumns, ProcessColumns, <2>1 DEF Next, Done
<1> QED
  BY HashInvariance, <1>1, <1>2, PTL DEF Spec

(* While the chain only grows, both indexes have at least what a rebuild   *)
(* up to latestState would give and at most what one of the whole chain    *)
(* would, in every column: hashes of transactions and of witness scripts,  *)
(* outputs of addresses, and which script is inside which.                 *)
THEOREM IndexesAreRebuilt == Spec => []IndexesMatchRebuild
<1>1. TxsMatchRebuild /\ ColumnInv => IndexesMatchRebuild
  <2> SUFFICES ASSUME TxsMatchRebuild, ColumnInv, ~cut
               PROVE  /\ Between(WitnessEntries(latest["hash"].txCount), wsh, WitnessEntries(Len(chain)))
                      /\ Between(OutputEntries(latest["address"].txCount), outputs, OutputEntries(Len(chain)))
                      /\ Between(NestedEntries(latest["address"].txCount, latest["address"].multisigs),
                                 nested, NestedEntries(Len(chain), Len(scripts["MULTISIG"])))
    BY DEF IndexesMatchRebuild
  <2>1. WitnessInv /\ OutputInv /\ NestedInv
    BY DEF ColumnInv
  <2>2. Between(WitnessEntries(latest["hash"].txCount), wsh, WitnessEntries(Len(chain)))
    BY <2>1 DEF WitnessInv, Between, WitnessEntries
  <2>3. Between(OutputEntries(latest["address"].txCount), outputs, OutputEntries(Len(chain)))
    BY <2>1 DEF OutputInv, Between, OutputEntries
  <2>4. Between(NestedEntries(latest["address"].txCount, latest["address"].multisigs),
                nested, NestedEntries(Len(chain), Len(scripts["MULTISIG"])))
    BY <2>1 DEF NestedInv, Between, NestedEntries
  <2> QED
    BY <2>2, <2>3, <2>4
<1> QED
  BY TxsAreRebuilt, ColumnInvariance, <1>1, PTL

-----------------------------------------------------------------------------
(* What a search reaches: the ends of the paths of at most MaxDepth links. *)
PathOf(links, a, b, m) ==
  \E p : /\ p[0] = a /\ p[m] = b
         /\ \A i \in 0..m : p[i] \in DOMAIN links
         /\ \A i \in 1..m : p[i] \in links[p[i - 1]]

(* A path and one more link.                                               *)
LEMMA PathStep ==
  ASSUME NEW links, NEW a, NEW b, NEW m \in Nat, PathOf(links, a, b, m),
         NEW x \in links[b], x \in DOMAIN links
  PROVE  PathOf(links, a, x, m + 1)
<1>1. PICK p : /\ p[0] = a /\ p[m] = b
               /\ \A i \in 0..m : p[i] \in DOMAIN links
               /\ \A i \in 1..m : p[i] \in links[p[i - 1]]
  BY DEF PathOf
<1> DEFINE q == [i \in 0..(m + 1) |-> IF i <= m THEN p[i] ELSE x]
<1>2. \A i \in 0..m : q[i] = p[i]
  OBVIOUS
<1>3. q[m + 1] = x
  OBVIOUS
<1> HIDE DEF q
<1>4. q[0] = a
  BY <1>1, <1>2
<1>5. \A i \in 0..(m + 1) : q[i] \in DOMAIN links
  <2> TAKE i \in 0..(m + 1)
  <2>1. i \in 0..m \/ i = m + 1
    OBVIOUS
  <2> QED
    BY <1>1, <1>2, <1>3, <2>1
<1>6. \A i \in 1..(m + 1) : q[i] \in links[q[i - 1]]
  <2> TAKE i \in 1..(m + 1)
  <2>1. CASE i \in 1..m
    <3>1. i \in 0..m /\ i - 1 \in 0..m
      BY <2>1
    <3> QED
      BY <1>1, <1>2, <2>1, <3>1
  <2>2. CASE i = m + 1
    <3>1. i - 1 = m /\ m \in 0..m
      BY <2>2
    <3>2. q[i - 1] = b
      BY <1>1, <1>2, <3>1
    <3> QED
      BY <1>3, <2>2, <3>2
  <2> QED
    BY <2>1, <2>2
<1> QED
  BY <1>3, <1>4, <1>5, <1>6 DEF PathOf

(* A path without its last link.                                           *)
LEMMA PathBack ==
  ASSUME NEW links, NEW a, NEW x, NEW m \in Nat, 1 <= m, PathOf(links, a, x, m)
  PROVE  \E b : PathOf(links, a, b, m - 1) /\ x \in links[b]
<1>1. PICK p : /\ p[0] = a /\ p[m] = x
               /\ \A i \in 0..m : p[i] \in DOMAIN links
               /\ \A i \in 1..m : p[i] \in links[p[i - 1]]
  BY DEF PathOf
<1>2. /\ m \in 1..m /\ m - 1 \in Nat
      /\ 0..(m - 1) \subseteq 0..m /\ 1..(m - 1) \subseteq 1..m
  OBVIOUS
<1>3. PathOf(links, a, p[m - 1], m - 1)
  BY <1>1, <1>2 DEF PathOf
<1> QED
  BY <1>1, <1>2, <1>3

(* What the recursion of Closure computes, number by number.               *)
Reaches(f, a, links, m) ==
  f = [n \in 0..m |-> IF n = 0 THEN {a} ELSE f[n - 1] \cup UNION {links[b] : b \in f[n - 1]}]

(* It has a solution: a least bound without one would have a solution one  *)
(* smaller, and one more step.                                             *)
LEMMA ReachExists ==
  ASSUME NEW a, NEW links, NEW m \in Nat
  PROVE  \E f : Reaches(f, a, links, m)
<1> DEFINE T == {k \in Nat : ~\E f : Reaches(f, a, links, k)}
           More(s) == s \cup UNION {links[b] : b \in s}
<1>1. T = {}
  <2> SUFFICES ASSUME T # {} PROVE FALSE
    OBVIOUS
  <2>1. PICK k \in T : \A y \in T : k <= y
    <3>1. T \subseteq Nat
      OBVIOUS
    <3> HIDE DEF T
    <3> QED
      BY <3>1, LeastNumber
  <2>2. k \in Nat
    OBVIOUS
  <2>3. CASE k = 0
    <3> DEFINE f == [n \in 0..0 |-> {a}]
    <3>1. Reaches(f, a, links, 0)
      BY DEF Reaches
    <3> QED
      BY <2>1, <2>3, <3>1
  <2>4. CASE k # 0
    <3>1. k - 1 \in Nat /\ ~(k <= k - 1)
      BY <2>2, <2>4
    <3>2. k - 1 \notin T
      BY <2>1, <3>1
    <3>3. PICK g : Reaches(g, a, links, k - 1)
      BY <3>1, <3>2
    <3> DEFINE f == [n \in 0..k |-> IF n = k THEN More(g[k - 1]) ELSE g[n]]
    <3>4. ASSUME NEW n \in 0..k
          PROVE  f[n] = IF n = 0 THEN {a} ELSE More(f[n - 1])
      <4> HIDE DEF More
      <4>1. CASE n = k
        <5>1. n # 0 /\ k - 1 \in 0..k /\ k - 1 # k
          BY <2>2, <2>4, <4>1
        <5> QED
          BY <4>1, <5>1, Zenon
      <4>2. CASE n # k
        <5>1. n \in 0..(k - 1)
          BY <2>2, <4>2
        <5>2. f[n] = g[n]
          BY <4>2
        <5>3. g[n] = IF n = 0 THEN {a} ELSE More(g[n - 1])
          BY <3>3, <5>1 DEF Reaches, More
        <5>4. n # 0 => n - 1 \in 0..k /\ n - 1 # k
          BY <2>2, <4>2
        <5> QED
          BY <5>2, <5>3, <5>4
      <4> QED
        BY <4>1, <4>2
    <3>5. Reaches(f, a, links, k)
      <4>1. f = [n \in 0..k |-> f[n]]
        OBVIOUS
      <4> HIDE DEF f
      <4>2. [n \in 0..k |-> f[n]] = [n \in 0..k |-> IF n = 0 THEN {a} ELSE More(f[n - 1])]
        <5> HIDE DEF More
        <5> QED
          BY <3>4
      <4> QED
        BY <4>1, <4>2 DEF Reaches
    <3> HIDE DEF f
    <3> QED
      BY <2>1, <3>5
  <2> QED
    BY <2>3, <2>4
<1> QED
  BY <1>1

(* A search finds what there is a path of at most MaxDepth links to.       *)
LEMMA ClosurePaths ==
  ASSUME NEW S, NEW links \in [S -> SUBSET S], NEW a \in S, NEW b
  PROVE  b \in Closure(a, links) <=> \E m \in 0..MaxDepth : PathOf(links, a, b, m)
<1> DEFINE N == MaxDepth
<1>1. N \in Nat
  BY ScriptAssumption, FS_CardinalityType DEF MaxDepth
<1> DEFINE f == CHOOSE f : Reaches(f, a, links, N)
<1>2. Reaches(f, a, links, N)
  BY <1>1, ReachExists
<1>3. Closure(a, links) = f[N]
  BY Zenon DEF Closure, Reaches
<1> HIDE DEF f, N
<1>4. /\ f[0] = {a}
      /\ \A n \in 1..N : f[n] = f[n - 1] \cup UNION {links[c] : c \in f[n - 1]}
  <2> DEFINE More(s) == s \cup UNION {links[c] : c \in s}
  <2>1. \A n \in 0..N : f[n] = IF n = 0 THEN {a} ELSE More(f[n - 1])
    BY <1>2 DEF Reaches
  <2> HIDE DEF More
  <2>2. f[0] = {a} /\ \A n \in 1..N : f[n] = More(f[n - 1])
    BY <1>1, <2>1
  <2> QED
    BY <2>2 DEF More
<1> DEFINE Right(n) == /\ f[n] \subseteq S
                       /\ \A x : x \in f[n] <=> \E m \in 0..n : PathOf(links, a, x, m)
           T == {n \in 0..N : ~Right(n)}
<1>5. T = {}
  <2> SUFFICES ASSUME T # {} PROVE FALSE
    OBVIOUS
  <2>1. PICK n \in T : \A y \in T : n <= y
    <3>1. T \subseteq Nat
      OBVIOUS
    <3> HIDE DEF T
    <3> QED
      BY <3>1, LeastNumber
  <2>2. n \in 0..N /\ ~Right(n)
    OBVIOUS
  <2> HIDE DEF T
  <2>3. CASE n = 0
    <3>1. 0..0 = {0} /\ 1..0 = {}
      OBVIOUS
    <3>2. PathOf(links, a, a, 0)
      <4> DEFINE p == [i \in 0..0 |-> a]
      <4>1. p[0] = a
        OBVIOUS
      <4> HIDE DEF p
      <4> QED
        BY <3>1, <4>1 DEF PathOf
    <3>3. \A x : PathOf(links, a, x, 0) => x = a
      BY DEF PathOf
    <3> QED
      BY <1>4, <2>2, <2>3, <3>1, <3>2, <3>3
  <2>4. CASE n # 0
    <3>1. /\ n \in Nat /\ n \in 1..N /\ n - 1 \in 0..N /\ n - 1 \in Nat /\ ~(n <= n - 1) /\ 1 <= n
      BY <1>1, <2>2, <2>4
    <3>2. Right(n - 1)
      BY <2>1, <3>1 DEF T
    <3>3. f[n] = f[n - 1] \cup UNION {links[c] : c \in f[n - 1]}
      BY <1>4, <3>1
    <3>4. f[n] \subseteq S
      BY <3>2, <3>3
    <3>5. ASSUME NEW x \in f[n] PROVE \E m \in 0..n : PathOf(links, a, x, m)
      <4>1. CASE x \in f[n - 1]
        <5>1. 0..(n - 1) \subseteq 0..n
          BY <3>1
        <5> QED
          BY <3>2, <4>1, <5>1
      <4>2. CASE \E c \in f[n - 1] : x \in links[c]
        <5>1. PICK c \in f[n - 1] : x \in links[c]
          BY <4>2
        <5>2. PICK m \in 0..(n - 1) : PathOf(links, a, c, m)
          BY <3>2
        <5>3. m \in Nat /\ m + 1 \in 0..n
          BY <3>1
        <5>4. x \in DOMAIN links
          BY <3>4
        <5>5. PathOf(links, a, x, m + 1)
          BY <5>1, <5>2, <5>3, <5>4, PathStep
        <5> QED
          BY <5>3, <5>5
      <4> QED
        BY <3>3, <3>5, <4>1, <4>2
    <3>6. ASSUME NEW x, NEW m \in 0..n, PathOf(links, a, x, m) PROVE x \in f[n]
      <4>1. CASE m \in 0..(n - 1)
        <5>1. x \in f[n - 1]
          BY <3>2, <3>6, <4>1
        <5> QED
          BY <3>3, <5>1
      <4>2. CASE m = n
        <5>1. PICK c : PathOf(links, a, c, n - 1) /\ x \in links[c]
          BY <3>1, <3>6, <4>2, PathBack
        <5>2. n - 1 \in 0..(n - 1)
          BY <3>1
        <5>3. c \in f[n - 1]
          BY <3>2, <5>1, <5>2
        <5> QED
          BY <3>3, <5>1, <5>3
      <4> QED
        BY <3>1, <4>1, <4>2
    <3> QED
      BY <2>2, <3>4, <3>5, <3>6
  <2> QED
    BY <2>3, <2>4
<1>6. Right(N)
  BY <1>1, <1>5
<1> QED
  BY <1>3, <1>6 DEF N

-----------------------------------------------------------------------------
(* The way down from a script.                                             *)
Way(s) == <<s>> \o Inside[s]

(* The first on the way is the script, the others are inside of it.        *)
LEMMA WayFacts ==
  ASSUME NEW s \in Script
  PROVE  /\ Way(s) \in Seq(Script) /\ Range(Way(s)) = {s} \cup Range(Inside[s])
         /\ Len(Inside[s]) \in Nat /\ DOMAIN Way(s) = 1..(Len(Inside[s]) + 1)
         /\ Way(s)[1] = s
         /\ \A j \in 1..Len(Inside[s]) : Way(s)[j + 1] = Inside[s][j]
<1>1. Inside[s] \in Seq(Script) /\ Len(Inside[s]) \in Nat
  BY InsideFacts
<1>2. <<s>> \in Seq(Script) /\ Len(<<s>>) = 1 /\ <<s>>[1] = s
  OBVIOUS
<1>3. /\ Way(s) \in Seq(Script) /\ Range(Way(s)) = {s} \cup Range(Inside[s])
      /\ Len(Way(s)) = Len(Inside[s]) + 1
  BY <1>1, RangeCons DEF Way
<1>4. \A i \in 1..(1 + Len(Inside[s])) : Way(s)[i] = IF i <= 1 THEN <<s>>[i] ELSE Inside[s][i - 1]
  BY <1>1, <1>2, ConcatProperties DEF Way
<1>5. DOMAIN Way(s) = 1..(Len(Inside[s]) + 1)
  BY <1>3, LenProperties
<1>6. Way(s)[1] = s
  BY <1>1, <1>2, <1>4
<1>7. ASSUME NEW j \in 1..Len(Inside[s]) PROVE Way(s)[j + 1] = Inside[s][j]
  <2>1. j + 1 \in 1..(1 + Len(Inside[s])) /\ ~(j + 1 <= 1) /\ (j + 1) - 1 = j
    BY <1>1
  <2> QED
    BY <1>4, <2>1
<1> QED
  BY <1>1, <1>3, <1>5, <1>6, <1>7

(* Nothing but script hashes is on the way to a script hash, and all of    *)
(* them have it inside.                                                    *)
Descends(s) ==
  \A j \in DOMAIN Way(s) : Kind[Way(s)[j]] = "SCRIPTHASH" =>
    \A l \in 1..j : /\ Kind[Way(s)[l]] = "SCRIPTHASH"
                    /\ Way(s)[j] \in {Way(s)[l]} \cup Range(Inside[Way(s)[l]])

(* What is inside a script that is inside s is inside s.                   *)
Nests(s) == \A r \in {s} \cup Range(Inside[s]) : Range(Inside[r]) \subseteq Range(Inside[s])

(* Both hold of every script: one of which they do not would have a        *)
(* shorter such one inside.                                                *)
LEMMA InsideNests ==
  ASSUME NEW s \in Script
  PROVE  Descends(s) /\ Nests(s)
<1> DEFINE Good(r) == Descends(r) /\ Nests(r)
           T == {Len(Inside[r]) : r \in {r \in Script : ~Good(r)}}
<1>1. T = {}
  <2> SUFFICES ASSUME T # {} PROVE FALSE
    OBVIOUS
  <2>1. T \subseteq Nat
    BY InsideFacts
  <2>2. PICK n \in T : \A y \in T : n <= y
    <3> HIDE DEF T
    <3> QED
      BY <2>1, LeastNumber
  <2>3. PICK q \in Script : n = Len(Inside[q]) /\ ~Good(q)
    <3> HIDE DEF Good
    <3> QED
      OBVIOUS
  <2>4. \A r \in Script : ~Good(r) => Len(Inside[q]) <= Len(Inside[r])
    <3> HIDE DEF Good
    <3> QED
      BY <2>2, <2>3
  <2> HIDE DEF T, Good
  <2>5. CASE Kind[q] = "SCRIPTHASH"
    <3> DEFINE p == Wrapped[q].script
               M == Len(Inside[p])
    <3>1. /\ p \in Script /\ Range(Inside[q]) = {p} \cup Range(Inside[p])
          /\ Len(Inside[q]) = M + 1 /\ M \in Nat
      BY <2>5, InsideFacts
    <3>2. Good(p)
      BY <2>4, <3>1
    <3>3. Inside[q] = Way(p)
      BY <2>5, InsideAssumption DEF Way
    <3> HIDE DEF p, M
    <3>4. /\ DOMAIN Way(q) = 1..(M + 2) /\ DOMAIN Way(p) = 1..(M + 1) /\ Way(q)[1] = q
          /\ \A j \in 1..(M + 1) : Way(q)[j + 1] = Way(p)[j]
          /\ Range(Way(p)) = {p} \cup Range(Inside[p])
      <4>1. DOMAIN Way(p) = 1..(M + 1) /\ Range(Way(p)) = {p} \cup Range(Inside[p])
        BY <3>1, WayFacts DEF M
      <4>2. /\ DOMAIN Way(q) = 1..(Len(Inside[q]) + 1) /\ Way(q)[1] = q
            /\ \A j \in 1..Len(Inside[q]) : Way(q)[j + 1] = Inside[q][j]
        BY WayFacts
      <4> QED
        BY <3>1, <3>3, <4>1, <4>2
    <3>5. Nests(q)
      <4> SUFFICES ASSUME NEW r \in {q} \cup Range(Inside[q])
                   PROVE  Range(Inside[r]) \subseteq Range(Inside[q])
        BY DEF Nests
      <4>1. CASE r = q
        BY <4>1
      <4>2. CASE r \in {p} \cup Range(Inside[p])
        BY <3>1, <3>2, <4>2 DEF Good, Nests
      <4> QED
        BY <3>1, <4>1, <4>2
    <3>6. Descends(q)
      <4> SUFFICES ASSUME NEW j \in DOMAIN Way(q), Kind[Way(q)[j]] = "SCRIPTHASH", NEW l \in 1..j
                   PROVE  /\ Kind[Way(q)[l]] = "SCRIPTHASH"
                          /\ Way(q)[j] \in {Way(q)[l]} \cup Range(Inside[Way(q)[l]])
        BY DEF Descends
      <4>1. CASE l = j
        BY <4>1
      <4>2. CASE l = 1 /\ l # j
        <5>1. j - 1 \in 1..(M + 1) /\ (j - 1) + 1 = j
          BY <3>1, <3>4, <4>2
        <5>2. Way(q)[j] = Way(p)[j - 1] /\ j - 1 \in DOMAIN Way(p)
          BY <3>4, <5>1
        <5>3. Way(q)[j] \in Range(Inside[q])
          BY <3>1, <3>4, <5>2 DEF Range
        <5> QED
          BY <2>5, <3>4, <4>2, <5>3
      <4>3. CASE l # 1 /\ l # j
        <5>1. /\ j - 1 \in 1..(M + 1) /\ (j - 1) + 1 = j /\ l - 1 \in 1..(M + 1) /\ (l - 1) + 1 = l
              /\ l - 1 \in 1..(j - 1)
          BY <3>1, <3>4, <4>3
        <5>2. Way(q)[j] = Way(p)[j - 1] /\ j - 1 \in DOMAIN Way(p) /\ Way(q)[l] = Way(p)[l - 1]
          BY <3>4, <5>1
        <5>3. Descends(p)
          BY <3>2 DEF Good
        <5> QED
          BY <5>1, <5>2, <5>3 DEF Descends
      <4> QED
        BY <4>1, <4>2, <4>3
    <3> QED
      BY <2>3, <3>5, <3>6 DEF Good
  <2>6. CASE Kind[q] # "SCRIPTHASH"
    <3>1. \A r \in Range(Inside[q]) : r \in Script /\ Kind[r] = "PUBKEY"
      <4>1. Kind[q] = "MULTISIG" \/ Kind[q] = "PUBKEY"
        BY <2>6, InsideFacts DEF Kinds
      <4>2. CASE Kind[q] = "MULTISIG"
        <5>1. Range(Inside[q]) = Keys[q] /\ \A k \in Keys[q] : k \in Script /\ Kind[k] = "PUBKEY"
          BY <4>2, InsideFacts
        <5> QED
          BY <5>1
      <4>3. CASE Kind[q] = "PUBKEY"
        <5>1. Range(Inside[q]) = {}
          BY <4>3, InsideFacts
        <5> QED
          BY <5>1
      <4> QED
        BY <4>1, <4>2, <4>3
    <3>2. Nests(q)
      <4>1. \A r \in Range(Inside[q]) : Range(Inside[r]) = {}
        BY <3>1, InsideFacts
      <4> QED
        BY <4>1 DEF Nests
    <3>3. Descends(q)
      <4>1. \A j \in DOMAIN Way(q) : Way(q)[j] \in {q} \cup Range(Inside[q])
        BY WayFacts DEF Range
      <4>2. \A j \in DOMAIN Way(q) : Kind[Way(q)[j]] # "SCRIPTHASH"
        BY <2>6, <3>1, <4>1
      <4> QED
        BY <4>2 DEF Descends
    <3> QED
      BY <2>3, <3>2, <3>3 DEF Good
  <2> QED
    BY <2>5, <2>6
<1> QED
  BY <1>1

(* The first transaction to spend a script hash visits it, and only those  *)
(* that the transaction spends are visited.                                *)
LEMMA VisitedWhenRevealed ==
  ASSUME NEW c \in Seq(Tx), NEW i \in DOMAIN c
  PROVE  /\ \A s \in Visits(c, i) : s \in Script /\ Kind[s] = "SCRIPTHASH" /\ s \in Reveals(c[i])
         /\ \A s \in Reveals(c[i]) :
              Kind[s] = "SCRIPTHASH" /\ (\A j \in 1..(i - 1) : s \notin Reveals(c[j])) => s \in Visits(c, i)
<1>1. DOMAIN c = 1..Len(c) /\ Len(c) \in Nat /\ \A j \in DOMAIN c : c[j] \in Tx
  BY LenProperties, ElementOfSeq
<1>2. \A j \in DOMAIN c : \A a \in Spends[c[j]] : a.script \in Script
  BY <1>1, TxScripts
<1>3. ASSUME NEW s \in Visits(c, i)
      PROVE  s \in Script /\ Kind[s] = "SCRIPTHASH" /\ s \in Reveals(c[i])
  <2>1. PICK a \in Spends[c[i]] : s \in VisitedIn(c, i, a.script)
    BY DEF Visits
  <2>2. PICK j \in DOMAIN Way(a.script) :
          /\ s = Way(a.script)[j]
          /\ \A l \in 1..j : Kind[Way(a.script)[l]] = "SCRIPTHASH"
    BY <2>1 DEF VisitedIn, Way
  <2>3. /\ Way(a.script) \in Seq(Script) /\ Range(Way(a.script)) = {a.script} \cup Range(Inside[a.script])
        /\ j \in Nat /\ 1 <= j
    BY <1>2, WayFacts
  <2>4. s \in Range(Way(a.script)) /\ s \in Script /\ j \in 1..j
    BY <2>2, <2>3, ElementOfSeq, LenProperties DEF Range
  <2> QED
    BY <2>2, <2>3, <2>4 DEF Reveals
<1>4. ASSUME NEW s \in Reveals(c[i]), Kind[s] = "SCRIPTHASH",
             \A j \in 1..(i - 1) : s \notin Reveals(c[j])
      PROVE  s \in Visits(c, i)
  <2>1. PICK a \in Spends[c[i]] : s \in {a.script} \cup Range(Inside[a.script])
    BY DEF Reveals
  <2> DEFINE w == Way(a.script)
  <2>2. /\ w \in Seq(Script) /\ Range(w) = {a.script} \cup Range(Inside[a.script])
        /\ Descends(a.script) /\ a.script \in Script
    BY <1>2, WayFacts, InsideNests
  <2>3. PICK j \in DOMAIN w : w[j] = s
    BY <2>1, <2>2 DEF Range
  <2>4. DOMAIN w = 1..Len(w) /\ Len(w) \in Nat
    BY <2>2, LenProperties
  <2>5. ASSUME NEW l \in 1..j PROVE Kind[w[l]] = "SCRIPTHASH" /\ FirstIn(c, w[l]) = i
    <3>1. Kind[w[l]] = "SCRIPTHASH" /\ s \in {w[l]} \cup Range(Inside[w[l]])
      BY <1>4, <2>2, <2>3 DEF Descends
    <3> DEFINE r == w[l]
    <3>2. r \in Range(w)
      BY <2>4 DEF Range
    <3> HIDE DEF r, w
    <3>3. r \in Reveals(c[i])
      BY <2>2, <3>2 DEF Reveals
    <3>4. ASSUME NEW k \in DOMAIN c, r \in Reveals(c[k]) PROVE s \in Reveals(c[k])
      <4>1. PICK b \in Spends[c[k]] : r \in {b.script} \cup Range(Inside[b.script])
        BY <3>4 DEF Reveals
      <4>2. Nests(b.script)
        BY <1>2, InsideNests
      <4>3. s \in {b.script} \cup Range(Inside[b.script])
        BY <3>1, <4>1, <4>2 DEF Nests, r
      <4> QED
        BY <4>3 DEF Reveals
    <3>5. \A k \in 1..(i - 1) : r \notin Reveals(c[k])
      BY <1>1, <1>4, <3>4
    <3>6. ASSUME NEW k \in DOMAIN c, r \in Reveals(c[k]), \A o \in 1..(k - 1) : r \notin Reveals(c[o])
          PROVE  k = i
      BY <1>1, <3>3, <3>5, <3>6
    <3>7. FirstIn(c, r) = i
      BY <3>3, <3>5, <3>6 DEF FirstIn
    <3> QED
      BY <3>1, <3>7 DEF r
  <2>6. s \in VisitedIn(c, i, a.script)
    BY <2>3, <2>5 DEF VisitedIn, Way
  <2> QED
    BY <2>6 DEF Visits
<1> QED
  BY <1>3, <1>4

-----------------------------------------------------------------------------
(* Addresses of the same script.                                           *)
LEMMA SameScriptFacts ==
  ASSUME NEW b \in Addresses
  PROVE  /\ EquivType(b[1]) \in Kinds /\ b[2] \in DOMAIN scripts[EquivType(b[1])]
         /\ b \in SameScript(b)
         /\ \A c \in SameScript(b) :
              /\ c \in Addresses /\ SameScript(c) = SameScript(b)
              /\ c[2] = b[2] /\ EquivType(c[1]) = EquivType(b[1])
<1>1. PICK k \in Kinds : b \in EquivAddressTypes(k) \X DOMAIN scripts[k]
  BY DEF Addresses
<1>2. b = <<b[1], b[2]>> /\ b[1] \in EquivAddressTypes(k) /\ b[2] \in DOMAIN scripts[k]
  BY <1>1
<1>3. \A t \in EquivAddressTypes(k) : EquivType(t) = k
  BY DEF Kinds, EquivType, EquivAddressTypes
<1>4. EquivType(b[1]) = k
  BY <1>2, <1>3
<1>5. SameScript(b) = {<<t, b[2]>> : t \in EquivAddressTypes(k)}
  BY <1>4 DEF SameScript
<1>6. b \in SameScript(b)
  BY <1>2, <1>5
<1>7. ASSUME NEW c \in SameScript(b)
      PROVE  /\ c \in Addresses /\ SameScript(c) = SameScript(b)
             /\ c[2] = b[2] /\ EquivType(c[1]) = EquivType(b[1])
  <2>1. PICK t \in EquivAddressTypes(k) : c = <<t, b[2]>>
    BY <1>5
  <2>2. c[1] = t /\ c[2] = b[2]
    BY <2>1
  <2>3. EquivType(c[1]) = k
    BY <1>3, <2>2
  <2>4. SameScript(c) = SameScript(b)
    BY <1>5, <2>2, <2>3 DEF SameScript
  <2>5. c \in Addresses
    BY <1>1, <1>2, <2>1 DEF Addresses
  <2> QED
    BY <1>4, <2>2, <2>3, <2>4, <2>5
<1> QED
  BY <1>1, <1>2, <1>4, <1>6, <1>7

(* The address of a script that is in the files.                           *)
LEMMA AddressFacts ==
  ASSUME Filed(scripts), NEW a, IsAddress(a), Has(scripts, a.script)
  PROVE  /\ Address(a) \in Addresses /\ ScriptOf(Address(a)) = a.script
         /\ Address(a)[1] = a.type /\ Address(a)[2] = Num(a.script)
<1>1. a.script \in Script /\ Kind[a.script] = EquivType(a.type) /\ Kind[a.script] \in Kinds
      /\ a.type \in EquivAddressTypes(Kind[a.script])
  BY AddressKind, InsideFacts DEF IsAddress
<1>2. Num(a.script) = NumIn(scripts, a.script)
  BY Zenon DEF Num, NumIn
<1>3. Extends(scripts, scripts)
  BY DEF Extends, Filed
<1>4. /\ Num(a.script) \in DOMAIN scripts[Kind[a.script]]
      /\ scripts[Kind[a.script]][Num(a.script)] = a.script
  BY <1>1, <1>2, <1>3, NumKept
<1>5. Address(a) = <<a.type, Num(a.script)>>
  BY DEF Address
<1>6. Address(a) \in Addresses
  BY <1>1, <1>4, <1>5 DEF Addresses
<1>7. Address(a)[1] = a.type /\ Address(a)[2] = Num(a.script)
  BY <1>5
<1> QED
  BY <1>1, <1>4, <1>6, <1>7 DEF ScriptOf

(* The script hashes that are spent.                                       *)
SpentHashes == {s \in Script : Kind[s] = "SCRIPTHASH" /\ IsRevealed(s)}
Entry(s) == <<Address(Wrapped[s]), "SCRIPTHASH", Num(s)>>

(* The index has an entry for every script hash that is spent, and no      *)
(* other ones of that type.                                                *)
LEMMA EntriesOfSpent ==
  ASSUME HashInv, ColumnInv, UpToDate
  PROVE  /\ Filed(scripts)
         /\ \A s \in SpentHashes :
              /\ Has(scripts, s) /\ Has(scripts, Wrapped[s].script) /\ IsAddress(Wrapped[s])
              /\ Entry(s) \in nested
         /\ \A e \in nested : e[2] = "SCRIPTHASH" => \E s \in SpentHashes : e = Entry(s)
         /\ KnownAddresses \subseteq Addresses
<1>1. FilesInv /\ OutputInv /\ NestedInv
  BY DEF ColumnInv, UpToDate
<1>2. chain \in Seq(Tx) /\ Len(chain) \in Nat /\ DOMAIN chain = 1..Len(chain)
  BY ChainFacts DEF HashInv, TypeInv
<1>3. /\ Filed(scripts) /\ HasKeys(scripts)
      /\ \A i \in 1..Len(chain) : chain[i] \in Tx /\ HasTx(scripts, chain[i])
  BY <1>1, <1>2, ElementOfSeq DEF FilesInv
<1>4. latest["address"].txCount = Len(chain)
  BY DEF UpToDate
<1>5. \A i : NestedOf(i) = {<<Address(Wrapped[s]), "SCRIPTHASH", Num(s)>> : s \in Visits(chain, i)}
  <2>1. \A s : TxRevealed(s) = FirstIn(chain, s)
    BY Zenon DEF TxRevealed, FirstIn
  <2>2. \A i, s : VisitedFrom(i, s) = VisitedIn(chain, i, s)
    BY <2>1 DEF VisitedFrom, VisitedIn
  <2> QED
    BY <2>2 DEF NestedOf, Visits
<1>6. ASSUME NEW s \in Script, NEW i \in 1..Len(chain), s \in Reveals(chain[i]), Kind[s] = "SCRIPTHASH"
      PROVE  Has(scripts, s) /\ Has(scripts, Wrapped[s].script) /\ IsAddress(Wrapped[s])
  <2>1. PICK a \in Spends[chain[i]] : s \in {a.script} \cup Range(Inside[a.script])
    BY <1>6 DEF Reveals
  <2>2. Wrapped[s].script \in Range(Inside[a.script])
    BY <1>3, <1>6, <2>1, TxScripts
  <2> QED
    BY <1>3, <1>6, <2>1, <2>2, ScriptAssumption DEF HasTx
<1>7. ASSUME NEW s \in SpentHashes
      PROVE  /\ Has(scripts, s) /\ Has(scripts, Wrapped[s].script) /\ IsAddress(Wrapped[s])
             /\ Entry(s) \in nested
  <2>1. s \in Script /\ Kind[s] = "SCRIPTHASH" /\ \E i \in 1..Len(chain) : s \in Reveals(chain[i])
    BY <1>2 DEF SpentHashes, IsRevealed
  <2> DEFINE T == {i \in 1..Len(chain) : s \in Reveals(chain[i])}
  <2>2. T # {} /\ T \subseteq Nat
    BY <1>2, <2>1
  <2>3. PICK i \in T : \A y \in T : i <= y
    <3> HIDE DEF T
    <3> QED
      BY <2>2, LeastNumber
  <2>4. /\ i \in 1..Len(chain) /\ s \in Reveals(chain[i])
        /\ \A j \in 1..Len(chain) : s \in Reveals(chain[j]) => i <= j
    BY <2>3
  <2> HIDE DEF T
  <2>5. \A j \in 1..(i - 1) : s \notin Reveals(chain[j])
    BY <1>2, <2>4
  <2>6. s \in Visits(chain, i)
    BY <1>2, <2>1, <2>4, <2>5, VisitedWhenRevealed
  <2>7. Entry(s) \in NestedOf(i)
    BY <1>5, <2>6 DEF Entry
  <2>8. Entry(s) \in nested
    BY <1>1, <1>4, <2>4, <2>7 DEF NestedInv
  <2> QED
    BY <1>6, <2>1, <2>4, <2>8
<1>8. ASSUME NEW e \in nested
      PROVE  \/ \E s \in SpentHashes : e = Entry(s)
             \/ e[2] = "MULTISIG" /\ e[1] \in Addresses
  <2>1. CASE \E i \in 1..Len(chain) : e \in NestedOf(i)
    <3>1. PICK i \in 1..Len(chain) : e \in NestedOf(i)
      BY <2>1
    <3>2. PICK s \in Visits(chain, i) : e = Entry(s)
      BY <1>5, <3>1 DEF Entry
    <3>3. s \in Script /\ Kind[s] = "SCRIPTHASH" /\ s \in Reveals(chain[i])
      BY <1>2, <3>1, VisitedWhenRevealed
    <3>4. s \in SpentHashes
      BY <1>2, <3>1, <3>3 DEF SpentHashes, IsRevealed
    <3> QED
      BY <3>2, <3>4
  <2>2. CASE \E n \in 1..Len(scripts["MULTISIG"]) : e \in MultisigOf(n)
    <3>1. PICK n \in 1..Len(scripts["MULTISIG"]) : e \in MultisigOf(n)
      BY <2>2
    <3>2. PICK k \in Keys[scripts["MULTISIG"][n]] : e = <<<<"MULTISIG_PUBKEY", Num(k)>>, "MULTISIG", n>>
      BY <3>1 DEF MultisigOf
    <3>3. DOMAIN scripts["MULTISIG"] = 1..Len(scripts["MULTISIG"]) /\ scripts["MULTISIG"] \in Seq(Script)
          /\ \A m \in DOMAIN scripts["MULTISIG"] : Kind[scripts["MULTISIG"][m]] = "MULTISIG"
      BY <1>3, LenProperties DEF Filed, Kinds
    <3>4. k \in Script /\ Has(scripts, k)
      BY <1>3, <3>1, <3>2, <3>3 DEF HasKeys
    <3>5. scripts["MULTISIG"][n] \in Script /\ Kind[scripts["MULTISIG"][n]] = "MULTISIG"
      BY <3>1, <3>3, ElementOfSeq
    <3>6. Kind[k] = "PUBKEY"
      BY <3>2, <3>5, ScriptAssumption
    <3> DEFINE a == [type |-> "MULTISIG_PUBKEY", script |-> k]
    <3>7. IsAddress(a) /\ a.script = k /\ a.type = "MULTISIG_PUBKEY"
      BY <3>4, <3>6 DEF IsAddress, EquivAddressTypes
    <3> HIDE DEF a
    <3>8. Address(a) \in Addresses
      BY <1>3, <3>4, <3>7, AddressFacts
    <3>9. e[1] = Address(a) /\ e[2] = "MULTISIG"
      BY <3>2, <3>7 DEF Address
    <3> QED
      BY <3>8, <3>9
  <2> QED
    BY <1>1, <2>1, <2>2 DEF NestedInv
<1>9. KnownAddresses \subseteq Addresses
  <2>1. ASSUME NEW o \in outputs PROVE o[1] \in Addresses
    <3>1. PICK i \in 1..Len(chain) : o \in OutputsOf(i)
      BY <1>1 DEF OutputInv
    <3>2. PICK k \in DOMAIN Outs[chain[i]] : o = <<Address(Outs[chain[i]][k]), i, k>>
      BY <3>1 DEF OutputsOf
    <3>3. Outs[chain[i]][k] \in Range(Outs[chain[i]])
      BY DEF Range
    <3>4. IsAddress(Outs[chain[i]][k]) /\ Has(scripts, Outs[chain[i]][k].script)
      BY <1>3, <3>3, TxAssumption DEF HasTx
    <3>5. Address(Outs[chain[i]][k]) \in Addresses
      BY <1>3, <3>4, AddressFacts
    <3> QED
      BY <3>2, <3>5
  <2>2. ASSUME NEW e \in nested PROVE e[1] \in Addresses
    <3>1. ASSUME NEW s \in SpentHashes, e = Entry(s) PROVE e[1] \in Addresses
      <4>1. Address(Wrapped[s]) \in Addresses
        BY <1>3, <1>7, AddressFacts
      <4> QED
        BY <3>1, <4>1 DEF Entry
    <3> QED
      BY <1>8, <3>1
  <2> QED
    BY <2>1, <2>2 DEF KnownAddresses
<1>10. \A e \in nested : e[2] = "SCRIPTHASH" => \E s \in SpentHashes : e = Entry(s)
  BY <1>8
<1> QED
  BY <1>3, <1>7, <1>9, <1>10

(* A link up is undone by one down, to every address of the script.        *)
LEMMA UpIsUndone ==
  ASSUME HashInv, ColumnInv, UpToDate, NEW b \in Addresses, NEW y \in Up(b)
  PROVE  y \in Addresses /\ SameScript(b) \subseteq Down(y)
<1>1. PICK e \in nested : e[1] = b /\ e[2] = "SCRIPTHASH" /\ y \in SameScript(<<e[2], e[3]>>)
  BY DEF Up
<1>2. PICK s \in SpentHashes : e = Entry(s)
  BY <1>1, EntriesOfSpent
<1>3. /\ Filed(scripts) /\ Has(scripts, s)
      /\ s \in Script /\ Kind[s] = "SCRIPTHASH" /\ IsRevealed(s)
  BY EntriesOfSpent DEF SpentHashes
<1>4. b = Address(Wrapped[s]) /\ y \in SameScript(<<"SCRIPTHASH", Num(s)>>)
  BY <1>1, <1>2 DEF Entry
<1> DEFINE a == [type |-> "SCRIPTHASH", script |-> s]
<1>5. IsAddress(a) /\ a.script = s /\ Address(a) = <<"SCRIPTHASH", Num(s)>>
  BY <1>3 DEF IsAddress, EquivAddressTypes, Address
<1> HIDE DEF a
<1>6. Address(a) \in Addresses /\ ScriptOf(Address(a)) = s /\ Address(a)[1] = "SCRIPTHASH"
  BY <1>3, <1>5, AddressFacts
<1>7. y \in Addresses /\ y[2] = Address(a)[2] /\ EquivType(y[1]) = EquivType(Address(a)[1])
  BY <1>4, <1>5, <1>6, SameScriptFacts
<1>8. ScriptOf(y) = s /\ EquivType(y[1]) = "SCRIPTHASH"
  BY <1>6, <1>7 DEF ScriptOf, EquivType
<1>9. WrappedAddress(y) = {b}
  BY <1>3, <1>4, <1>8 DEF WrappedAddress
<1>10. Down(y) = SameScript(b)
  BY <1>9 DEF Down
<1> QED
  BY <1>7, <1>10

(* A link down is undone by one up, from the address that is wrapped, to   *)
(* every address of the script.                                            *)
LEMMA DownIsUndone ==
  ASSUME HashInv, ColumnInv, UpToDate, NEW y \in Addresses, NEW x \in Down(y)
  PROVE  x \in Addresses
         /\ \E w \in Addresses : Down(y) = SameScript(w) /\ SameScript(y) \subseteq Up(w)
<1> DEFINE s == ScriptOf(y)
<1>1. /\ EquivType(y[1]) = "SCRIPTHASH" /\ IsRevealed(s)
      /\ WrappedAddress(y) = {Address(Wrapped[s])}
  <2>1. WrappedAddress(y) # {}
    BY DEF Down
  <2> QED
    BY <2>1 DEF WrappedAddress
<1>2. Filed(scripts)
  BY EntriesOfSpent
<1>3. y[2] \in DOMAIN scripts["SCRIPTHASH"] /\ s = scripts["SCRIPTHASH"][y[2]]
  BY <1>1, SameScriptFacts DEF ScriptOf
<1>4. s \in Script /\ Kind[s] = "SCRIPTHASH"
      /\ \A m \in DOMAIN scripts["SCRIPTHASH"] : scripts["SCRIPTHASH"][m] = s => m = y[2]
  <2>1. "SCRIPTHASH" \in Kinds /\ scripts["SCRIPTHASH"] \in Seq(Script)
    BY <1>2 DEF Filed, Kinds
  <2> QED
    BY <1>2, <1>3, <2>1, LenProperties, ElementOfSeq DEF Filed
<1> HIDE DEF s
<1>5. Num(s) = y[2]
  BY <1>3, <1>4 DEF Num
<1>6. s \in SpentHashes
  BY <1>1, <1>4 DEF SpentHashes
<1>7. Has(scripts, Wrapped[s].script) /\ IsAddress(Wrapped[s]) /\ Entry(s) \in nested
  BY <1>6, EntriesOfSpent
<1> DEFINE w == Address(Wrapped[s])
<1>8. w \in Addresses
  BY <1>2, <1>7, AddressFacts
<1>9. Down(y) = SameScript(w)
  BY <1>1 DEF Down
<1>10. x \in Addresses
  BY <1>8, <1>9, SameScriptFacts
<1>11. SameScript(<<"SCRIPTHASH", Num(s)>>) \subseteq Up(w)
  <2>1. Entry(s)[1] = w /\ Entry(s)[2] = "SCRIPTHASH" /\ Entry(s)[3] = Num(s)
    BY DEF Entry
  <2> HIDE DEF w
  <2> QED
    BY <1>7, <2>1 DEF Up
<1>12. SameScript(y) = SameScript(<<"SCRIPTHASH", Num(s)>>)
  BY <1>1, <1>5 DEF SameScript, EquivType
<1> QED
  BY <1>8, <1>9, <1>10, <1>11, <1>12

UpLinks == [b \in Addresses |-> Up(b)]
DownLinks == [b \in Addresses |-> Down(b)]

(* The links lead from addresses to addresses.                             *)
LEMMA LinkTypes ==
  ASSUME HashInv, ColumnInv, UpToDate
  PROVE  UpLinks \in [Addresses -> SUBSET Addresses] /\ DownLinks \in [Addresses -> SUBSET Addresses]
<1>1. \A b \in Addresses : Up(b) \subseteq Addresses
  BY UpIsUndone
<1>2. \A b \in Addresses : Down(b) \subseteq Addresses
  BY DownIsUndone
<1> QED
  BY <1>1, <1>2 DEF UpLinks, DownLinks

(* A way up from an address of the same script as a, turned round.         *)
LEMMA UpReversed ==
  ASSUME HashInv, ColumnInv, UpToDate, NEW a \in Addresses, NEW c \in SameScript(a), NEW b,
         NEW m \in Nat, PathOf(UpLinks, c, b, m)
  PROVE  \E d \in SameScript(b) : PathOf(DownLinks, d, a, m)
<1>1. PICK p : /\ p[0] = c /\ p[m] = b
               /\ \A i \in 0..m : p[i] \in DOMAIN UpLinks
               /\ \A i \in 1..m : p[i] \in UpLinks[p[i - 1]]
  BY DEF PathOf
<1>2. \A i \in 0..m : p[i] \in Addresses
  BY <1>1 DEF UpLinks
<1>3. \A i \in 1..m : p[i] \in Up(p[i - 1]) /\ i - 1 \in 0..m
  BY <1>1, <1>2 DEF UpLinks
<1>4. \A i \in 1..m : SameScript(p[i - 1]) \subseteq Down(p[i])
  BY <1>2, <1>3, UpIsUndone
<1>5. a \in SameScript(c) /\ SameScript(c) = SameScript(a)
  BY SameScriptFacts
<1> DEFINE q == [i \in 0..m |-> IF i = m THEN a ELSE p[m - i]]
<1>6. q[m] = a /\ \A i \in 0..m : i # m => q[i] = p[m - i]
  OBVIOUS
<1> HIDE DEF q
<1>7. \A i \in 0..m : q[i] \in Addresses
  BY <1>2, <1>6
<1>8. ASSUME NEW i \in 1..m PROVE q[i] \in Down(q[i - 1])
  <2>1. /\ i - 1 \in 0..m /\ i - 1 # m /\ m - (i - 1) \in 1..m /\ (m - (i - 1)) - 1 = m - i
        /\ m - i \in 0..m /\ i \in 0..m
    OBVIOUS
  <2>2. q[i - 1] = p[m - (i - 1)]
    BY <1>6, <2>1
  <2>3. SameScript(p[m - i]) \subseteq Down(q[i - 1])
    BY <1>4, <2>1, <2>2
  <2>4. q[i] \in SameScript(p[m - i])
    <3>1. CASE i = m
      BY <1>1, <1>5, <1>6, <3>1
    <3>2. CASE i # m
      <4>1. q[i] = p[m - i] /\ p[m - i] \in Addresses
        BY <1>2, <1>6, <2>1, <3>2
      <4> QED
        BY <4>1, SameScriptFacts
    <3> QED
      BY <3>1, <3>2
  <2> QED
    BY <2>3, <2>4
<1>9. DOMAIN DownLinks = Addresses /\ \A x \in Addresses : DownLinks[x] = Down(x)
  BY DEF DownLinks
<1>10. \A i \in 1..m : q[i] \in DownLinks[q[i - 1]]
  <2> TAKE i \in 1..m
  <2>1. i - 1 \in 0..m
    OBVIOUS
  <2> QED
    BY <1>7, <1>8, <1>9, <2>1
<1>11. PathOf(DownLinks, q[0], a, m)
  BY <1>6, <1>7, <1>9, <1>10 DEF PathOf
<1>12. q[0] \in SameScript(b)
  <2>1. CASE m = 0
    BY <1>1, <1>5, <1>6, <2>1
  <2>2. CASE m # 0
    <3>1. q[0] = p[m] /\ p[m] \in Addresses
      BY <1>2, <1>6, <2>2
    <3> QED
      BY <1>1, <3>1, SameScriptFacts
  <2> QED
    BY <2>1, <2>2
<1> QED
  BY <1>11, <1>12

(* A way down, turned round: it goes through the addresses that are        *)
(* wrapped, which have the scripts of those on the way down.               *)
LEMMA DownReversed ==
  ASSUME HashInv, ColumnInv, UpToDate, NEW a \in Addresses, NEW c \in SameScript(a), NEW b,
         NEW m \in Nat, PathOf(DownLinks, c, b, m)
  PROVE  \E d \in SameScript(b) : PathOf(UpLinks, d, a, m)
<1>1. PICK p : /\ p[0] = c /\ p[m] = b
               /\ \A i \in 0..m : p[i] \in DOMAIN DownLinks
               /\ \A i \in 1..m : p[i] \in DownLinks[p[i - 1]]
  BY DEF PathOf
<1>2. \A i \in 0..m : p[i] \in Addresses
  BY <1>1 DEF DownLinks
<1>3. \A i \in 1..m : p[i] \in Down(p[i - 1]) /\ i - 1 \in 0..m
  BY <1>1, <1>2 DEF DownLinks
<1> DEFINE Wraps(w, i) == Down(p[i - 1]) = SameScript(w) /\ SameScript(p[i - 1]) \subseteq Up(w)
           W(i) == CHOOSE w \in Addresses : Wraps(w, i)
<1>4. \A i \in 1..m : W(i) \in Addresses /\ Wraps(W(i), i)
  <2>1. \A i \in 1..m : \E w \in Addresses : Wraps(w, i)
    BY <1>2, <1>3, DownIsUndone
  <2> HIDE DEF Wraps
  <2> QED
    BY <2>1
<1>5. \A i \in 1..m : /\ W(i) \in Addresses /\ SameScript(p[i - 1]) \subseteq Up(W(i))
                      /\ p[i] \in SameScript(W(i))
  BY <1>3, <1>4
<1> HIDE DEF W
<1>6. \A i \in 1..m : W(i) \in SameScript(p[i])
  BY <1>5, SameScriptFacts
<1>7. a \in SameScript(c) /\ SameScript(c) = SameScript(a)
  BY SameScriptFacts
<1> DEFINE q == [i \in 0..m |-> IF i = m THEN a ELSE W(m - i)]
<1>8. q[m] = a /\ \A i \in 0..m : i # m => q[i] = W(m - i)
  OBVIOUS
<1> HIDE DEF q
<1>9. \A i \in 0..m : q[i] \in Addresses
  <2> TAKE i \in 0..m
  <2>1. i = m \/ m - i \in 1..m
    OBVIOUS
  <2> QED
    BY <1>5, <1>8, <2>1
<1>10. ASSUME NEW i \in 1..m PROVE q[i] \in Up(q[i - 1])
  <2>1. /\ i - 1 \in 0..m /\ i - 1 # m /\ m - (i - 1) \in 1..m /\ (m - (i - 1)) - 1 = m - i
        /\ i \in 0..m /\ (i # m => m - i \in 1..m)
    OBVIOUS
  <2>2. q[i - 1] = W(m - (i - 1))
    BY <1>8, <2>1
  <2>3. SameScript(p[m - i]) \subseteq Up(q[i - 1])
    BY <1>5, <2>1, <2>2
  <2>4. q[i] \in SameScript(p[m - i])
    <3>1. CASE i = m
      BY <1>1, <1>7, <1>8, <3>1
    <3>2. CASE i # m
      BY <1>6, <1>8, <2>1, <3>2
    <3> QED
      BY <3>1, <3>2
  <2> QED
    BY <2>3, <2>4
<1>11. DOMAIN UpLinks = Addresses /\ \A x \in Addresses : UpLinks[x] = Up(x)
  BY DEF UpLinks
<1>12. \A i \in 1..m : q[i] \in UpLinks[q[i - 1]]
  <2> TAKE i \in 1..m
  <2>1. i - 1 \in 0..m
    OBVIOUS
  <2> QED
    BY <1>9, <1>10, <1>11, <2>1
<1>13. PathOf(UpLinks, q[0], a, m)
  BY <1>8, <1>9, <1>11, <1>12 DEF PathOf
<1>14. q[0] \in SameScript(b)
  <2>1. CASE m = 0
    BY <1>1, <1>7, <1>8, <2>1
  <2>2. CASE m # 0
    <3>1. q[0] = W(m) /\ m \in 1..m
      BY <1>8, <2>2
    <3> QED
      BY <1>1, <1>6, <3>1
  <2> QED
    BY <2>1, <2>2
<1> QED
  BY <1>13, <1>14

(* An address that another one leads to leads back to it.                  *)
LEMMA EquivalenceBack ==
  ASSUME HashInv, ColumnInv, UpToDate,
         NEW a \in KnownAddresses, NEW b \in KnownAddresses, b \in EquivAddress(a)
  PROVE  a \in EquivAddress(b)
<1>1. a \in Addresses /\ b \in Addresses
  BY EntriesOfSpent
<1>2. CheckIfExists(a)
  <2>1. CASE \E o \in outputs : o[1] = a
    BY <2>1 DEF CheckIfExists, GetOutputPointers
  <2>2. CASE \E e \in nested : e[1] = a
    BY <2>2 DEF CheckIfExists
  <2> QED
    BY <2>1, <2>2 DEF KnownAddresses
<1>3. /\ UpLinks \in [Addresses -> SUBSET Addresses]
      /\ DownLinks \in [Addresses -> SUBSET Addresses]
  BY LinkTypes
<1>4. MaxDepth \in Nat
  BY ScriptAssumption, FS_CardinalityType DEF MaxDepth
<1>5. \A x : GetPossibleNestedEquivalent(x) = Closure(x, UpLinks) \cup Closure(x, DownLinks)
  BY Zenon DEF GetPossibleNestedEquivalent, UpLinks, DownLinks
<1>6. PICK c \in SameScript(a) : b \in Closure(c, UpLinks) \/ b \in Closure(c, DownLinks)
  BY <1>5 DEF EquivAddress
<1>7. c \in Addresses /\ \A d \in SameScript(b) : d \in Addresses
  BY <1>1, SameScriptFacts
<1>8. \E d \in SameScript(b) : a \in Closure(d, UpLinks) \/ a \in Closure(d, DownLinks)
  <2>1. CASE b \in Closure(c, UpLinks)
    <3>1. PICK m \in 0..MaxDepth : PathOf(UpLinks, c, b, m)
      BY <1>3, <1>7, <2>1, ClosurePaths
    <3>2. m \in Nat
      BY <1>4
    <3>3. PICK d \in SameScript(b) : PathOf(DownLinks, d, a, m)
      BY <1>1, <3>1, <3>2, UpReversed
    <3>4. a \in Closure(d, DownLinks)
      BY <1>3, <1>7, <3>3, ClosurePaths
    <3> QED
      BY <3>4
  <2>2. CASE b \in Closure(c, DownLinks)
    <3>1. PICK m \in 0..MaxDepth : PathOf(DownLinks, c, b, m)
      BY <1>3, <1>7, <2>2, ClosurePaths
    <3>2. m \in Nat
      BY <1>4
    <3>3. PICK d \in SameScript(b) : PathOf(UpLinks, d, a, m)
      BY <1>1, <3>1, <3>2, DownReversed
    <3>4. a \in Closure(d, UpLinks)
      BY <1>3, <1>7, <3>3, ClosurePaths
    <3> QED
      BY <3>4
  <2> QED
    BY <1>6, <2>1, <2>2
<1> QED
  BY <1>2, <1>5, <1>8 DEF EquivAddress

(* Two addresses that an index which has caught up with the chain knows    *)
(* are equivalent both ways or not at all, although one way is read from   *)
(* its nested columns and the other one from the records of the scripts.   *)
THEOREM EquivalentBothWays == Spec => []EquivalenceIsSymmetric
<1>1. HashInv /\ ColumnInv => EquivalenceIsSymmetric
  BY EquivalenceBack DEF EquivalenceIsSymmetric
<1> QED
  BY HashInvariance, ColumnInvariance, <1>1, PTL
=============================================================================
